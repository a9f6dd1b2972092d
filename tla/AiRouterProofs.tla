--------------------------- MODULE AiRouterProofs ---------------------------
(***************************************************************************)
(* Proofs about AiRouter, for any requests, models, providers, candidate     *)
(* lists, thresholds and any bound of the clock.                             *)
(***************************************************************************)
EXTENDS AiRouter, FiniteSetTheorems, TLAPS

-----------------------------------------------------------------------------
(* The breaker's operators *)

\* A circuit stays a circuit whatever method runs on it.
LEMMA BreakerTypes ==
    ASSUME NEW c \in Circuits, NEW t \in Nat, NEW f \in FailureRecords
    PROVE  /\ AfterCanPass(c, t) \in Circuits
           /\ AfterGetState(c, t) \in Circuits
           /\ AfterSuccess(c) \in Circuits
           /\ AfterFailure(c, f) \in Circuits
<1>1. AfterCanPass(c, t) \in Circuits
  BY DEF AfterCanPass, Circuits, CircuitStates
<1>2. AfterGetState(c, t) \in Circuits
  BY DEF AfterGetState, Circuits, Recent
<1>3. AfterSuccess(c) \in Circuits
  BY DEF AfterSuccess, Circuits, CircuitStates
<1>4. AfterFailure(c, f) \in Circuits
  <2>1. Recent(c.failures \union {f}, f.at) \in SUBSET FailureRecords
    BY DEF Recent, Circuits
  <2>2. f.at \in Nat
    BY DEF FailureRecords
  <2>. QED
    BY <2>1, <2>2 DEF AfterFailure, Circuits, CircuitStates
<1>. QED
  BY <1>1, <1>2, <1>3, <1>4

\* The list is capped within its length, and has a provider at each position.
LEMMA DepthType ==
    ASSUME NEW l \in CandidateLists \union {<<>>}
    PROVE  /\ Depth(l) \in 0..FallbackDepth
           /\ Depth(l) <= Len(l)
           /\ l \in Seq(Models)
           /\ \A i \in 1..Depth(l) : ProviderAt(l, i) \in Providers
<1>1. l \in Seq(Models)
  <2>1. <<>> \in Seq(Models)
    OBVIOUS
  <2>2. CASE l \in CandidateLists
    BY <2>2, RouterAssumption
  <2>3. CASE l = <<>>
    BY <2>1, <2>3
  <2>. QED
    BY <2>2, <2>3
<1>2. Len(l) \in Nat
  BY <1>1
<1>3. Depth(l) \in 0..FallbackDepth /\ Depth(l) <= Len(l)
  BY <1>2, RouterAssumption DEF Depth
<1>4. ASSUME NEW i \in 1..Depth(l) PROVE ProviderAt(l, i) \in Providers
  <2>1. i \in 1..Len(l)
    BY <1>2, <1>3
  <2>2. l[i] \in Models
    BY <1>1, <2>1
  <2>. QED
    BY <2>2, RouterAssumption DEF ProviderAt
<1>. QED
  BY <1>1, <1>3, <1>4

\* What the synchronous loop does: it leaves the request at a position not
\* before the one it started from, at the key query of a candidate it admitted
\* or past the end, and touches each circuit by canPass() and getState() only.
LEMMA ResumeFacts ==
    ASSUME TypeOK,
           NEW r \in Requests, NEW circ \in [Providers -> Circuits],
           NEW k \in Kinds, NEW l \in CandidateLists \union {<<>>},
           NEW from \in Nat \ {0}, from <= Depth(l) + 1,
           Resume(r, circ, k, l, from)
    PROVE  /\ circuit' \in [Providers -> Circuits]
           /\ \A p \in Providers :
                 circuit'[p] \in {circ[p], AfterCanPass(circ[p], now),
                                 AfterCanPass(AfterGetState(circ[p], now), now)}
           /\ pc' = [pc EXCEPT ![r] = pc'[r]]
           /\ at' = [at EXCEPT ![r] = at'[r]]
           /\ at'[r] \in from..(Depth(l) + 1)
           /\ \/ /\ pc'[r] = "keyLookup"
                 /\ at'[r] <= Depth(l)
                 /\ CanPass(circ[ProviderAt(l, at'[r])], now)
                 /\ circuit'[ProviderAt(l, at'[r])].state # "open"
              \/ /\ pc'[r] = IF k = "chat" THEN "savingError" ELSE "rejected"
                 /\ at'[r] = Depth(l) + 1
<1>1. /\ now \in Nat
      /\ pc \in [Requests -> Pcs]
      /\ at \in [Requests -> 0..(FallbackDepth + 1)]
  BY DEF TypeOK
<1>2. /\ Depth(l) \in Nat
      /\ \A i \in 1..Depth(l) : ProviderAt(l, i) \in Providers
  BY DepthType, RouterAssumption
<1>3. ASSUME NEW is
      PROVE  LET c == Probed(circ, k, l, is) IN
             /\ c \in [Providers -> Circuits]
             /\ \A p \in Providers :
                   c[p] \in {circ[p], AfterCanPass(circ[p], now),
                            AfterCanPass(AfterGetState(circ[p], now), now)}
  <2>1. ASSUME NEW p \in Providers
        PROVE  /\ circ[p] \in Circuits
               /\ AfterCanPass(circ[p], now) \in Circuits
               /\ AfterCanPass(AfterGetState(circ[p], now), now) \in Circuits
    <3>1. circ[p] \in Circuits
      OBVIOUS
    <3>2. [req |-> r, pos |-> 0, at |-> 0] \in FailureRecords
      BY DEF FailureRecords
    <3>3. AfterGetState(circ[p], now) \in Circuits
      BY <1>1, <3>1, <3>2, BreakerTypes
    <3>. QED
      BY <1>1, <3>1, <3>2, <3>3, BreakerTypes
  <2>. QED
    BY <2>1 DEF Probed
<1>4. CASE \E i \in from..Depth(l) :
             /\ Admits(circ, k, ProviderAt(l, i))
             /\ \A j \in from..(i - 1) : ~ Admits(circ, k, ProviderAt(l, j))
             /\ circuit' = Probed(circ, k, l, from..i)
             /\ pc' = [pc EXCEPT ![r] = "keyLookup"]
             /\ at' = [at EXCEPT ![r] = i]
  <2>1. PICK i \in from..Depth(l) :
             /\ Admits(circ, k, ProviderAt(l, i))
             /\ circuit' = Probed(circ, k, l, from..i)
             /\ pc' = [pc EXCEPT ![r] = "keyLookup"]
             /\ at' = [at EXCEPT ![r] = i]
    BY <1>4
  <2>2. i \in 1..Depth(l) /\ i \in from..i /\ i \in from..(Depth(l) + 1) /\ i <= Depth(l)
    BY <1>2
  <2>3. at'[r] = i /\ pc'[r] = "keyLookup"
    BY <1>1, <2>1
  <2>4. CanPass(circ[ProviderAt(l, i)], now)
    BY <2>1 DEF Admits
  <2>5. circuit'[ProviderAt(l, i)].state # "open"
    <3> DEFINE p == ProviderAt(l, i)
    <3>1. p \in Providers
      BY <1>2, <2>2
    <3>2. circ[p] \in Circuits
      BY <3>1
    <3>3. circuit'[p] = IF k = "chat" THEN AfterCanPass(AfterGetState(circ[p], now), now)
                                      ELSE AfterCanPass(circ[p], now)
      BY <2>1, <2>2, <3>1 DEF Probed
    <3>4. CanPass(circ[p], now)
      BY <2>4
    <3>5. AfterCanPass(circ[p], now).state # "open"
      BY <3>2, <3>4 DEF AfterCanPass, Circuits, CircuitStates
    <3>6. AfterCanPass(AfterGetState(circ[p], now), now).state # "open"
      BY <3>2, <3>4 DEF AfterCanPass, AfterGetState, CanPass, Cooling, Circuits, CircuitStates
    <3>. QED
      BY <3>3, <3>5, <3>6
  <2>6. at' = [at EXCEPT ![r] = at'[r]] /\ pc' = [pc EXCEPT ![r] = pc'[r]]
    BY <2>1, <2>3
  <2>. QED
    BY <1>3, <2>1, <2>2, <2>3, <2>4, <2>5, <2>6
<1>5. CASE /\ circuit' = Probed(circ, k, l, from..Depth(l))
           /\ pc' = [pc EXCEPT ![r] = IF k = "chat" THEN "savingError" ELSE "rejected"]
           /\ at' = [at EXCEPT ![r] = Depth(l) + 1]
  <2>1. /\ at'[r] = Depth(l) + 1
        /\ pc'[r] = IF k = "chat" THEN "savingError" ELSE "rejected"
    BY <1>1, <1>5
  <2>2. at' = [at EXCEPT ![r] = at'[r]] /\ pc' = [pc EXCEPT ![r] = pc'[r]]
    BY <1>5, <2>1
  <2>3. at'[r] \in from..(Depth(l) + 1)
    BY <1>2, <2>1
  <2>. QED
    BY <1>3, <1>5, <2>1, <2>2, <2>3
<1>. QED
  BY <1>4, <1>5 DEF Resume

\* What keeps a closed circuit honest: it remembers, still, every recent
\* failure since the last success, and they are too few to open it.
Honest(c, past, t) ==
    /\ IsFiniteSet(c.failures)
    /\ c.state = "closed" => /\ ~ Trips(c.failures)
                              /\ Recent(past, t) \subseteq c.failures

\* More failures trip the breaker all the more.
LEMMA TripsMonotone ==
    ASSUME NEW S, IsFiniteSet(S), NEW T \in SUBSET S, Trips(T)
    PROVE  Trips(S)
<1>1. /\ Cardinality(T) \in Nat /\ Cardinality(S) \in Nat
      /\ Cardinality(T) <= Cardinality(S)
  BY FS_Subset, FS_CardinalityType
<1>. QED
  BY <1>1, BreakerAssumption DEF Trips

\* Pruning is harmless, success wipes the slate, and a failure is either
\* remembered or opens the circuit.
LEMMA BreakerHonest ==
    ASSUME NEW c \in Circuits, NEW t \in Nat, NEW past \in SUBSET FailureRecords,
           Honest(c, past, t)
    PROVE  /\ Honest(AfterCanPass(c, t), past, t)
           /\ Honest(AfterGetState(c, t), past, t)
           /\ Honest(AfterSuccess(c), {}, t)
           /\ \A f \in FailureRecords :
                 f.at = t => Honest(AfterFailure(c, f), past \union {f}, t)
<1>1. Honest(AfterCanPass(c, t), past, t)
  BY DEF Honest, AfterCanPass, Circuits, CircuitStates
<1>2. Honest(AfterGetState(c, t), past, t)
  <2>1. CASE c.state = "closed"
    <3>1. /\ AfterGetState(c, t).failures = Recent(c.failures, t)
          /\ AfterGetState(c, t).state = "closed"
      BY <2>1 DEF AfterGetState, Circuits
    <3>2. Recent(c.failures, t) \in SUBSET c.failures
      BY DEF Recent
    <3>3. IsFiniteSet(Recent(c.failures, t))
      BY <3>2, FS_Subset DEF Honest
    <3>4. ~ Trips(Recent(c.failures, t))
      BY <2>1, <3>2, TripsMonotone DEF Honest
    <3>5. Recent(past, t) \subseteq Recent(c.failures, t)
      BY <2>1 DEF Honest, Recent
    <3>. QED
      BY <3>1, <3>3, <3>4, <3>5 DEF Honest
  <2>2. CASE c.state # "closed"
    BY <2>2 DEF AfterGetState
  <2>. QED
    BY <2>1, <2>2
<1>3. Honest(AfterSuccess(c), {}, t)
  <2>1. AfterSuccess(c).failures = {}
    BY DEF AfterSuccess, Circuits
  <2>2. IsFiniteSet({}) /\ Cardinality({}) = 0
    BY FS_EmptySet
  <2>3. Recent({}, t) = {}
    BY DEF Recent
  <2>. QED
    BY <2>1, <2>2, <2>3, BreakerAssumption DEF Honest, Trips
<1>4. ASSUME NEW f \in FailureRecords, f.at = t
      PROVE  Honest(AfterFailure(c, f), past \union {f}, t)
  <2>1. CASE c.state = "half_open"
    BY <2>1 DEF AfterFailure, Honest, Circuits
  <2>2. CASE c.state # "half_open"
    <3> DEFINE kept == Recent(c.failures \union {f}, t)
    <3>1. kept \in SUBSET (c.failures \union {f})
      BY DEF Recent
    <3>2. IsFiniteSet(c.failures \union {f})
      BY FS_AddElement DEF Honest
    <3>3. IsFiniteSet(kept)
      BY <3>1, <3>2, FS_Subset
    <3>4. /\ AfterFailure(c, f).failures = kept
          /\ AfterFailure(c, f).state = "closed" => c.state = "closed" /\ ~ Trips(kept)
      BY <1>4, <2>2 DEF AfterFailure, Circuits, CircuitStates
    <3>5. c.state = "closed" => Recent(past \union {f}, t) \subseteq kept
      BY DEF Honest, Recent
    <3>. QED
      BY <3>3, <3>4, <3>5 DEF Honest
  <2>. QED
    BY <2>1, <2>2
<1>. QED
  BY <1>1, <1>2, <1>3, <1>4

\* As time passes fewer failures are recent.
LEMMA HonestLater ==
    ASSUME NEW c \in Circuits, NEW t \in Nat, NEW past \in SUBSET FailureRecords,
           Honest(c, past, t)
    PROVE  Honest(c, past, t + 1)
<1>1. Recent(past, t + 1) \subseteq Recent(past, t)
  BY BreakerAssumption DEF Recent, FailureRecords
<1>. QED
  BY <1>1 DEF Honest

-----------------------------------------------------------------------------
(* The inductive invariant *)

\* Where in its list a request is, by the await it is suspended at.
Position ==
    \A r \in Requests :
        /\ pc[r] = "idle" => at[r] = 0 /\ list[r] = <<>>
        /\ pc[r] # "idle" => at[r] \in 1..(Depth(list[r]) + 1)
        /\ pc[r] \in {"keyLookup", "calling", "savingUsage", "answered"} =>
              at[r] <= Depth(list[r])
        /\ pc[r] = "savingError" => at[r] = Depth(list[r]) + 1

\* Only a stream shows deltas, and none before its call has started.
Sources ==
    \A r \in Requests :
        /\ \A i \in shown[r] : at[r] = i
        /\ shown[r] # {} => kind[r] = "stream" /\ pc[r] \notin {"idle", "keyLookup"}

BreakerOK == \A p \in Providers : Honest(circuit[p], streak[p], now)

IInv == TypeOK /\ Position /\ Sources /\ AnswersAreAccounted /\ BreakerOK

\* canPass() and getState() preserve BreakerOK through the candidate loop.
LEMMA ResumeHonest ==
    ASSUME NEW circ \in [Providers -> Circuits],
           NEW past \in [Providers -> SUBSET FailureRecords],
           now \in Nat, NEW p \in Providers,
           Honest(circ[p], past[p], now),
           circuit'[p] \in {circ[p], AfterCanPass(circ[p], now),
                           AfterCanPass(AfterGetState(circ[p], now), now)}
    PROVE  Honest(circuit'[p], past[p], now)
<1>1. circ[p] \in Circuits /\ past[p] \in SUBSET FailureRecords
  OBVIOUS
<1>2. AfterGetState(circ[p], now) \in Circuits
  BY <1>1 DEF AfterGetState, Circuits, Recent
<1>3. Honest(AfterGetState(circ[p], now), past[p], now)
  BY <1>1, BreakerHonest
<1>4. Honest(AfterCanPass(AfterGetState(circ[p], now), now), past[p], now)
  BY <1>1, <1>2, <1>3, BreakerHonest
<1>5. Honest(AfterCanPass(circ[p], now), past[p], now)
  BY <1>1, BreakerHonest
<1>. QED
  BY <1>4, <1>5

\* What the catch block does with the request and with the circuits.
LEMMA FailFacts ==
    ASSUME IInv, NEW r \in Requests, pc[r] \in {"calling", "savingUsage"}, Fail(r)
    PROVE  /\ circuit' \in [Providers -> Circuits]
           /\ streak' \in [Providers -> SUBSET FailureRecords]
           /\ \A p \in Providers : Honest(circuit'[p], streak'[p], now)
           /\ pc' = [pc EXCEPT ![r] = pc'[r]]
           /\ at' = [at EXCEPT ![r] = at'[r]]
           /\ \/ /\ pc'[r] = "rejected" /\ at'[r] = at[r]
              \/ /\ shown[r] = {}
                 /\ at'[r] \in (at[r] + 1)..(Depth(list[r]) + 1)
                 /\ \/ /\ pc'[r] = "keyLookup" /\ at'[r] <= Depth(list[r])
                       /\ ~ Cooling(circuit[ProviderAt(list[r], at'[r])], now)
                       /\ circuit'[ProviderAt(list[r], at'[r])].state # "open"
                    \/ /\ pc'[r] = IF kind[r] = "chat" THEN "savingError" ELSE "rejected"
                       /\ at'[r] = Depth(list[r]) + 1
<1> DEFINE p == ProviderAt(list[r], at[r])
           f == Failure(r)
           circ == [circuit EXCEPT ![p] = AfterFailure(circuit[p], f)]
<1>1. /\ now \in Nat
      /\ circuit \in [Providers -> Circuits]
      /\ streak \in [Providers -> SUBSET FailureRecords]
      /\ pc \in [Requests -> Pcs]
      /\ at \in [Requests -> 0..(FallbackDepth + 1)]
      /\ kind[r] \in Kinds
      /\ list[r] \in CandidateLists \union {<<>>}
  BY DEF IInv, TypeOK
<1>2. /\ Depth(list[r]) \in Nat
      /\ \A i \in 1..Depth(list[r]) : ProviderAt(list[r], i) \in Providers
  BY <1>1, DepthType, RouterAssumption
<1>3. at[r] \in 1..Depth(list[r])
  BY <1>1, <1>2 DEF IInv, Position
<1>4. p \in Providers /\ f \in FailureRecords /\ f.at = now
  BY <1>1, <1>2, <1>3 DEF Failure, FailureRecords
<1>5. circ \in [Providers -> Circuits]
  BY <1>1, <1>4, BreakerTypes
<1>6. streak' = [streak EXCEPT ![p] = @ \union {f}]
  BY DEF Fail
<1>7. streak' \in [Providers -> SUBSET FailureRecords]
  BY <1>1, <1>4, <1>6
<1>8. ASSUME NEW q \in Providers PROVE Honest(circ[q], streak'[q], now)
  <2>1. Honest(circuit[q], streak[q], now)
    BY DEF IInv, BreakerOK
  <2>2. CASE q = p
    <3>1. /\ circ[q] = AfterFailure(circuit[q], f)
          /\ streak'[q] = streak[q] \union {f}
      BY <1>1, <1>6, <2>2
    <3>. QED
      BY <1>1, <1>4, <2>1, <3>1, BreakerHonest
  <2>3. CASE q # p
    <3>1. circ[q] = circuit[q] /\ streak'[q] = streak[q]
      BY <1>1, <1>6, <2>3
    <3>. QED
      BY <2>1, <3>1
  <2>. QED
    BY <2>2, <2>3
<1>9. CASE kind[r] = "stream" /\ at[r] \in shown[r]
  <2>1. /\ circuit' = circ
        /\ pc' = [pc EXCEPT ![r] = "rejected"]
        /\ at' = at
    BY <1>9 DEF Fail
  <2>2. /\ pc'[r] = "rejected" /\ at'[r] = at[r]
        /\ pc' = [pc EXCEPT ![r] = pc'[r]] /\ at' = [at EXCEPT ![r] = at'[r]]
    BY <1>1, <2>1
  <2>. QED
    BY <1>5, <1>7, <1>8, <2>1, <2>2
<1>10. CASE ~ (kind[r] = "stream" /\ at[r] \in shown[r])
  <2>1. shown[r] = {}
    BY <1>10 DEF IInv, Sources
  <2>2. Resume(r, circ, kind[r], list[r], at[r] + 1)
    BY <1>10 DEF Fail
  <2>3. at[r] + 1 \in Nat \ {0} /\ at[r] + 1 <= Depth(list[r]) + 1
    BY <1>2, <1>3
  <2> DEFINE from == at[r] + 1
             l == list[r]
             k == kind[r]
  <2>4. /\ circuit' \in [Providers -> Circuits]
        /\ \A q \in Providers :
              circuit'[q] \in {circ[q], AfterCanPass(circ[q], now),
                              AfterCanPass(AfterGetState(circ[q], now), now)}
        /\ pc' = [pc EXCEPT ![r] = pc'[r]]
        /\ at' = [at EXCEPT ![r] = at'[r]]
        /\ at'[r] \in from..(Depth(l) + 1)
        /\ \/ /\ pc'[r] = "keyLookup"
              /\ at'[r] <= Depth(l)
              /\ CanPass(circ[ProviderAt(l, at'[r])], now)
              /\ circuit'[ProviderAt(l, at'[r])].state # "open"
           \/ /\ pc'[r] = IF k = "chat" THEN "savingError" ELSE "rejected"
              /\ at'[r] = Depth(l) + 1
    <3> HIDE DEF circ
    <3> TypeOK
      BY DEF IInv
    <3>. QED
      BY <1>1, <1>5, <2>2, <2>3, ResumeFacts
  <2>5. \A q \in Providers : Honest(circuit'[q], streak'[q], now)
    <3> HIDE DEF circ
    <3>. QED
      BY <1>1, <1>5, <1>7, <1>8, <2>4, ResumeHonest
  <2>6. ASSUME pc'[r] = "keyLookup", at'[r] <= Depth(l)
        PROVE  ~ Cooling(circuit[ProviderAt(l, at'[r])], now)
    <3> DEFINE q == ProviderAt(l, at'[r])
    <3>1. q \in Providers
      BY <1>2, <1>3, <2>4, <2>6
    <3>2. CanPass(circ[q], now)
      BY <2>4, <2>6
    <3>3. CASE q # p
      BY <1>1, <3>1, <3>2, <3>3 DEF CanPass
    <3>4. CASE q = p
      <4>1. circ[q] = AfterFailure(circuit[q], f)
        BY <1>1, <3>1, <3>4
      <4>2. circuit[q] \in Circuits
        BY <1>1, <3>1
      <4>3. ~ (circ[q].state = "open" /\ now - circ[q].openedAt < OpenDuration)
        BY <3>2 DEF CanPass, Cooling
      <4>4. CASE circuit[q].state # "open"
        BY <4>4 DEF Cooling
      <4>5. CASE circuit[q].state = "open" /\ Trips(Recent(circuit[q].failures \union {f}, now))
        <5>1. circ[q].state = "open" /\ circ[q].openedAt = now
          BY <1>4, <4>1, <4>5 DEF AfterFailure
        <5>. QED
          BY <1>1, <4>3, <5>1, BreakerAssumption
      <4>6. CASE circuit[q].state = "open" /\ ~ Trips(Recent(circuit[q].failures \union {f}, now))
        <5>1. circ[q].state = "open" /\ circ[q].openedAt = circuit[q].openedAt
          BY <1>4, <4>1, <4>2, <4>6 DEF AfterFailure, Circuits
        <5>. QED
          BY <4>3, <5>1 DEF Cooling
      <4>. QED
        BY <4>4, <4>5, <4>6
    <3>. QED
      BY <3>3, <3>4
  <2>. QED
    BY <1>7, <2>1, <2>4, <2>5, <2>6
<1>. QED
  BY <1>9, <1>10

-----------------------------------------------------------------------------
(* Every action preserves the invariant *)

\* The router starts with nothing asked and every circuit closed.
LEMMA InitIInv == Init => IInv
<1> SUFFICES ASSUME Init PROVE IInv
  OBVIOUS
<1>1. TypeOK
  BY RouterAssumption DEF Init, TypeOK, NewCircuit, Circuits, CircuitStates, Pcs, Kinds
<1>2. Position
  BY DEF Init, Position
<1>3. Sources /\ AnswersAreAccounted
  BY DEF Init, Sources, AnswersAreAccounted
<1>4. BreakerOK
  <2>1. IsFiniteSet({}) /\ Cardinality({}) = 0
    BY FS_EmptySet
  <2>2. Recent({}, 0) = {}
    BY DEF Recent
  <2>3. ASSUME NEW p \in Providers
        PROVE  circuit[p] = NewCircuit /\ streak[p] = {} /\ now = 0
    BY DEF Init
  <2>4. ~ Trips({})
    BY <2>1, BreakerAssumption DEF Trips
  <2>. QED
    BY <2>1, <2>2, <2>3, <2>4 DEF BreakerOK, Honest, NewCircuit
<1>. QED
  BY <1>1, <1>2, <1>3, <1>4 DEF IInv

\* A request gets its list and goes to the first candidate that passes.
LEMMA RouteIInv ==
    ASSUME IInv, NEW r \in Requests, Route(r) PROVE IInv'
<1>1. PICK k \in Kinds, l \in CandidateLists :
         /\ kind' = [kind EXCEPT ![r] = k]
         /\ list' = [list EXCEPT ![r] = l]
         /\ IF l = <<>>
            THEN /\ pc' = [pc EXCEPT ![r] = "rejected"]
                 /\ at' = [at EXCEPT ![r] = 1]
                 /\ UNCHANGED circuit
            ELSE Resume(r, circuit, k, l, 1)
  BY DEF Route
<1>2. /\ pc[r] = "idle"
      /\ UNCHANGED <<now, shown, usage, streak>>
  BY DEF Route
<1>3. TypeOK
  BY DEF IInv
<1>4. Depth(l) \in 0..FallbackDepth /\ 1 \in Nat \ {0} /\ 1 <= Depth(l) + 1
  BY DepthType, RouterAssumption
<1>5. /\ circuit' \in [Providers -> Circuits]
      /\ \A p \in Providers :
            circuit'[p] \in {circuit[p], AfterCanPass(circuit[p], now),
                            AfterCanPass(AfterGetState(circuit[p], now), now)}
      /\ pc' = [pc EXCEPT ![r] = pc'[r]]
      /\ at' = [at EXCEPT ![r] = at'[r]]
      /\ at'[r] \in 1..(Depth(l) + 1)
      /\ \/ pc'[r] = "keyLookup" /\ at'[r] <= Depth(l)
         \/ pc'[r] = "savingError" /\ at'[r] = Depth(l) + 1
         \/ pc'[r] = "rejected"
  <2>1. circuit \in [Providers -> Circuits]
    BY <1>3 DEF TypeOK
  <2>2. CASE l = <<>>
    BY <1>1, <1>3, <1>4, <2>1, <2>2 DEF TypeOK
  <2>3. CASE l # <<>>
    BY <1>1, <1>3, <1>4, <2>1, <2>3, ResumeFacts
  <2>. QED
    BY <2>2, <2>3
<1>6. TypeOK'
  <2>1. pc'[r] \in Pcs /\ at'[r] \in 0..(FallbackDepth + 1)
    BY <1>4, <1>5, RouterAssumption DEF Pcs
  <2>. QED
    BY <1>1, <1>2, <1>3, <1>5, <2>1 DEF TypeOK
<1>7. Position'
  <2> SUFFICES ASSUME NEW q \in Requests PROVE Position!(q)'
    BY DEF Position
  <2>1. CASE q = r
    BY <1>1, <1>3, <1>4, <1>5, <2>1 DEF TypeOK
  <2>2. CASE q # r
    <3>1. pc'[q] = pc[q] /\ at'[q] = at[q] /\ list'[q] = list[q]
      BY <1>1, <1>3, <1>5, <2>2 DEF TypeOK
    <3>. QED
      BY <3>1 DEF IInv, Position
  <2>. QED
    BY <2>1, <2>2
<1>8. Sources'
  BY <1>1, <1>2, <1>3, <1>5 DEF IInv, Sources, TypeOK
<1>9. AnswersAreAccounted'
  <2>1. ASSUME NEW q \in Requests, pc'[q] = "answered" PROVE UsageRow(q)' \in usage'
    <3>1. q # r
      BY <1>5, <2>1
    <3>2. pc[q] = "answered" /\ at'[q] = at[q]
      BY <1>3, <1>5, <2>1, <3>1 DEF TypeOK
    <3>. QED
      BY <1>2, <3>2 DEF IInv, AnswersAreAccounted, UsageRow
  <2>2. ASSUME NEW u \in usage', u.status = "success" PROVE u.pos \in 1..at'[u.req]
    <3>1. u \in usage /\ u.req \in Requests /\ u.pos \in 1..at[u.req]
      BY <1>2, <1>3, <2>2 DEF IInv, AnswersAreAccounted, TypeOK
    <3>2. u.req # r
      BY <1>2, <3>1 DEF IInv, Position
    <3>. QED
      BY <1>3, <1>5, <3>1, <3>2 DEF TypeOK
  <2>. QED
    BY <2>1, <2>2 DEF AnswersAreAccounted
<1>10. BreakerOK'
  <2> SUFFICES ASSUME NEW p \in Providers PROVE Honest(circuit'[p], streak[p], now)
    BY <1>2 DEF BreakerOK
  <2>1. Honest(circuit[p], streak[p], now)
    BY DEF IInv, BreakerOK
  <2>. QED
    BY <1>3, <1>5, <2>1, ResumeHonest DEF TypeOK
<1>. QED
  BY <1>6, <1>7, <1>8, <1>9, <1>10 DEF IInv

\* A key is found, and the call begins.
LEMMA KeyFoundIInv ==
    ASSUME IInv, NEW r \in Requests, KeyFound(r) PROVE IInv'
<1>1. TypeOK'
  BY DEF IInv, TypeOK, KeyFound, Pcs
<1>2. Position'
  BY DEF IInv, TypeOK, Position, KeyFound
<1>3. Sources'
  BY DEF IInv, TypeOK, Sources, KeyFound
<1>4. AnswersAreAccounted'
  BY DEF IInv, TypeOK, AnswersAreAccounted, UsageRow, KeyFound
<1>5. BreakerOK'
  BY DEF IInv, BreakerOK, KeyFound
<1>. QED
  BY <1>1, <1>2, <1>3, <1>4, <1>5 DEF IInv

\* The lookup of a key throws into the catch block.
LEMMA KeyLookupThrowsIInv ==
    ASSUME IInv, NEW r \in Requests, KeyLookupThrows(r) PROVE IInv'
<1>1. TypeOK'
  BY DEF IInv, TypeOK, KeyLookupThrows, Pcs
<1>2. Position'
  BY DEF IInv, TypeOK, Position, KeyLookupThrows
<1>3. Sources'
  BY DEF IInv, TypeOK, Sources, KeyLookupThrows
<1>4. AnswersAreAccounted'
  BY DEF IInv, TypeOK, AnswersAreAccounted, UsageRow, KeyLookupThrows
<1>5. BreakerOK'
  BY DEF IInv, BreakerOK, KeyLookupThrows
<1>. QED
  BY <1>1, <1>2, <1>3, <1>4, <1>5 DEF IInv

\* A delta is shown while the call goes on.
LEMMA DeltaIInv ==
    ASSUME IInv, NEW r \in Requests, Delta(r) PROVE IInv'
<1>1. TypeOK'
  <2>1. at[r] \in Nat
    BY RouterAssumption DEF IInv, TypeOK
  <2>. QED
    BY <2>1 DEF IInv, TypeOK, Delta
<1>2. Position'
  BY DEF IInv, Position, Delta
<1>3. Sources'
  BY DEF IInv, TypeOK, Sources, Delta
<1>4. AnswersAreAccounted'
  BY DEF IInv, AnswersAreAccounted, UsageRow, Delta
<1>5. BreakerOK'
  BY DEF IInv, BreakerOK, Delta
<1>. QED
  BY <1>1, <1>2, <1>3, <1>4, <1>5 DEF IInv

\* A call succeeds, which the breaker records.
LEMMA CallSucceedsIInv ==
    ASSUME IInv, NEW r \in Requests, CallSucceeds(r) PROVE IInv'
<1> DEFINE p == ProviderAt(list[r], at[r])
<1>1. p \in Providers
  <2>1. list[r] \in CandidateLists \union {<<>>} /\ at[r] \in 0..(FallbackDepth + 1)
    BY DEF IInv, TypeOK
  <2>2. Depth(list[r]) \in Nat /\ at[r] \in 1..Depth(list[r])
    BY <2>1, DepthType, RouterAssumption DEF IInv, Position, CallSucceeds
  <2>. QED
    BY <2>1, <2>2, DepthType
<1>2. AfterSuccess(circuit[p]) \in Circuits
  BY <1>1 DEF IInv, TypeOK, AfterSuccess, Circuits, CircuitStates
<1>3. TypeOK'
  BY <1>1, <1>2 DEF IInv, TypeOK, CallSucceeds, Pcs
<1>4. Position'
  BY DEF IInv, TypeOK, Position, CallSucceeds
<1>5. Sources'
  BY DEF IInv, TypeOK, Sources, CallSucceeds
<1>6. AnswersAreAccounted'
  BY DEF IInv, TypeOK, AnswersAreAccounted, UsageRow, CallSucceeds
<1>7. BreakerOK'
  <2> SUFFICES ASSUME NEW q \in Providers PROVE Honest(circuit'[q], streak'[q], now)
    BY DEF BreakerOK, CallSucceeds
  <2>1. Honest(circuit[q], streak[q], now) /\ circuit[q] \in Circuits
        /\ streak[q] \in SUBSET FailureRecords /\ now \in Nat
    BY DEF IInv, BreakerOK, TypeOK
  <2>2. CASE q = p
    <3>1. circuit'[q] = AfterSuccess(circuit[q]) /\ streak'[q] = {}
      BY <2>2 DEF IInv, TypeOK, CallSucceeds
    <3>. QED
      BY <2>1, <3>1, BreakerHonest
  <2>3. CASE q # p
    BY <2>1, <2>3 DEF IInv, TypeOK, CallSucceeds
  <2>. QED
    BY <2>2, <2>3
<1>. QED
  BY <1>3, <1>4, <1>5, <1>6, <1>7 DEF IInv

\* The row of the answer is written.
LEMMA UsageSavedIInv ==
    ASSUME IInv, NEW r \in Requests, UsageSaved(r) PROVE IInv'
<1>1. at[r] \in 1..Depth(list[r]) /\ at[r] \in Nat
  <2>1. list[r] \in CandidateLists \union {<<>>} /\ at[r] \in 0..(FallbackDepth + 1)
    BY DEF IInv, TypeOK
  <2>. QED
    BY <2>1, DepthType, RouterAssumption DEF IInv, Position, UsageSaved
<1>2. TypeOK'
  BY <1>1 DEF IInv, TypeOK, UsageSaved, UsageRow, Pcs
<1>3. Position'
  BY DEF IInv, TypeOK, Position, UsageSaved
<1>4. Sources'
  BY DEF IInv, TypeOK, Sources, UsageSaved
<1>5. AnswersAreAccounted'
  BY <1>1 DEF IInv, TypeOK, AnswersAreAccounted, UsageRow, UsageSaved
<1>6. BreakerOK'
  BY DEF IInv, BreakerOK, UsageSaved
<1>. QED
  BY <1>2, <1>3, <1>4, <1>5, <1>6 DEF IInv

\* The row of the last error is written.
LEMMA ErrorSavedIInv ==
    ASSUME IInv, NEW r \in Requests, ErrorSaved(r) PROVE IInv'
<1>1. PICK rows \in {{}, {ErrorRow(r)}} : usage' = usage \union rows
  BY DEF ErrorSaved
<1>2. TypeOK'
  BY <1>1 DEF IInv, TypeOK, ErrorSaved, ErrorRow, Pcs
<1>3. Position'
  BY DEF IInv, TypeOK, Position, ErrorSaved
<1>4. Sources'
  BY DEF IInv, TypeOK, Sources, ErrorSaved
<1>5. AnswersAreAccounted'
  BY <1>1 DEF IInv, TypeOK, AnswersAreAccounted, UsageRow, ErrorRow, ErrorSaved
<1>6. BreakerOK'
  BY DEF IInv, BreakerOK, ErrorSaved
<1>. QED
  BY <1>2, <1>3, <1>4, <1>5, <1>6 DEF IInv

\* Time passes.
LEMMA TickIInv ==
    ASSUME IInv, Tick PROVE IInv'
<1>1. TypeOK'
  BY DEF IInv, TypeOK, Tick
<1>2. Position' /\ Sources' /\ AnswersAreAccounted'
  BY DEF IInv, Position, Sources, AnswersAreAccounted, UsageRow, Tick
<1>3. BreakerOK'
  <2> SUFFICES ASSUME NEW p \in Providers PROVE Honest(circuit[p], streak[p], now + 1)
    BY DEF BreakerOK, Tick
  <2>. QED
    BY HonestLater DEF IInv, TypeOK, BreakerOK
<1>. QED
  BY <1>1, <1>2, <1>3 DEF IInv

\* Common to a missing key and to a failed attempt: the request moves on.
LEMMA MoveOnIInv ==
    ASSUME IInv, NEW r \in Requests,
           pc[r] \in {"keyLookup", "calling", "savingUsage"},
           UNCHANGED <<now, kind, list, shown>>,
           circuit' \in [Providers -> Circuits],
           streak' \in [Providers -> SUBSET FailureRecords],
           \A p \in Providers : Honest(circuit'[p], streak'[p], now),
           pc' = [pc EXCEPT ![r] = pc'[r]],
           at' = [at EXCEPT ![r] = at'[r]],
           \/ pc'[r] = "rejected" /\ at'[r] = at[r]
           \/ /\ shown[r] = {}
              /\ at'[r] \in (at[r] + 1)..(Depth(list[r]) + 1)
              /\ \/ pc'[r] = "keyLookup" /\ at'[r] <= Depth(list[r])
                 \/ /\ pc'[r] = IF kind[r] = "chat" THEN "savingError" ELSE "rejected"
                    /\ at'[r] = Depth(list[r]) + 1,
           usage' \in {usage, usage \union {UsageRow(r)}}
    PROVE  IInv'
<1>1. /\ pc \in [Requests -> Pcs] /\ at \in [Requests -> 0..(FallbackDepth + 1)]
      /\ list[r] \in CandidateLists \union {<<>>}
  BY DEF IInv, TypeOK
<1>2. Depth(list[r]) \in 0..FallbackDepth /\ at[r] \in 1..Depth(list[r])
  BY <1>1, DepthType, RouterAssumption DEF IInv, Position
<1>3. pc'[r] \in Pcs /\ at'[r] \in 1..(FallbackDepth + 1) /\ at'[r] >= at[r]
      /\ at'[r] \in 1..(Depth(list[r]) + 1)
  BY <1>2, RouterAssumption DEF Pcs
<1>4. TypeOK'
  <2>1. UsageRow(r) \in [req : Requests, pos : Nat, status : {"success", "error"}]
    BY <1>2, RouterAssumption DEF UsageRow
  <2>2. usage' \subseteq [req : Requests, pos : Nat, status : {"success", "error"}]
    BY <2>1 DEF IInv, TypeOK
  <2>3. \A v \in Pcs : [pc EXCEPT ![r] = v] \in [Requests -> Pcs]
    BY <1>1
  <2>4. pc' \in [Requests -> Pcs]
    BY <1>3, <2>3
  <2>5. at' \in [Requests -> 0..(FallbackDepth + 1)]
    BY <1>1, <1>3, RouterAssumption
  <2>. QED
    BY <2>2, <2>4, <2>5 DEF IInv, TypeOK
<1>5. Position'
  <2> SUFFICES ASSUME NEW q \in Requests PROVE Position!(q)'
    BY DEF Position
  <2>1. CASE q = r
    BY <1>1, <1>2, <1>3, <2>1
  <2>2. CASE q # r
    BY <1>1, <2>2 DEF IInv, Position
  <2>. QED
    BY <2>1, <2>2
<1>6. Sources'
  <2> SUFFICES ASSUME NEW q \in Requests PROVE Sources!(q)'
    BY DEF Sources
  <2>1. CASE q = r
    BY <1>1, <2>1 DEF IInv, Sources
  <2>2. CASE q # r
    BY <1>1, <2>2 DEF IInv, Sources
  <2>. QED
    BY <2>1, <2>2
<1>7. AnswersAreAccounted'
  <2>1. ASSUME NEW q \in Requests, pc'[q] = "answered" PROVE UsageRow(q)' \in usage'
    BY <1>1, <2>1 DEF IInv, AnswersAreAccounted, UsageRow
  <2>2. ASSUME NEW u \in usage', u.status = "success" PROVE u.pos \in 1..at'[u.req]
    <3>1. CASE u \in usage
      <4>1. u.req \in Requests /\ u.pos \in 1..at[u.req]
        BY <2>2, <3>1 DEF IInv, AnswersAreAccounted, TypeOK
      <4>2. at'[u.req] >= at[u.req] /\ at'[u.req] \in Int /\ at[u.req] \in Int
        BY <1>1, <1>2, <1>3, <4>1, RouterAssumption
      <4>. QED
        BY <4>1, <4>2
    <3>2. CASE u = UsageRow(r)
      BY <1>1, <1>2, <1>3, <3>2 DEF UsageRow
    <3>. QED
      BY <2>2, <3>1, <3>2
  <2>. QED
    BY <2>1, <2>2 DEF AnswersAreAccounted
<1>8. BreakerOK'
  BY DEF BreakerOK
<1>. QED
  BY <1>4, <1>5, <1>6, <1>7, <1>8 DEF IInv

\* A candidate without a key is passed over.
LEMMA KeyMissingIInv ==
    ASSUME IInv, NEW r \in Requests, KeyMissing(r) PROVE IInv'
<1>1. /\ pc[r] = "keyLookup"
      /\ Resume(r, circuit, kind[r], list[r], at[r] + 1)
      /\ UNCHANGED <<now, kind, list, shown, usage, streak>>
  BY DEF KeyMissing
<1>2. /\ TypeOK
      /\ now \in Nat
      /\ circuit \in [Providers -> Circuits]
      /\ streak \in [Providers -> SUBSET FailureRecords]
      /\ kind[r] \in Kinds /\ list[r] \in CandidateLists \union {<<>>}
  BY DEF IInv, TypeOK
<1>3. Depth(list[r]) \in 0..FallbackDepth /\ at[r] \in 1..Depth(list[r])
  BY <1>1, <1>2, DepthType, RouterAssumption DEF IInv, Position
<1>4. at[r] + 1 \in Nat \ {0} /\ at[r] + 1 <= Depth(list[r]) + 1
  BY <1>3, RouterAssumption
<1>5. /\ circuit' \in [Providers -> Circuits]
      /\ \A p \in Providers :
            circuit'[p] \in {circuit[p], AfterCanPass(circuit[p], now),
                            AfterCanPass(AfterGetState(circuit[p], now), now)}
      /\ pc' = [pc EXCEPT ![r] = pc'[r]]
      /\ at' = [at EXCEPT ![r] = at'[r]]
      /\ at'[r] \in (at[r] + 1)..(Depth(list[r]) + 1)
      /\ \/ /\ pc'[r] = "keyLookup"
            /\ at'[r] <= Depth(list[r])
         \/ /\ pc'[r] = IF kind[r] = "chat" THEN "savingError" ELSE "rejected"
            /\ at'[r] = Depth(list[r]) + 1
  <2> DEFINE from == at[r] + 1
  <2>1. from \in Nat \ {0} /\ from <= Depth(list[r]) + 1
    BY <1>4
  <2>2. Resume(r, circuit, kind[r], list[r], from)
    BY <1>1
  <2> HIDE DEF from
  <2>3. /\ circuit' \in [Providers -> Circuits]
        /\ \A p \in Providers :
              circuit'[p] \in {circuit[p], AfterCanPass(circuit[p], now),
                              AfterCanPass(AfterGetState(circuit[p], now), now)}
        /\ pc' = [pc EXCEPT ![r] = pc'[r]]
        /\ at' = [at EXCEPT ![r] = at'[r]]
        /\ at'[r] \in from..(Depth(list[r]) + 1)
        /\ \/ /\ pc'[r] = "keyLookup"
              /\ at'[r] <= Depth(list[r])
           \/ /\ pc'[r] = IF kind[r] = "chat" THEN "savingError" ELSE "rejected"
              /\ at'[r] = Depth(list[r]) + 1
    BY <1>2, <2>1, <2>2, ResumeFacts
  <2>. QED
    BY <2>3 DEF from
<1>6. streak' \in [Providers -> SUBSET FailureRecords]
  BY <1>1, <1>2
<1>7. \A p \in Providers : Honest(circuit'[p], streak'[p], now)
  BY <1>1, <1>2, <1>5, ResumeHonest DEF IInv, BreakerOK
<1>8. shown[r] = {}
  BY <1>1 DEF IInv, Sources
<1>. QED
  BY <1>1, <1>5, <1>6, <1>7, <1>8, MoveOnIInv

\* A call fails: the catch block falls back or gives up.
LEMMA CallFailsIInv ==
    ASSUME IInv, NEW r \in Requests, CallFails(r) PROVE IInv'
<1>1. Fail(r) /\ pc[r] = "calling" /\ UNCHANGED usage
  BY DEF CallFails
<1>2. UNCHANGED <<now, kind, list, shown>>
  BY <1>1 DEF Fail
<1>. QED
  BY <1>1, <1>2, FailFacts, MoveOnIInv

\* The insert of the usage row fails inside the same catch block.
LEMMA UsageSaveFailsIInv ==
    ASSUME IInv, NEW r \in Requests, UsageSaveFails(r) PROVE IInv'
<1>1. Fail(r) /\ pc[r] = "savingUsage"
  BY DEF UsageSaveFails
<1>2. usage' \in {usage, usage \union {UsageRow(r)}}
  BY DEF UsageSaveFails
<1>3. UNCHANGED <<now, kind, list, shown>>
  BY <1>1 DEF Fail
<1>. QED
  BY <1>1, <1>2, <1>3, FailFacts, MoveOnIInv

\* Every step keeps the invariant,
LEMMA NextIInv == IInv /\ [Next]_vars => IInv'
<1> SUFFICES ASSUME IInv, [Next]_vars PROVE IInv'
  OBVIOUS
<1>1. CASE Tick
  BY <1>1, TickIInv
<1>2. ASSUME NEW r \in Requests, Route(r) \/ Delta(r) \/ Progress(r) PROVE IInv'
  BY <1>2, RouteIInv, DeltaIInv, KeyFoundIInv, KeyMissingIInv, KeyLookupThrowsIInv,
     CallSucceedsIInv, CallFailsIInv, UsageSavedIInv, UsageSaveFailsIInv, ErrorSavedIInv
     DEF Progress
<1>3. CASE UNCHANGED vars
  <2>1. TypeOK'
    BY <1>3 DEF IInv, TypeOK, vars
  <2>2. Position' /\ Sources' /\ AnswersAreAccounted' /\ BreakerOK'
    BY <1>3 DEF IInv, Position, Sources, AnswersAreAccounted, UsageRow, BreakerOK, vars
  <2>. QED
    BY <2>1, <2>2 DEF IInv
<1>. QED
  BY <1>1, <1>2, <1>3 DEF Next

\* so that it holds for ever.
LEMMA Invariance == Spec => []IInv
BY InitIInv, NextIInv, PTL DEF Spec

-----------------------------------------------------------------------------
(* The theorems *)

\* Every state of the router is well-typed and no request ever uses more
\* candidates than the fallback depth (list.slice(0, 5)).
THEOREM TypeCorrect == Spec => []TypeOK
<1>1. IInv => TypeOK
  BY DEF IInv
<1>. QED
  BY <1>1, Invariance, PTL

\* FAILURE_THRESHOLD failures of a provider within FAILURE_WINDOW_MS, with no
\* success in between, leave its circuit not closed.
THEOREM FloodOpens == Spec => []FloodOpensCircuit
<1>1. IInv => FloodOpensCircuit
  <2> SUFFICES ASSUME IInv, NEW p \in Providers, circuit[p].state = "closed"
               PROVE  ~ Flooded(Recent(streak[p], now))
    BY DEF FloodOpensCircuit
  <2>1. Honest(circuit[p], streak[p], now)
    BY DEF IInv, BreakerOK
  <2>2. Recent(streak[p], now) \in SUBSET circuit[p].failures /\ IsFiniteSet(circuit[p].failures)
    BY <2>1 DEF Honest
  <2>3. ~ Trips(Recent(streak[p], now))
    BY <2>1, <2>2, TripsMonotone DEF Honest
  <2>. QED
    BY <2>3 DEF Trips, Flooded
<1>. QED
  BY <1>1, Invariance, PTL

\* The text a streaming caller sees comes from one model.
THEOREM OneSource == Spec => []OneVisibleSource
<1>1. IInv => OneVisibleSource
  BY DEF IInv, Sources, OneVisibleSource
<1>. QED
  BY <1>1, Invariance, PTL

\* No answer without its row in the usage ledger.
THEOREM Accounted == Spec => []AnswersAreAccounted
<1>1. IInv => AnswersAreAccounted
  BY DEF IInv
<1>. QED
  BY <1>1, Invariance, PTL

\* How a request gets to another key query: by Route, by a missing key, or
\* from the catch block.
LEMMA NewAdmission ==
    ASSUME IInv, Next, NEW q \in Requests,
           pc'[q] = "keyLookup", at'[q] # at[q]
    PROVE  LET p == ProviderAt(list'[q], at'[q])
           IN  ~ Cooling(circuit[p], now) /\ circuit'[p].state # "open"
<1>1. /\ TypeOK
      /\ circuit \in [Providers -> Circuits]
      /\ at \in [Requests -> 0..(FallbackDepth + 1)]
      /\ kind[q] \in Kinds /\ list[q] \in CandidateLists \union {<<>>}
  BY DEF IInv, TypeOK
<1>2. PICK r \in Requests : Route(r) \/ KeyMissing(r) \/ CallFails(r) \/ UsageSaveFails(r)
  BY DEF Next, Progress, Tick, Delta, KeyFound, KeyLookupThrows, CallSucceeds,
         UsageSaved, ErrorSaved
<1>3. CASE Route(r)
  <2>1. PICK k \in Kinds, l \in CandidateLists :
           /\ list' = [list EXCEPT ![r] = l]
           /\ IF l = <<>>
              THEN /\ pc' = [pc EXCEPT ![r] = "rejected"]
                   /\ at' = [at EXCEPT ![r] = 1]
              ELSE Resume(r, circuit, k, l, 1)
    BY <1>3 DEF Route
  <2>2. 1 \in Nat \ {0} /\ 1 <= Depth(l) + 1
    BY DepthType, RouterAssumption
  <2>3. q = r
    <3>1. CASE l = <<>>
      BY <1>1, <2>1, <3>1
    <3>2. CASE l # <<>>
      BY <1>1, <2>1, <2>2, <3>2, ResumeFacts
    <3>. QED
      BY <3>1, <3>2
  <2>4. l # <<>>
    BY <2>1, <2>3 DEF IInv, TypeOK
  <2>5. list'[q] = l
    BY <2>1, <2>3 DEF IInv, TypeOK
  <2>6. /\ CanPass(circuit[ProviderAt(l, at'[q])], now)
        /\ circuit'[ProviderAt(l, at'[q])].state # "open"
    <3>1. Resume(q, circuit, k, l, 1)
      BY <2>1, <2>3, <2>4
    <3>2. \/ /\ pc'[q] = "keyLookup"
             /\ CanPass(circuit[ProviderAt(l, at'[q])], now)
             /\ circuit'[ProviderAt(l, at'[q])].state # "open"
          \/ pc'[q] = IF k = "chat" THEN "savingError" ELSE "rejected"
      BY <1>1, <2>2, <3>1, ResumeFacts
    <3>. QED
      BY <3>2
  <2>. QED
    BY <2>5, <2>6 DEF CanPass
<1>4. CASE KeyMissing(r)
  <2> DEFINE from == at[r] + 1
  <2>1. /\ pc[r] = "keyLookup" /\ list' = list
        /\ Resume(r, circuit, kind[r], list[r], from)
    BY <1>4 DEF KeyMissing
  <2>2. kind[r] \in Kinds /\ list[r] \in CandidateLists \union {<<>>}
    BY DEF IInv, TypeOK
  <2>3. Depth(list[r]) \in 0..FallbackDepth /\ at[r] \in 1..Depth(list[r])
    BY <1>1, <2>1, <2>2, DepthType, RouterAssumption DEF IInv, Position
  <2>4. from \in Nat \ {0} /\ from <= Depth(list[r]) + 1
    BY <2>3, RouterAssumption
  <2> HIDE DEF from
  <2>5. /\ at' = [at EXCEPT ![r] = at'[r]]
        /\ \/ /\ pc'[r] = "keyLookup"
              /\ CanPass(circuit[ProviderAt(list[r], at'[r])], now)
              /\ circuit'[ProviderAt(list[r], at'[r])].state # "open"
           \/ pc'[r] = IF kind[r] = "chat" THEN "savingError" ELSE "rejected"
    BY <1>1, <2>1, <2>2, <2>4, ResumeFacts
  <2>6. q = r
    BY <1>1, <2>5
  <2>. QED
    BY <2>1, <2>5, <2>6 DEF CanPass
<1>5. CASE CallFails(r) \/ UsageSaveFails(r)
  <2>1. Fail(r) /\ pc[r] \in {"calling", "savingUsage"}
    BY <1>5 DEF CallFails, UsageSaveFails
  <2>2. list' = list
    BY <2>1 DEF Fail
  <2>3. /\ at' = [at EXCEPT ![r] = at'[r]]
        /\ \/ at'[r] = at[r]
           \/ /\ ~ Cooling(circuit[ProviderAt(list[r], at'[r])], now)
              /\ circuit'[ProviderAt(list[r], at'[r])].state # "open"
           \/ pc'[r] \in {"savingError", "rejected"}
    BY <2>1, FailFacts
  <2>4. q = r
    BY <1>1, <2>3
  <2>. QED
    BY <2>2, <2>3, <2>4
<1>. QED
  BY <1>2, <1>3, <1>4, <1>5

\* No request is admitted to a provider whose circuit is cooling, or whose
\* circuit the request's own failure has just opened (canPass() comes after
\* recordFailure() in the loop).
THEOREM AdmissionSafe == Spec => AdmissionRespectsCoolOff
<1>1. IInv /\ [Next]_vars =>
        [\A r \in Requests :
            pc'[r] = "keyLookup" /\ at'[r] # at[r] =>
                LET p == ProviderAt(list'[r], at'[r])
                IN  ~ Cooling(circuit[p], now) /\ circuit'[p].state # "open"]_vars
  BY NewAdmission
<1>. QED
  BY <1>1, Invariance, PTL DEF Spec, AdmissionRespectsCoolOff

-----------------------------------------------------------------------------
(* The router implements the gateway *)

\* The abstract state, named.
Phase == [r \in Requests |-> GatewayPhase(r)]
Steps == [r \in Requests |-> Depth(list[r])]
Passed == [r \in Requests |-> IF at[r] = 0 THEN 0 ELSE at[r] - 1]
Source == [r \in Requests |-> IF pc[r] = "answered" THEN at[r] ELSE 0]

\* The router starts as the gateway does.
LEMMA InitGateway == Init => Gateway!Init
<1> SUFFICES ASSUME Init PROVE Gateway!Init
  OBVIOUS
<1>1. Depth(<<>>) = 0
  <2>1. Len(<<>>) = 0
    OBVIOUS
  <2>. QED
    BY <2>1, RouterAssumption DEF Depth
<1>. QED
  BY <1>1 DEF Init, Gateway!Init, GatewayPhase

\* A step of one request from an await to another: what the caller can tell
\* apart is the phase, the candidates passed over and the answer's source.
LEMMA WalkGateway ==
    ASSUME IInv, NEW r \in Requests,
           pc[r] \in {"keyLookup", "calling", "savingUsage"},
           UNCHANGED list,
           pc' = [pc EXCEPT ![r] = pc'[r]],
           at' = [at EXCEPT ![r] = at'[r]],
           \/ pc'[r] = "rejected" /\ at'[r] = at[r]
           \/ /\ at'[r] \in (at[r] + 1)..(Depth(list[r]) + 1)
              /\ \/ pc'[r] = "keyLookup"
                 \/ /\ pc'[r] \in {"savingError", "rejected"}
                    /\ at'[r] = Depth(list[r]) + 1
    PROVE  Gateway!PassOver(r) \/ Gateway!Reject(r)
<1>1. /\ pc \in [Requests -> Pcs] /\ at \in [Requests -> 0..(FallbackDepth + 1)]
      /\ list[r] \in CandidateLists \union {<<>>}
  BY DEF IInv, TypeOK
<1>2. Depth(list[r]) \in 0..FallbackDepth /\ at[r] \in 1..Depth(list[r])
  BY <1>1, DepthType, RouterAssumption DEF IInv, Position
<1>3. Phase[r] = "trying" /\ Passed[r] = at[r] - 1 /\ Steps[r] = Depth(list[r])
  BY <1>2 DEF Phase, GatewayPhase, Passed, Steps
<1>4. Steps' = Steps
  BY DEF Steps
<1>5. pc'[r] # "answered"
  BY <1>1
<1>6. Source' = Source
  BY <1>1, <1>5 DEF Source
<1>7. Phase' = [Phase EXCEPT ![r] = GatewayPhase(r)']
  BY <1>1 DEF Phase, GatewayPhase
<1>8. CASE pc'[r] = "rejected" /\ at'[r] = at[r]
  <2>1. Passed' = Passed
    BY <1>1, <1>8 DEF Passed
  <2>2. GatewayPhase(r)' = "rejected"
    BY <1>8 DEF GatewayPhase
  <2>. QED
    BY <1>3, <1>4, <1>6, <1>7, <2>1, <2>2 DEF Gateway!Reject, Phase, Steps, Passed, Source
<1>9. CASE /\ at'[r] \in (at[r] + 1)..(Depth(list[r]) + 1)
           /\ \/ pc'[r] = "keyLookup"
              \/ /\ pc'[r] \in {"savingError", "rejected"}
                 /\ at'[r] = Depth(list[r]) + 1
  <2> DEFINE k == at'[r] - 1
  <2>1. k \in (Passed[r] + 1)..Steps[r]
    BY <1>2, <1>3, <1>9, RouterAssumption
  <2>2. Passed' = [Passed EXCEPT ![r] = k]
    <3>1. at'[r] # 0
      BY <1>2, <1>9, RouterAssumption
    <3>2. ASSUME NEW q \in Requests, q # r PROVE at'[q] = at[q]
      BY <1>1, <3>2
    <3>. QED
      BY <1>1, <3>1, <3>2 DEF Passed
  <2>3. \/ Phase' = Phase
        \/ k = Steps[r] /\ Phase' = [Phase EXCEPT ![r] = "rejected"]
    <3>1. CASE pc'[r] \in {"keyLookup", "savingError"}
      <4>1. GatewayPhase(r)' = Phase[r]
        BY <1>3, <3>1 DEF GatewayPhase
      <4>. QED
        BY <1>7, <4>1 DEF Phase
    <3>2. CASE pc'[r] = "rejected" /\ at'[r] = Depth(list[r]) + 1
      <4>1. GatewayPhase(r)' = "rejected"
        BY <3>2 DEF GatewayPhase
      <4>2. k = Steps[r]
        BY <1>2, <1>3, <3>2, RouterAssumption
      <4>. QED
        BY <1>7, <4>1, <4>2
    <3>. QED
      BY <1>9, <3>1, <3>2
  <2> HIDE DEF k
  <2>. QED
    BY <1>3, <1>4, <1>6, <2>1, <2>2, <2>3
       DEF Gateway!PassOver, Phase, Steps, Passed, Source
<1>. QED
  BY <1>8, <1>9

\* To accept a request is to accept it, with none of its candidates tried.
LEMMA RouteGateway ==
    ASSUME IInv, NEW r \in Requests, Route(r) PROVE Gateway!Submit(r)
<1>1. PICK k \in Kinds, l \in CandidateLists :
         /\ list' = [list EXCEPT ![r] = l]
         /\ IF l = <<>>
            THEN /\ pc' = [pc EXCEPT ![r] = "rejected"]
                 /\ at' = [at EXCEPT ![r] = 1]
            ELSE Resume(r, circuit, k, l, 1)
  BY DEF Route
<1>2. /\ TypeOK
      /\ pc[r] = "idle"
      /\ circuit \in [Providers -> Circuits]
      /\ pc \in [Requests -> Pcs] /\ at \in [Requests -> 0..(FallbackDepth + 1)]
      /\ list \in [Requests -> CandidateLists \union {<<>>}]
  BY DEF IInv, TypeOK, Route
<1>3. Depth(l) \in 0..FallbackDepth /\ 1 \in Nat \ {0} /\ 1 <= Depth(l) + 1
      /\ Depth(<<>>) = 0
  <2>1. Len(<<>>) = 0
    OBVIOUS
  <2>. QED
    BY <2>1, DepthType, RouterAssumption DEF Depth
<1>4. /\ pc' = [pc EXCEPT ![r] = pc'[r]]
      /\ at' = [at EXCEPT ![r] = at'[r]]
      /\ at'[r] \in 1..(Depth(l) + 1)
      /\ \/ pc'[r] \in {"keyLookup", "savingError"}
         \/ pc'[r] = "rejected" /\ at'[r] = Depth(l) + 1
  <2>1. CASE l = <<>>
    BY <1>1, <1>2, <1>3, <2>1
  <2>2. CASE l # <<>>
    <3>1. Resume(r, circuit, k, l, 1)
      BY <1>1, <2>2
    <3>2. /\ pc' = [pc EXCEPT ![r] = pc'[r]]
          /\ at' = [at EXCEPT ![r] = at'[r]]
          /\ at'[r] \in 1..(Depth(l) + 1)
          /\ \/ pc'[r] = "keyLookup"
             \/ /\ pc'[r] = IF k = "chat" THEN "savingError" ELSE "rejected"
                /\ at'[r] = Depth(l) + 1
      BY <1>2, <1>3, <3>1, ResumeFacts
    <3>. QED
      BY <3>2
  <2>. QED
    BY <2>1, <2>2
<1> DEFINE d == Depth(l)
           j == at'[r] - 1
<1>5. d \in 0..FallbackDepth /\ j \in 0..FallbackDepth /\ j <= d
  BY <1>3, <1>4, RouterAssumption
<1>6. Phase[r] = "idle"
  BY <1>2 DEF Phase, GatewayPhase
<1>7. Steps' = [Steps EXCEPT ![r] = d]
  BY <1>1, <1>2 DEF Steps
<1>8. Passed' = [Passed EXCEPT ![r] = j]
  <2>1. at'[r] # 0
    BY <1>3, <1>4, RouterAssumption
  <2>2. ASSUME NEW q \in Requests, q # r PROVE at'[q] = at[q]
    BY <1>2, <1>4, <2>2
  <2>. QED
    BY <1>2, <2>1, <2>2 DEF Passed
<1>9. Source' = Source
  BY <1>2, <1>4 DEF Source
<1>10. Phase' = [Phase EXCEPT ![r] = GatewayPhase(r)']
  BY <1>2, <1>4 DEF Phase, GatewayPhase
<1>11. \/ GatewayPhase(r)' = "trying"
       \/ j = d /\ GatewayPhase(r)' = "rejected"
  BY <1>3, <1>4, RouterAssumption DEF GatewayPhase
<1> HIDE DEF d, j
<1>. QED
  BY <1>5, <1>6, <1>7, <1>8, <1>9, <1>10, <1>11
     DEF Gateway!Submit, Phase, Steps, Passed, Source

\* The saved row is the gateway's answer.
LEMMA UsageSavedGateway ==
    ASSUME IInv, NEW r \in Requests, UsageSaved(r) PROVE Gateway!Answer(r)
<1>1. /\ pc \in [Requests -> Pcs] /\ at \in [Requests -> 0..(FallbackDepth + 1)]
      /\ list[r] \in CandidateLists \union {<<>>}
  BY DEF IInv, TypeOK
<1>2. Depth(list[r]) \in 0..FallbackDepth /\ at[r] \in 1..Depth(list[r])
  BY <1>1, DepthType, RouterAssumption DEF IInv, Position, UsageSaved
<1>3. Phase[r] = "trying" /\ Passed[r] = at[r] - 1 /\ Steps[r] = Depth(list[r])
  BY <1>2 DEF Phase, GatewayPhase, Passed, Steps, UsageSaved
<1>4. Steps' = Steps /\ Passed' = Passed
  BY DEF Steps, Passed, UsageSaved
<1>5. Passed[r] < Steps[r] /\ Passed[r] + 1 = at[r]
  BY <1>2, <1>3, RouterAssumption
<1>6. Phase' = [Phase EXCEPT ![r] = "answered"]
  BY <1>1 DEF Phase, GatewayPhase, UsageSaved
<1>7. Source' = [Source EXCEPT ![r] = at[r]]
  BY <1>1 DEF Source, UsageSaved
<1>. QED
  BY <1>3, <1>4, <1>5, <1>6, <1>7 DEF Gateway!Answer, Phase, Steps, Passed, Source

\* The last error is the gateway's rejection.
LEMMA ErrorSavedGateway ==
    ASSUME IInv, NEW r \in Requests, ErrorSaved(r) PROVE Gateway!Reject(r)
<1>1. pc \in [Requests -> Pcs]
  BY DEF IInv, TypeOK
<1>2. Phase[r] = "trying"
  BY DEF Phase, GatewayPhase, ErrorSaved
<1>3. Steps' = Steps /\ Passed' = Passed
  BY DEF Steps, Passed, ErrorSaved
<1>4. Phase' = [Phase EXCEPT ![r] = "rejected"]
  BY <1>1 DEF Phase, GatewayPhase, ErrorSaved
<1>5. Source' = Source
  BY <1>1 DEF Source, ErrorSaved
<1>. QED
  BY <1>2, <1>3, <1>4, <1>5 DEF Gateway!Reject, Phase, Steps, Passed, Source

\* The steps the caller cannot see: keys, calls, deltas and the clock.
LEMMA SilentGateway ==
    ASSUME IInv,
           \/ Tick
           \/ UNCHANGED vars
           \/ \E r \in Requests : KeyFound(r) \/ Delta(r) \/ CallSucceeds(r)
    PROVE  UNCHANGED Gateway!vars
<1>1. pc \in [Requests -> Pcs]
  BY DEF IInv, TypeOK
<1>2. UNCHANGED <<list, at>>
  BY DEF Tick, vars, KeyFound, Delta, CallSucceeds
<1>3. Phase' = Phase /\ Source' = Source
  <2>1. CASE UNCHANGED pc
    BY <1>2, <2>1 DEF Phase, GatewayPhase, Source
  <2>2. CASE \E r \in Requests : KeyFound(r) \/ CallSucceeds(r)
    BY <1>1, <1>2, <2>2 DEF Phase, GatewayPhase, Source, KeyFound, CallSucceeds
  <2>. QED
    BY <2>1, <2>2 DEF Tick, vars, Delta
<1>4. Steps' = Steps /\ Passed' = Passed
  BY <1>2 DEF Steps, Passed
<1>. QED
  BY <1>3, <1>4 DEF Gateway!vars, Phase, Steps, Passed, Source

\* Every step of the router is a step of the gateway, or none.
LEMMA NextGateway == IInv /\ [Next]_vars => [Gateway!Next]_(Gateway!vars)
<1> SUFFICES ASSUME IInv, [Next]_vars PROVE Gateway!Next \/ UNCHANGED Gateway!vars
  OBVIOUS
<1>1. CASE Tick \/ UNCHANGED vars
  BY <1>1, SilentGateway
<1>2. ASSUME NEW r \in Requests, Route(r) \/ Delta(r) \/ Progress(r)
      PROVE  Gateway!Next \/ UNCHANGED Gateway!vars
  <2>1. CASE Route(r)
    BY <2>1, RouteGateway DEF Gateway!Next
  <2>2. CASE Delta(r) \/ KeyFound(r) \/ CallSucceeds(r)
    BY <2>2, SilentGateway
  <2>3. CASE KeyLookupThrows(r)
    <3>1. pc'[r] = "rejected" /\ at'[r] = at[r] /\ UNCHANGED list /\ pc[r] = "keyLookup"
          /\ pc' = [pc EXCEPT ![r] = pc'[r]] /\ at' = [at EXCEPT ![r] = at'[r]]
      BY <2>3 DEF IInv, TypeOK, KeyLookupThrows
    <3>. QED
      BY <3>1, WalkGateway DEF Gateway!Next
  <2>4. CASE KeyMissing(r)
    <3> DEFINE from == at[r] + 1
    <3>1. /\ pc[r] = "keyLookup" /\ list' = list
          /\ Resume(r, circuit, kind[r], list[r], from)
      BY <2>4 DEF KeyMissing
    <3>2. /\ TypeOK /\ circuit \in [Providers -> Circuits]
          /\ kind[r] \in Kinds /\ list[r] \in CandidateLists \union {<<>>}
      BY DEF IInv, TypeOK
    <3>3. Depth(list[r]) \in 0..FallbackDepth /\ at[r] \in 1..Depth(list[r])
      BY <3>1, <3>2, DepthType, RouterAssumption DEF IInv, Position
    <3>4. from \in Nat \ {0} /\ from <= Depth(list[r]) + 1
      BY <3>3, RouterAssumption
    <3>5. /\ pc' = [pc EXCEPT ![r] = pc'[r]]
          /\ at' = [at EXCEPT ![r] = at'[r]]
          /\ at'[r] \in from..(Depth(list[r]) + 1)
          /\ \/ pc'[r] = "keyLookup"
             \/ /\ pc'[r] = IF kind[r] = "chat" THEN "savingError" ELSE "rejected"
                /\ at'[r] = Depth(list[r]) + 1
      <4> HIDE DEF from
      <4>. QED
        BY <3>1, <3>2, <3>4, ResumeFacts
    <3>. QED
      BY <3>1, <3>5, WalkGateway DEF Gateway!Next
  <2>5. CASE CallFails(r) \/ UsageSaveFails(r)
    <3>1. Fail(r) /\ pc[r] \in {"calling", "savingUsage"}
      BY <2>5 DEF CallFails, UsageSaveFails
    <3>2. UNCHANGED list
      BY <3>1 DEF Fail
    <3>3. /\ pc' = [pc EXCEPT ![r] = pc'[r]]
          /\ at' = [at EXCEPT ![r] = at'[r]]
          /\ \/ pc'[r] = "rejected" /\ at'[r] = at[r]
             \/ /\ at'[r] \in (at[r] + 1)..(Depth(list[r]) + 1)
                /\ \/ pc'[r] = "keyLookup"
                   \/ /\ pc'[r] = IF kind[r] = "chat" THEN "savingError" ELSE "rejected"
                      /\ at'[r] = Depth(list[r]) + 1
      BY <3>1, FailFacts
    <3>. QED
      BY <3>1, <3>2, <3>3, WalkGateway DEF Gateway!Next
  <2>6. CASE UsageSaved(r)
    BY <2>6, UsageSavedGateway DEF Gateway!Next
  <2>7. CASE ErrorSaved(r)
    BY <2>7, ErrorSavedGateway DEF Gateway!Next
  <2>. QED
    BY <1>2, <2>1, <2>2, <2>3, <2>4, <2>5, <2>6, <2>7 DEF Progress
<1>. QED
  BY <1>1, <1>2 DEF Next

\* The router keeps its promise to its callers: one walk down the list, in
\* order, bounded by the fallback depth, one answer or an error.
THEOREM RouterImplementsGateway == Spec => ImplementsGateway
BY InitGateway, NextGateway, Invariance, PTL DEF Spec, ImplementsGateway, Gateway!Spec
=============================================================================
