CONSTANTS
    Requests = {r1, r2}
    m1 = m1
    m2 = m2
    m3 = m3
    p1 = p1
    p2 = p2
    Models = {m1, m2, m3}
    Providers = {p1, p2}
    ProviderOf <- MCProviderOf
    Streaming = {p1}
    CandidateLists <- MCLists
    FallbackDepth = 2
    FailureThreshold = 2
    FailureWindow = 2
    OpenDuration = 1
    MaxTime = 2
SPECIFICATION FairSpec
INVARIANTS
    FloodOpensCircuit
    OneVisibleSource
    AnswersAreAccounted
PROPERTIES
    AdmissionRespectsCoolOff
    ImplementsGateway
    RequestsEnd
CHECK_DEADLOCK FALSE
