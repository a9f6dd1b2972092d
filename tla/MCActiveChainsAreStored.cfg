CONSTANTS
    m1 = m1
    m2 = m2
    m3 = m3
    here = here
    there = there
    Models = {m1, m2, m3}
    Owner <- Owners
    Home = here
    None = None
    MaxChain = 2
SPECIFICATION Spec
INVARIANT ActiveChainsAreStored
CHECK_DEADLOCK FALSE
