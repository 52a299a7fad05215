\* Two admins in turn, two opaque calls and a setDelay in and out of range;
\* the time runs long enough for a proposal to expire and another to be queued.
SPECIFICATION Spec
CONSTANTS
    a1 = a1
    a2 = a2
    c1 = c1
    c2 = c2
    NoAddress = NoAddress
    Addresses = {a1, a2}
    InitialAdmin = a1
    Calls = {c1, c2}
    Delays = {2, 3}
    MinDelay = 1
    MaxDelay = 2
    GracePeriod = 2
    MaxOperations = 2
    Genesis = 3
    MaxTime = 8
    MaxProposals = 2
SYMMETRY Symmetry
INVARIANTS
    NothingElseQueued
