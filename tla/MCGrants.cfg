SPECIFICATION Spec
CONSTANTS
    c1 = c1
    r1 = r1
    r2 = r2
    r3 = r3
    q1 = q1
    q2 = q2
    p1 = p1
    p2 = p2
    alice = alice
    bob = bob
    shop1 = shop1
    uri1 = uri1
    v1 = v1
    v2 = v2
    null = null
    Codes = {c1}
    Rows = {r1, r2, r3}
    Reqs = {q1, q2}
    Procs = {p1, p2}
    Host <- OneProcess
    Clients = {alice, bob}
    RedirectUris = {uri1}
    Verifiers = {v1, v2}
    ShopIds = {shop1}
    CodeTtl = 1
    RefreshTtl = 1
    MaxTime = 1
    SharedCache = FALSE
    Unreliable = {p1}
    None = null
SYMMETRY Symmetry
INVARIANTS TypeOK SingleHolder NoFork BoundToGrant OneGuessPerCode AckedRevocationHolds
    RevocationEndsGrant GrantsEndForAReason
PROPERTY ImplementsLifecycle
