SPECIFICATION ServerSpec
CONSTANTS
    c1 = c1
    c2 = c2
    r1 = r1
    r2 = r2
    q1 = q1
    p1 = p1
    k1 = k1
    alice = alice
    uri = uri
    v = v
    shopA = shopA
    shopA2 = shopA2
    dom = dom
    null = null
    Codes = {c1, c2}
    OurCodes = {c1}
    Rows = {r1, r2}
    Reqs = {q1}
    Procs = {p1}
    Host <- OneProcess
    Clients = {alice}
    RedirectUris = {uri}
    Verifiers = {v}
    ShopIds = {shopA, shopA2}
    CodeTtl = 1
    RefreshTtl = 2
    MaxTime = 1
    SharedCache = TRUE
    Unreliable = {p1}
    None = null
    Calls = {k1}
    Domains = {dom}
    DomainOf <- OneDomain
    AccessTtl = 1
    FreshIds = TRUE
    Outages = {"rejection", "null"}
SYMMETRY RowsAndIds
VIEW NoHistory
INVARIANTS LateCallsShutOut RefusalsAreEarned
PROPERTY ImplementsGrants
