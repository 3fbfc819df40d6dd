SPECIFICATION Spec
CONSTANTS
    k1 = k1
    k2 = k2
    alice = alice
    bob = bob
    ch1 = ch1
    domA = domA
    domB = domB
    shopA = shopA
    shopB = shopB
    null = null
    Slots = {k1, k2}
    Clients = {alice, bob}
    Uris <- Asked
    Challenges = {ch1}
    UriSets <- AskedSets
    LoopbackHosts <- Loopback
    DangerousSchemes <- Dangerous
    Domains = {domA, domB}
    ShopIds = {shopA, shopB}
    DomainOf <- TwoDomains
    StateTtl = 1
    MaxTime = 1
    MaxConsents = 2
    MaxApprovals = 2
    HostErrs = TRUE
    Failures = TRUE
    None = null
SYMMETRY Symmetry
INVARIANTS TypeOK CodesFollowConsent CodesTravelSafely OneCodePerApproval
PROPERTY ExpiredStatesAreDead
CHECK_DEADLOCK FALSE
