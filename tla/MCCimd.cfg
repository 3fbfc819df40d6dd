SPECIFICATION FairSpec
CONSTANTS
    q1 = q1
    q2 = q2
    q3 = q3
    url1 = url1
    d1 = d1
    d2 = d2
    null = null
    Reqs = {q1, q2, q3}
    Urls = {url1}
    Docs = {d1, d2}
    MaxConcurrent = 2
    Outages = TRUE
    None = null
INVARIANTS TypeOK SlotsAreFetches VerdictsAreEarned StoredWins
PROPERTIES SettledForGood EveryResolutionAnswered
