SPECIFICATION FairSpec
CONSTANTS
    run1 = run1
    run2 = run2
    readme = readme
    manifest = manifest
    user = user
    null = null
    Runs = {run1, run2}
    Downloads = {run1}
    Parts = {readme, manifest}
    Manifest = manifest
    Attempts = 3
    UserActs = TRUE
    User = user
    None = null
INVARIANTS  FailureLeavesNothing CreatedIsThere
PROPERTY EveryRunEnds
CHECK_DEADLOCK FALSE
