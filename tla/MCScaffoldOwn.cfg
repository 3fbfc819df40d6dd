SPECIFICATION Spec
CONSTANTS
    run1 = run1
    run2 = run2
    readme = readme
    manifest = manifest
    user = user
    null = null
    Runs = {run1, run2}
    Downloads = {run1}
    Parts = {readme, manifest}
    Manifest = manifest
    Attempts = 3
    UserActs = FALSE
    User = user
    None = null
PROPERTY OnlyOwnRemoved
CHECK_DEADLOCK FALSE
