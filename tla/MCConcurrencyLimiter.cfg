SPECIFICATION FairSpec
CONSTANTS
    a = a
    b = b
    c = c
    d = d
    e = e
    Callers = {a, b, c, d, e}
    MaxConcurrent = 2
INVARIANTS CapHeld NoSlotLeaks NoIdleSlot NoOvertaking
PROPERTY EveryCallerRuns
