SPECIFICATION Spec
CONSTANTS
    q1 = q1
    q2 = q2
    p1 = p1
    p2 = p2
    ann = ann
    Reqs = {q1, q2}
    Procs = {p1, p2}
    Host <- OneEach
    Routes <- Asked
    Callers = {ann}
    Statuses = {400, 500}
    Limit = 2
    Windows = {2, 9}
    MaxDelay = 3
    MaxTime = 2
INVARIANTS OneAnswer ErrorsAreNamed BudgetHeld
PROPERTY EveryRequestAnswered
CHECK_DEADLOCK FALSE
