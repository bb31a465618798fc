CONSTANTS
    q1 = q1
    q2 = q2
    bad = bad
    c1 = c1
    c2 = c2
    c3 = c3
    a = a
    b = b
    Links <- MCLinks
    Queries = {q1}
    BadQueries = {bad}
    Customizes = {c1}
    Updates <- OneUpdate
    Original <- MCOriginal
    NoRequest = NoRequest
SPECIFICATION Spec
INVARIANTS
    OnlyBadQueriesFail
CHECK_DEADLOCK FALSE
