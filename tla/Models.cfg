SPECIFICATION FairSpec
CONSTANTS
    p = p
    q = q
    r1 = r1
    r2 = r2
    Watcher = Watcher
    Nobody = Nobody
    Paths = {p, q}
    MaxRev = 2
    Serves <- MCServes
    Sourced = {q}
    Later = {p}
    Requests = {r1, r2}
    Asked <- MCAsked
    Given <- MCGiven
    Attempts = 2
    Parallel = 1
    Unanswered = {r1}
INVARIANTS OneWriter StateTrue AdditionsSeen
PROPERTY CallersReturn
CHECK_DEADLOCK FALSE
