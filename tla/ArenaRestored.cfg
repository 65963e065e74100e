\* One entry whose start is rolled back.
CHECK_DEADLOCK FALSE
SPECIFICATION Spec
CONSTANTS
    Wallets = {w1}
    Payments = {p1}
    w1 = w1
    p1 = p1
    Payer <- OnePayer
    Runs = {1}
    Requests = {q1, q2}
    q1 = q1
    q2 = q2
    DayEnd = 2
    RunTtl = 1
    MaxSeq = 1
INVARIANTS
    RestoredEntryPlayable
