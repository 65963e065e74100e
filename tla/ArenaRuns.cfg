\* One player with two entries and two tabs, an administrator, and restarts.
CHECK_DEADLOCK FALSE
SPECIFICATION Spec
SYMMETRY Symmetry
CONSTANTS
    Wallets = {w1}
    Payments = {p1, p2}
    w1 = w1
    p1 = p1
    p2 = p2
    Payer <- OnePayer
    Runs = {1, 2}
    Requests = {q1, q2}
    q1 = q1
    q2 = q2
    DayEnd = 2
    RunTtl = 1
    MaxSeq = 2
INVARIANTS
    AttemptsMatchEntries
    BestScoreStands
    TerminatedIsReleased
PROPERTIES
    ReservationHolds
    TranscriptGrows
