\* Two runs, Miners and credits, and two handlers that cross each other.
CHECK_DEADLOCK FALSE
SPECIFICATION Spec
SYMMETRY Symmetry
CONSTANTS
    Runs = {r1, r2}
    r1 = r1
    r2 = r2
    Miners = {m1, m2}
    m1 = m1
    m2 = m2
    Credits = {c1, c2}
    c1 = c1
    c2 = c2
    Requests = {q1, q2}
    q1 = q1
    q2 = q2
    ReviveLimit = 1
INVARIANTS
    UnattachedIsRefundable
    PlayedRunIsPaid
    LedgerMatchesRonin
PROPERTIES
    OverIsFinal
