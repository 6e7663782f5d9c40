\* Two first submissions that overlap.
CONSTANTS
    Students   = {s1, s2}
    Requests   = {r1, r2}
    AttemptIds = {a1, a2, a3}
    Scores     = {1, 2}
    Totals     = {0, 2}
    Starts     = {0}
    Ends       = {0}
    MaxTime    = 1
    None       = None

SPECIFICATION Spec

INVARIANTS
    RanksDistinct

CHECK_DEADLOCK FALSE
