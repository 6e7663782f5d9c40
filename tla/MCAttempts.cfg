\* Safety: two students, two requests, three attempts, so that one student can
\* retake, two submissions can overlap and two starts can race.
CONSTANTS
    Students   = {s1, s2}
    Requests   = {r1, r2}
    AttemptIds = {a1, a2, a3}
    Scores     = {1, 2}
    Totals     = {0, 2}
    Starts     = {0}
    Ends       = {0}
    MaxTime    = 1
    None       = None

SPECIFICATION Spec
SYMMETRY Symmetry

INVARIANTS
    TransactionsIsolated
    BoardKeepsBest
    DuplicatesNeedOverlap
    RanksExact

PROPERTIES
    ResultIsFinal
    PromiseKept

CHECK_DEADLOCK FALSE
