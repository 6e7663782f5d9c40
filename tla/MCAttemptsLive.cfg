\* Liveness: four attempts, so that both students can be on the leaderboard and
\* submit again at the same time (each then ranks the row the other one holds).
CONSTANTS
    Students   = {s1, s2}
    Requests   = {r1, r2}
    AttemptIds = {a1, a2, a3, a4}
    Scores     = {1}
    Totals     = {1}
    Starts     = {0}
    Ends       = {0}
    MaxTime    = 0
    None       = None

SPECIFICATION FairSpec

INVARIANTS
    NobodyStuck

PROPERTIES
    RequestsFinish

CHECK_DEADLOCK FALSE
