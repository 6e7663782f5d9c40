\* The instance of MCPasscodes.cfg.
CONSTANTS
    Codes       = {c1, c2}
    Assessments = {1, 2}
    Own         = {1}
    Students    = {s1}
    Requests    = {r1, r2}
    None        = None

SPECIFICATION Spec
SYMMETRY Symmetry

INVARIANTS
    SyncReachesAll
