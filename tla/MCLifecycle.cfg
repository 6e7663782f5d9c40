\* Two servers, two assessments, one edit: ticks overlap with each other, with
\* the handlers and with a test that ends between two ticks.
CONSTANTS
    Assessments = {a1, a2}
    Servers     = {i1, i2}
    Starts      = {None, 1}
    Ends        = {None, 1}
    MaxTime     = 2
    MaxEdits    = 1
    None        = None

SPECIFICATION Spec
SYMMETRY Symmetry

INVARIANTS
    OneTickAtATime
    FoundStillTrue

PROPERTIES
    OpensInTime
    StatusMovesForward
    ScheduleKept

