\* Liveness, with one assessment, which may end before a tick opens it.
CONSTANTS
    Assessments = {a1}
    Servers     = {i1, i2}
    Starts      = {None, 0}
    Ends        = {None, 0}
    MaxTime     = 1
    MaxEdits    = 1
    None        = None

SPECIFICATION FairSpec

PROPERTIES
    DueIsServed

