\* Two requests, two passcodes, an assessment of the institution and one that a
\* handler creates: renewals overlap, and a verified student meets a renewal.
CONSTANTS
    Codes       = {c1, c2}
    Assessments = {1, 2}
    Own         = {1}
    Students    = {s1}
    Requests    = {r1, r2}
    None        = None

SPECIFICATION Spec
SYMMETRY Symmetry

INVARIANTS
    LiveNeedsOverlap
    TablesAgree
    ShownBefore
