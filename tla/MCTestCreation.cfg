SPECIFICATION CreationSpec
CONSTANTS
    Tabs = {t1}
    Requests = {r1, r2}
    TestIds = {1, 2}
    Sections = 2
    Others = 0
    None = None
CHECK_DEADLOCK FALSE
INVARIANTS
    NoPartialTest
