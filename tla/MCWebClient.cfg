SPECIFICATION WebSpec
CONSTANTS
    \* Session
    Browser = {b1, b2}
    Users = {u1, u2}
    MaxIssues = 2
    Nobody = Nobody
    NoToken = NoToken
    \* CreateTest
    Departments = {d1, d2}
    Batches = {}
    TestNames = {n1}
    Counts = {1}
    Limits = {10}
    Answers = {FALSE}
    Prose = {}
    NextCodes = {370, 371}
    DefaultCode = 370
    All = All
    NoText = NoText
    NoDraft = NoDraft
    \* SectionForms
    Required = 2
    SectionNames = {n1}
    BadNames = {}
    Durations = {30, 301}
    Marks = {ZeroText}
    Penalties = {Blank}
    Displays = {Blank}
    Texts = {}
    ZeroText = ZeroText
    Blank = Blank
    \* TestCreation
    Tabs = {t1}
    Requests = {r1, r2}
    TestIds = {1, 2}
    Sections = 2
    Others = 0
    None = None
    \* QuestionForms
    OptionCount = 2
    Settings = {s0}
    DefaultSettings = s0
    MaxCases = 2
    MaxSubmits = 2
    NoRequest = NoRequest
    \* MyTests
    m1 = m1
    m2 = m2
    TestRows = {m1, m2}
    EmptyTests = {m2}
    Windows <- SomeWindows
    OtherRows <- OtherTests
    Instants = {0, 1, 2, 4}
    CallSlots = {k1, k2}
    NoTime = NoTime
    NoTest = NoTest
    NoWindow = NoWindow
    \* ExamPage
    ExamQuestions = {1, 2}
    ExamOptions = {o1}
    DefaultTime = 2
    TestTimes = {2}
    MaxLoads = 2
    MaxAttempts = 2
    NoAnswer = NoAnswer
    NotGraded = NotGraded
    \* Listings
    F0 = F0
    F1 = F1
    Filters = {F0, F1}
    NoFilter = F0
    Sizes = {10, 25}
    FirstSize = 10
    PagesOf <- SomePages
    Slots = {f1, f2}
    Unlisted = Unlisted
    \* PasscodeCard
    MaxRenewals = 4
    Seconds = {0, 1, 2}
    FullTime = 2
    NotSent = NotSent
    Sent = Sent
    \* TestEditor
    Editors = {e1, e2}
    BankQuestions = {q1}
    OldQuestions = {q2}
    Customs = {c1}
SYMMETRY RequestsAlike
CHECK_DEADLOCK FALSE
INVARIANTS
    ActsAsShown
    RowSpentOnce
    StoredIsKnown
    AllIsAll
    LockedShowsSaved
    SentComplete
    OneTestPerDraft
    SuccessMeansWhole
    LastSectionStays
    OneRightAnswer
    LastSaveStands
    QuestionsAccounted
    RowsAreTrue
    BadgeNamesTab
    GradedAsShown
    TimeUpSubmits
    TableAnswersQuery
    PageExists
    NewestShown
    ZeroFetches
    PublishedAsTicked
    PublishedHasQuestions
PROPERTY
    CodeKept
