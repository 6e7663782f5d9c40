SPECIFICATION ExamSpec
CONSTANTS
    ExamQuestions = {1, 2}
    ExamOptions = {o1}
    DefaultTime = 2
    TestTimes = {2}
    MaxLoads = 2
    MaxAttempts = 2
    NoAnswer = NoAnswer
    NotGraded = NotGraded
CHECK_DEADLOCK FALSE
INVARIANT ResumesSeamlessly
