SPECIFICATION Spec
CONSTANTS
    AT = AT
    STAR = STAR
    CR = CR
    LF = LF
    NUL = NUL
    OPEN = OPEN
    CLOSE = CLOSE
    Malformed = Malformed
    NoId = NoId
    Reserved = {"a,b"}
    Long = {"long"}
    SequenceLimit = 10
    MaxFields = 3
    FrameMaxLen = 13
    JsonMax = 11
    JsonHead = 5
    JsonField = 2
    BufferSize = 10
    ReadSize = 3
    NodeId = "n1"
    Courses <- MCCourses
INVARIANTS
    FramesSurvive
    LinesSurvive
    HandledExactly
    HandledWasSent
    AnswersTellTheTruth
