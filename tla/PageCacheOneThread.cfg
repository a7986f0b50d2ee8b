SPECIFICATION FairSpec
CONSTANTS
    Io = {i1}
    Workers = {w1}
    Slugs = {"a", "b"}
    Texts = {x, y}
    Pages = {0, 1}
    HomeKey <- MCHomeKey
    PageSize = 1
    MaxId = 2
    Absent = Absent
    Blank = Blank
INVARIANTS
    TypeOK
    Coherent
    AnswerIsCurrent
    SuccessTookEffect
PROPERTIES
    EditMovesPost
    Answered
