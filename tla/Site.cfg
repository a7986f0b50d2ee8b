SPECIFICATION Spec
CONSTANTS
    Runs <- MCRuns
    Session <- MCSession
    PageTexts <- MCPageTexts
    PageSize = 2
    MaxInt = 15
    MaxPage = 9
    Jumps = {1, 8}
    MaxId = 5
INVARIANTS
    CarriedAsTyped
    LinkLeadsToPost
    NothingMissed
