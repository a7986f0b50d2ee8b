SPECIFICATION FairSpec
CONSTANTS
    Clients <- MCClients
    ChunkSize = 2
INVARIANTS
    TypeOK
    OwnContent
PROPERTIES
    AnswersWholeInOrder
    EndsForCause
    NoneForgotten
CHECK_DEADLOCK FALSE
