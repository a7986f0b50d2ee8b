SPECIFICATION Spec
CONSTANTS
    Posts <- MCPosts
    TagOf <- MCTagOf
INVARIANTS
    WordsWhole
    TagsReplacedOnly
    WellNested
    FormattingAsWritten
    OwnAddress
    AllConverted
CHECK_DEADLOCK FALSE
