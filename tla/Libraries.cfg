SPECIFICATION Spec
CONSTANTS
    Params <- MCParams
    RowCounts <- MCRows
    MaxCalls <- MCMaxCalls
    Passwords <- MCPasswords
    Ns <- MCNs
    Rs <- MCSizes
    Ps <- MCSizes
    Width <- MCWidth
    Field <- MCField
    SafeN <- MCSafeN
INVARIANTS
    StatementsRun
    DigestIsStandard
    KeyIsStandard
    MixIsStandard
    Base64Exact
    OnlyOwnPassword
    FailuresTold
CHECK_DEADLOCK FALSE
