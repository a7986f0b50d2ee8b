SPECIFICATION FormsSpec
CONSTANTS
    Io = {w1, w2}
    Workers = {w1, w2}
    Accounts = {u1}
    Names = {ann, bob}
    Passwords = {p, q}
    Cookies = {c1}
    Expire = 1
    DbFails = TRUE
    SaltFails = FALSE
    HashFails = TRUE
    NoName = NoName
    NoPassword = NoPassword
    NoCookie = NoCookie
    Gone = Gone
    Error = Error
    Junk = Junk
SYMMETRY Symmetry
INVARIANTS
    AuthenticatedByLogin
PROPERTIES
    LostByOverlapOnly
