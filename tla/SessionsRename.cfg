SPECIFICATION FormsSpec
CONSTANTS
    Io = {}
    Workers = {w1, w2}
    Accounts = {u1, u2}
    Names = {ann, bob, cat}
    Passwords = {p}
    Cookies = {c1, c2}
    Expire = 1
    DbFails = FALSE
    SaltFails = FALSE
    HashFails = FALSE
    NoName = NoName
    NoPassword = NoPassword
    NoCookie = NoCookie
    Gone = Gone
    Error = Error
    Junk = Junk
SYMMETRY Symmetry
INVARIANTS
    UniqueUsernames
