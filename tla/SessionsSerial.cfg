SPECIFICATION FormsSpec
CONSTANTS
    Io = {t1}
    Workers = {t1}
    Accounts = {u1, u2}
    Names = {ann, bob, cat}
    Passwords = {p, q}
    Cookies = {c1, c2}
    Expire = 1
    DbFails = TRUE
    SaltFails = TRUE
    HashFails = FALSE
    NoName = NoName
    NoPassword = NoPassword
    NoCookie = NoCookie
    Gone = Gone
    Error = Error
    Junk = Junk
SYMMETRY Symmetry
INVARIANTS
    TypeOK
    UniqueUsernames
    OneSessionPerUser
    LogoutEndsSession
PROPERTIES
    SweptAreExpired
    SessionsLast
    PasswordKept
