\* Logins and handlers at any time, and a daemon that dies.
CONSTANTS
    Nil = Nil
    t1 = t1
    t2 = t2
    Token = {t1, t2}
    Client = {c1, c2}
    Handler = {h1, h2}
    MaxKey = 3
    TokenLength <- Lengths
    KeyLength = 2
SPECIFICATION Spec
SYMMETRY Symmetry
INVARIANTS TokenKept ReportedKeyKept
