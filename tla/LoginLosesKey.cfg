\* A login and a handler that update the state file at the same time.
CONSTANTS
    Nil = Nil
    t1 = t1
    t2 = t2
    Token = {t1, t2}
    Client = {c1}
    Handler = {h1, h2}
    MaxKey = 1
    TokenLength <- Lengths
    KeyLength = 2
SPECIFICATION Spec
SYMMETRY Symmetry
INVARIANTS SavedKey
