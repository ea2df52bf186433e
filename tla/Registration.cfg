SPECIFICATION Spec
CONSTANTS
    Principal = {p1, p2}
    Guest = p1
    Target = {t1, t2}
    Hardware = {h1, h2}
    Request = {r1, r2, r3}
    AclEntry <- MCAclEntry
    FaultyDb = TRUE
    Nil = Nil
SYMMETRY Symmetry
CHECK_DEADLOCK FALSE
INVARIANTS
    TypeOK
    AnswerIsRegistered
    IdsApart
    OneTargetOneId
    OneCreator
    OwnerAllowed
