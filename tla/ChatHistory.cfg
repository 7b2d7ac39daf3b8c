CONSTANTS
    reader = reader
    other = other
    foreign = foreign
    User = {reader, other}
    Message = {m1, m2, m3, foreign}
    Reader = reader
    Admin = {other}
    Limit = 1
    LastTick = 2
    None = None
    Author <- MCAuthor
SPECIFICATION Spec
SYMMETRY OwnSymmetry
INVARIANTS TypeOK UnseenIsAhead WalkIsComplete OnlyOwnHide
CHECK_DEADLOCK FALSE
