SPECIFICATION Spec
CONSTANTS
    u1 = u1
    u2 = u2
    u3 = u3
    u4 = u4
    u5 = u5
    x = x
    y = y
    Users = {u1, u2, u3, u4, u5}
    UserType <- MCUserType
    Texts = {x, y}
    Fitting = {x}
    Tables <- MCTables
    NumListings = 5
    Booked = {1}
    MaxRequests = 3
    Tasks = {t1, t2}
    Faults = TRUE
    PageLimit = 2
    Readers <- MCReaders
    Null = Null
INVARIANTS Inv CountersMatchLog AnswersStand DeletedStaysDeleted WalkMissesNothing
SYMMETRY Symmetry
CHECK_DEADLOCK FALSE
