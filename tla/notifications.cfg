SPECIFICATION MCSpec
CONSTANTS
    Users = {u1, u2}
    Devices = {d1, d2}
    FCM_MULTICAST_LIMIT = 1
    FeedLimit = 1
    Readers = {u1}
    MaxRequests = 2
    Tasks = {t1, t2}
    Faults = TRUE
    Null = Null
INVARIANTS Inv ToldAllOrNone EveryDeviceOnce TokenFollowsSignIn WalkMissesNothing
SYMMETRY Symmetry
CHECK_DEADLOCK FALSE
