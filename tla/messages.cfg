SPECIFICATION Spec
CONSTANTS
    Users = {u1, u2, u3}
    Conversations = {c1}
    Messages = {m1}
    Sockets = {s1, s2}
    Tasks = {t1, t2}
    ActiveRoles = {"buyer"}
    Contexts = {"general"}
    Faults = TRUE
    Statuses = {"blocked"}
    Joinable = {c1}
    Watchers = {}
    Suspendable = {}
    Null = Null
INVARIANTS HeardByMembers PresenceIsTrue
PROPERTIES ImplementsPrivateTalk
SYMMETRY Symmetry
