SPECIFICATION Spec
CONSTANTS
    Users = {u1, u2}
    Conversations = {c1, c2}
    Messages = {m1}
    Sockets = {}
    Tasks = {t1, t2}
    ActiveRoles = {"buyer", "auto dealer"}
    Contexts = {"product_inquiry"}
    Faults = TRUE
    Statuses = {}
    Joinable = {}
    Watchers = {u1, u2}
    Suspendable = {u1, u2}
    Null = Null
INVARIANTS SentIsAnnounced NoSecondInSight BadgeWithinInbox
SYMMETRY Symmetry
