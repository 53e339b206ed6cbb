SPECIFICATION Spec
CONSTANTS
    Users = {u1, u2}
    Conversations = {c1}
    Messages = {m1}
    Sockets = {s1}
    Tasks = {t1}
    ActiveRoles = {"buyer"}
    Contexts = {"product_inquiry"}
    Faults = FALSE
    Statuses = {}
    Joinable = {c1}
    Watchers = {}
    Suspendable = {u1, u2}
    Null = Null
INVARIANTS BadgeMatchesInbox
SYMMETRY Symmetry
