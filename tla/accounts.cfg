SPECIFICATION Spec
CONSTANTS
    Users = {u1, u2}
    Existing = {u1}
    Emails = {e1, e2}
    Roles = {"buyer", "driver"}
    Passwords = {p1}
    NumCodes = 2
    MaxRequests = 3
    Tasks = {t1, t2}
    Faults = TRUE
    Null = Null
INVARIANTS Inv TokenIsTrue TokenIsCurrent SpentCodeIsCleared MailedCodeWorks
PROPERTIES ConfirmationSticks
SYMMETRY Symmetry
CHECK_DEADLOCK FALSE
