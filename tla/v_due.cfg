SPECIFICATION Spec
CONSTANTS
    Users = {u1}
    Plans = {p1}
    Refs = {r1}
    NumSubs = 1
    Loops = {l1}
    Hours = 2
    RenewalHour = 0
    ExpiryHour = 1
    Tasks = {t1}
    Interval <- MCInterval
    YearlyPlans = {}
    MonthDays = 1
    YearDays = 2
    TrialDays <- NoTrials
    Available = {p1}
    ExtendDays = {1}
    MaxNow = 6
    MaxEnd = 6
    Requests = {"initiate", "verify"}
    Faults = {}
    NoRef = NoRef
    NoPayment = NoPayment
    NoRow = NoRow
PROPERTY DueTodayIsTaken
