SPECIFICATION FairSpec
CONSTANTS
    Users = {u1}
    Plans = {p1, p2}
    Refs = {r1, r2}
    NumSubs = 2
    Loops = {l1}
    Hours = 1
    RenewalHour = 0
    ExpiryHour = 0
    Tasks = {t1}
    Interval <- MCInterval
    YearlyPlans = {}
    MonthDays = 1
    YearDays = 2
    TrialDays <- NoTrials
    Available = {p1, p2}
    ExtendDays = {1}
    MaxNow = 2
    MaxEnd = 4
    Requests = {"initiate", "webhook"}
    Faults = {"crons"}
    NoRef = NoRef
    NoPayment = NoPayment
    NoRow = NoRow
PROPERTIES LapsedEnds RenewalEnds PaidIsGranted
