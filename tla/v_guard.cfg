SPECIFICATION Spec
CONSTANTS
    Users = {u1}
    Plans = {p1}
    Refs = {r1, r2}
    NumSubs = 2
    Loops = {l1}
    Hours = 2
    RenewalHour = 0
    ExpiryHour = 1
    Tasks = {t1}
    Interval <- MCInterval
    YearlyPlans = {}
    MonthDays = 3
    YearDays = 2
    TrialDays <- MCTrialDays
    Available = {p1}
    ExtendDays = {1}
    MaxNow = 4
    MaxEnd = 4
    Requests = {"initiate", "verify", "webhook", "trial"}
    Faults = {}
    NoRef = NoRef
    NoPayment = NoPayment
    NoRow = NoRow
INVARIANT ActiveUserIsAdmitted
SYMMETRY RefSymmetry
