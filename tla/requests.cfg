SPECIFICATION Spec
CONSTANTS
    Users = {u1}
    Plans = {p1, p2}
    Refs = {r1}
    NumSubs = 2
    Loops = {l1}
    Hours = 2
    RenewalHour = 0
    ExpiryHour = 1
    Tasks = {t1, t2}
    Interval <- MCInterval
    YearlyPlans = {p2}
    MonthDays = 1
    YearDays = 2
    TrialDays <- MCTrialDays
    Available = {p1}
    ExtendDays = {1}
    MaxNow = 1
    MaxEnd = 3
    Requests = {"initiate", "verify", "webhook", "trial", "cancel", "extend"}
    Faults = {"requests", "crons", "process"}
    NoRef = NoRef
    NoPayment = NoPayment
    NoRow = NoRow
INVARIANTS SuccessIsGranted PaidRowWasPaid InsertsWhatItMissed
PROPERTY ImplementsPaidAccess
SYMMETRY TaskSymmetry
