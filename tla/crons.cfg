SPECIFICATION Spec
CONSTANTS
    Users = {u1}
    Plans = {p1}
    Refs = {r1, r2}
    NumSubs = 1
    Loops = {l1, l2}
    Hours = 2
    RenewalHour = 0
    ExpiryHour = 1
    Tasks = {t1}
    Interval <- MCInterval
    YearlyPlans = {}
    MonthDays = 1
    YearDays = 2
    TrialDays <- MCTrialDays
    Available = {p1}
    ExtendDays = {1}
    MaxNow = 4
    MaxEnd = 5
    Requests = {"initiate", "verify", "cancel", "extend"}
    Faults = {"requests", "crons", "process"}
    NoRef = NoRef
    NoPayment = NoPayment
    NoRow = NoRow
INVARIANTS Inv BookedIsCollected CollectedIsRecorded
PROPERTY CancellationSticks
SYMMETRY Symmetry
