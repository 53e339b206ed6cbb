SPECIFICATION Spec
CONSTANTS
    Users = {prov, cust}
    Services = {s1}
    Buyers = {cust}
    Provider = prov
    CreatedBy <- MCCreatedBy
    Offers = {c1}
    Prices = {c2}
    NumBookings = 1
    NumReviews = 2
    NumReports = 1
    Tasks = {t1, t2}
    Faults = TRUE
    Nobody = Nobody
    NoCost = NoCost
    NoBooking = NoBooking
INVARIANTS BuyersCostStands CompletedWasScheduled StatusIsTold
PROPERTIES AnsweredStaysAnswered KeepsLifecycle
SYMMETRY Symmetry
