SPECIFICATION FollowersFairSpec
CONSTANTS
    Null = Null
    beer = beer
    wine = wine
    soda = soda
    Organisations = {org}
    ClientNames = {}
    Products = {beer, wine}
    Price <- MCPrice
    Active = {beer, wine}
    MaxInt = 6
    OrderRequests = {r1, r2}
    PaymentRequests = {p1, p2}
    Deliveries = {d1}
    Commands = {"create", "update", "delete"}
    PaymentCommands = {"CASH", "PAYCONIQ", "CANCEL"}
    Carts <- TwoProducts
    CarefulClients = TRUE
    Failures = FALSE
    MaxOverlap = 2
    Progress = {"SUCCEEDED"}
    Followers = {f1}
CHECK_DEADLOCK FALSE
INVARIANTS
    FollowersTypeOK
    FinishedIsPaid
    CreateAnswersAllOrNothing
PROPERTIES
    ImplementsLedger
    SucceededCallbackFinishesOrder
    SavedCashFinishesOrder
