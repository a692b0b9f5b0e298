SPECIFICATION Spec
CONSTANTS
    Null = Null
    beer = beer
    wine = wine
    soda = soda
    Organisations = {org}
    ClientNames = {}
    Products = {beer, wine, soda}
    Price <- MCPrice
    Active = {beer, wine}
    MaxInt = 6
    OrderRequests = {r1, r2, r3}
    PaymentRequests = {p1}
    Deliveries = {}
    Commands = {"create", "update", "delete"}
    PaymentCommands = {"FREE"}
    Carts <- MixedCarts
    CarefulClients = FALSE
    Failures = TRUE
    MaxOverlap = 3
    Progress = {}
SYMMETRY Symmetry
CHECK_DEADLOCK FALSE
INVARIANTS
    FinishedIsPaid
    ItemsStayHome
    RejectedWroteNothing
PROPERTIES
    CreateAnswersItsLines
