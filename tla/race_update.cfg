SPECIFICATION Spec
CONSTANTS
    Null = Null
    beer = beer
    wine = wine
    soda = soda
    Organisations = {org}
    ClientNames = {}
    Products = {beer}
    Price <- MCPrice
    Active = {beer}
    MaxInt = 6
    OrderRequests = {r1, r2}
    PaymentRequests = {p1}
    Deliveries = {}
    Commands = {"create", "update"}
    PaymentCommands = {"CASH"}
    Carts <- OneCart
    CarefulClients = TRUE
    Failures = FALSE
    MaxOverlap = 2
    Progress = {}
CHECK_DEADLOCK FALSE
PROPERTIES
    FinishedStaysFinished
