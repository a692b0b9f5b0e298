SPECIFICATION Spec
CONSTANTS
    Null = Null
    beer = beer
    wine = wine
    soda = soda
    Organisations = {org}
    ClientNames = {}
    Products = {beer}
    Price <- MCPrice
    Active = {beer}
    MaxInt = 6
    OrderRequests = {r1, r2, r3}
    PaymentRequests = {p1}
    Deliveries = {}
    Commands = {"create", "update"}
    PaymentCommands = {"CASH"}
    Carts <- SmallCarts
    CarefulClients = FALSE
    Failures = FALSE
    MaxOverlap = 1
    Progress = {}
CHECK_DEADLOCK FALSE
PROPERTIES
    FinishedIsFrozen
