SPECIFICATION Spec
CONSTANTS
    Null = Null
    beer = beer
    wine = wine
    soda = soda
    Organisations = {org}
    ClientNames = {}
    Products = {beer}
    Price <- MCPrice
    Active = {beer}
    MaxInt = 6
    OrderRequests = {r1}
    PaymentRequests = {p1}
    Deliveries = {d1}
    Commands = {"create", "update", "delete"}
    PaymentCommands = {"PAYCONIQ"}
    Carts <- OneCart
    CarefulClients = TRUE
    Failures = FALSE
    MaxOverlap = 2
    Progress = {"SUCCEEDED"}
CHECK_DEADLOCK FALSE
INVARIANTS
    FailedWebhookIsReported
