SPECIFICATION Spec
CONSTANTS
    Null = Null
    beer = beer
    wine = wine
    soda = soda
    Organisations = {org}
    ClientNames = {}
    Products = {beer, wine}
    Price <- MCPrice
    Active = {beer, wine}
    MaxInt = 6
    OrderRequests = {r1}
    PaymentRequests = {p1, p2, p3}
    Deliveries = {d1, d2}
    Commands = {"create"}
    PaymentCommands = {"CASH", "PAYCONIQ", "CANCEL"}
    Carts <- OneCart
    CarefulClients = FALSE
    Failures = TRUE
    MaxOverlap = 2
    Progress = {"IDENTIFIED", "SUCCEEDED", "EXPIRED"}
SYMMETRY Symmetry
CHECK_DEADLOCK FALSE
INVARIANTS
    TypeOK
    RowAgreesWithPayconiq
PROPERTIES
    PaymentsAreKept
