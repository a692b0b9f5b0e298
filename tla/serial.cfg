SPECIFICATION Spec
CONSTANTS
    Null = Null
    beer = beer
    wine = wine
    soda = soda
    Organisations = {org, other}
    ClientNames = {ann}
    Products = {beer, wine, soda}
    Price <- MCPrice
    Active = {beer, wine}
    MaxInt = 6
    OrderRequests = {r1, r2, r3}
    PaymentRequests = {p1, p2}
    Deliveries = {}
    Commands = {"create", "update", "delete"}
    PaymentCommands = {"CASH"}
    Carts <- AllCarts
    CarefulClients = TRUE
    Failures = FALSE
    MaxOverlap = 1
    Progress = {}
SYMMETRY Symmetry
CHECK_DEADLOCK FALSE
INVARIANTS
    PaymentKeepsOrganisation
    TotalMatchesItems
    UniqueOpenNames
    CashPaysTheTotal
    AmountsStorable
PROPERTIES
    UpdateAnswersItsLines
    FinishedKeepsItems
