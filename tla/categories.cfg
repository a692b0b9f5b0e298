SPECIFICATION Spec
CONSTANTS
    Null = Null
    NoRow = NoRow
    bar = bar
    shop = shop
    drinks = drinks
    snacks = snacks
    tools = tools
    cola = cola
    chips = chips
    gone = gone
    Organisations = {bar, shop}
    CategoryIds = {drinks, snacks, tools}
    OwnerOf <- MCOwnerOf
    Products = {cola, chips}
    FirstProducts <- MCFirstProducts
    CategoryLists <- MCCategoryLists
    ProductLists <- MCProductLists
    Requests = {r1}
    MaxEdits = 2
CHECK_DEADLOCK FALSE
INVARIANTS
    TypeOK
PROPERTIES
    UntouchedAnswer
