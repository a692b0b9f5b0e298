SPECIFICATION CalmSpec
CONSTANTS
    Null = Null
    bar = bar
    eve = eve
    Users = {ann, eve}
    Organisations = {bar}
    OrganisationOf <- MCOrganisationOf
    Devices = {phone, till}
    Requests = {r1, r2, r3}
    MaxOverlap = 1
CHECK_DEADLOCK FALSE
INVARIANTS
    DestroyedIsGone
PROPERTIES
    LoginGivesSession
    ActiveStaysLoggedIn
    DeactivatedLosesSession
