SPECIFICATION CalmSpec
CONSTANTS
    Null = Null
    bar = bar
    eve = eve
    Users = {ann, eve}
    Organisations = {bar}
    OrganisationOf <- MCOrganisationOf
    Devices = {phone}
    Requests = {r1, r2, r3}
    MaxOverlap = 2
CHECK_DEADLOCK FALSE
INVARIANTS
    DestroyedIsGone
