SPECIFICATION WorkersFairSpec
CONSTANTS
    Null = Null
    bar = bar
    eve = eve
    Users = {ann}
    Organisations = {bar}
    OrganisationOf <- MCOrganisationOf
    Devices = {phone}
    Requests = {r1, r2}
    MaxOverlap = 2
    WorkerIds = {w1, w2}
    RedisErrors = {e1}
    Configs <- MCConfigs
CHECK_DEADLOCK FALSE
INVARIANTS
    WorkersTypeOK
    SessionComesFromLogin
    RequestLinesTellOutcome
PROPERTIES
    EveryRequestEnds
