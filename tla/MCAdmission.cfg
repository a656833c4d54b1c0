CONSTANTS
    Requests = {r1, r2}
    NoRequest = NoRequest
    Operations = {"send", "record_receipt", "get_delivery"}
    t1 = t1
    Users = {alice}
    Services = {}
    PSK = PSK
    Nothing = Nothing
    Nobody = Nobody
    Tenants = {t1, t2}
    NoTenant = NoTenant
    TenantOf <- HomeTenant
    NoKey = NoKey
    Keys = {k1, k2}
    PSKRoutes = {"record_receipt"}
    SkippedRoutes = {"record_receipt", "get_delivery"}
    Burst <- BurstValue
    MaxRefills = 1
    MaxErrors = 1
SYMMETRY Symmetry
SPECIFICATION Spec
INVARIANTS
    TypeOK
    EffectsAreEntitled
    BudgetsAreGuarded
    
    RetriesAreFree
    RefusalsAreTrue
CHECK_DEADLOCK FALSE
