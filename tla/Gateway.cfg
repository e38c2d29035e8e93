\* Two requests at a time across the boundary of a window; one process stops.
CONSTANTS
    Clients = {"a"}
    Limit = 2
    Window = 2
    MaxTime = 3
    Slots = {r1, r2}
    RequestKinds <- MCRequestKinds
    PaymentTarget <- PathOfApi
    LedgerTarget <- NoPath
    GatewayToken = "token"
    ServiceToken = "token"
    MaxStops = 1
    None = None
SPECIFICATION Spec
INVARIANTS
    LessThanTwiceLimit
    RefusedOnlyWhenExhausted
    AnswersAreHonest
