\* The documented endpoints under the shipped configuration: PAYMENT_SERVICE_URL
\* has no path.
CONSTANTS
    Clients = {"a"}
    Limit = 2
    Window = 2
    MaxTime = 2
    Slots = {r1}
    RequestKinds <- AllEndpoints
    PaymentTarget <- NoPath
    LedgerTarget <- NoPath
    GatewayToken = "token"
    ServiceToken = "token"
    MaxStops = 0
    None = None
SPECIFICATION Spec
INVARIANTS
    DocumentedEndpointsServed
