\* Three concurrent calls of any kind, of which one may fail.
CONSTANTS
    EventIds = {1, 2, 3}
    Amounts = {100, 200}
    Currencies = {"USD"}
    None = None
    Keys = {"k1"}
    RawAmounts = {0, 100, 200}
    RawCurrencies = {"usd", "USD", "us"}
    Upper <- MCUpper
    MaxErrors = 1
SPECIFICATION FairSpec
INVARIANTS
    TypeOK
    RetrySafe
    ConflictIsReal
    OutboxMatchesPayments
    UpdateHolds
PROPERTIES
    ImplementsPaymentLedger
    EventuallyAnswered
