\* One payment and two updates of its status.
CONSTANTS
    EventIds = {1, 2, 3}
    Amounts = {100}
    Currencies = {"USD"}
    None = None
    Keys = {"k1"}
    RawAmounts = {100}
    RawCurrencies = {"USD"}
    Upper <- MCUpper
    MaxErrors = 0
SPECIFICATION Spec
PROPERTIES
    RepeatingStatusAllowed
