\* Three runs over two records, two faults.
CONSTANTS
    EventIds = {1, 2}
    Amounts = {100}
    Currencies = {"USD"}
    None = None
    Runs = {r1, r2, r3}
    MaxDeadLetters = 2
    MaxFaults = 2
SPECIFICATION Spec
SYMMETRY RunSymmetry
INVARIANTS
    ReplayExclusive
    SucceededWasRepublished
PROPERTIES
    SucceededIsFinal
