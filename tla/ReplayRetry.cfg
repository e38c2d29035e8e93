\* One failing write whose audit update fails too.
CONSTANTS
    EventIds = {1}
    Amounts = {100}
    Currencies = {"USD"}
    None = None
    Runs = {r1, r2}
    MaxDeadLetters = 1
    MaxFaults = 2
SPECIFICATION Spec
INVARIANTS
    FailedReplayRetryable
