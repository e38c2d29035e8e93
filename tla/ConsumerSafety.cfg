\* Two payments and a message without event id, delivered up to three times, on
\* two partitions, with every kind of fault.
CONSTANTS
    EventIds = {1, 2}
    Amounts = {100, 200}
    Currencies = {"USD"}
    None = None
    Consumers = {c1, c2}
    Partitions = {0, 1}
    PartitionOf <- MCPartitionOf
    Incoming <- TwoPayments
    MaxMessages = 3
    MaxAttempts = 2
    MaxStops = 1
    MaxRebalances = 1
    MaxDbErrors = 2
    MaxKafkaErrors = 1
SPECIFICATION Spec
SYMMETRY ConsumerSymmetry
INVARIANTS
    TypeOK
    BookedAtMostOnce
    ConsumedIffBooked
    NoSilentLoss
    DeadLetteredAfterAttempts
    ReadsAreWhole
