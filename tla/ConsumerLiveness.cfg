\* Messages of every kind; the database fails less often than a message has attempts.
CONSTANTS
    EventIds = {1, 2}
    Amounts = {100}
    Currencies = {"USD"}
    None = None
    Consumers = {c1, c2}
    Partitions = {0}
    PartitionOf <- MCPartitionOf
    Incoming <- MixedEvents
    MaxMessages = 2
    MaxAttempts = 2
    MaxStops = 1
    MaxRebalances = 1
    MaxDbErrors = 1
    MaxKafkaErrors = 1
SPECIFICATION FairSpec
PROPERTIES
    EventuallySettled
    EventuallyBooked
