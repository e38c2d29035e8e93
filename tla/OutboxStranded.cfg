\* One process stops once.
CONSTANTS
    EventIds = {1, 2}
    Amounts = {100}
    Currencies = {"USD"}
    None = None
    Publishers = {p1, p2}
    BatchSize = 1
    WriteAttempts = 1
    Unwritable = {}
    Partitions = {0, 1}
    PartitionOf <- MCPartitionOf
    MaxStops = 1
    MaxClaimErrors = 0
    MaxDbErrors = 0
    MaxWriteErrors = 0
    MaxRefusals = 0
SPECIFICATION FairSpec
PROPERTIES
    EventuallyDelivered
