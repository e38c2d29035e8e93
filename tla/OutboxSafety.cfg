\* Two publishers, every kind of fault possible once.
CONSTANTS
    EventIds = {1, 2, 3}
    Amounts = {100}
    Currencies = {"USD"}
    None = None
    Publishers = {p1, p2}
    BatchSize = 2
    WriteAttempts = 2
    Unwritable = {1}
    Partitions = {0, 1}
    PartitionOf <- MCPartitionOf
    MaxStops = 1
    MaxClaimErrors = 1
    MaxDbErrors = 1
    MaxWriteErrors = 1
    MaxRefusals = 1
SPECIFICATION FairSpec
INVARIANTS
    TypeOK
    ClaimsExclusive
    PublishedWasDelivered
    CopiesWithinAttempts
    StrandedNeedsFault
PROPERTIES
    PublishedIsFinal
    StrandedForever
    DeliveredOrStranded
