\* One payment through the whole pipeline: a write of up to two tries, one of
\* which fails or loses its acknowledgement, two failing database calls, a
\* replay that fails or writes twice, two retention runs, on a calendar that starts
\* with the first message and on which every row can grow old enough to be deleted.
CONSTANTS
    EventIds = {1}
    Amounts = {100}
    Currencies = {"USD"}
    None = None
    Publishers = {p1}
    BatchSize = 1
    WriteAttempts = 2
    Partitions = {k1}
    PartitionOf <- MCPartitionOf
    Consumers = {c1}
    MaxAttempts = 1
    Replays = {r1, r2}
    Sweeps = {s1, s2}
    SweepBatch = 1
    OutboxRetention = 1
    ConsumedRetention = 3
    ReplayRetention = 1
    TopicRetention = 1
    ReplayWindow = 0
    IncidentWindow = 0
    MaxDays = 4
    MaxWriteErrors = 1
    MaxLedgerDbErrors = 2
    MaxRebalances = 0
    MaxReplayFaults = 1
    MaxSweepFaults = 1
SYMMETRY PipelineSymmetry
CONSTRAINT FirstDay
SPECIFICATION Spec
CHECK_DEADLOCK FALSE
INVARIANTS
    AccountedFor
    ReplayedOnce
    BalancesAddUp
PROPERTIES
    ImplementsPaymentLedger
