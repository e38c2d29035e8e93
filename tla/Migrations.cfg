\* Two jobs with any of the directories, two faults, the Job's backoffLimit.
CONSTANTS
    Jobs = {1, 2}
    Versions = {1, 2, 3}
    Directories <- MCDirectories
    Installed <- MCInstalled
    None = None
    MaxRetries = 3
    MaxFaults = 2
SPECIFICATION FairSpec
INVARIANTS
    TypeOK
    SchemaMatchesRecord
    DoneIsMigrated
    LockedJobsDoNotClash
PROPERTIES
    AllOrNothing
    EventuallyMigrated
