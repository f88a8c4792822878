SPECIFICATION FairSpec
CONSTANTS
    Daemon = {d1, d2}
    Cli = {c1}
    None = None
    Torn = Torn
    MaxKeys = 2
    MaxWrites = 1
    MaxFaults = 2
INVARIANT OneRepository
PROPERTY OpenMetaStays
PROPERTY KeyAndBackupSuffice
