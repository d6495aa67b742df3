SPECIFICATION EvidenceSpec
CONSTANTS
    MaxBytes = 2
    Backups = 2
    Attempts = 1
    Issues = {"watch_path_unreadable"}
    MaxRecords = 12
    MaxFaults = 2
INVARIANTS
    EvidenceTypes
    LogIsSound
    HealthIsTrue
CHECK_DEADLOCK FALSE
