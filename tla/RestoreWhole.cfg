SPECIFICATION Spec
CONSTANTS
    MaxTime = 4
    MaxBackups = 2
    Hour = 4
    Tolerance = 2
    Offsets <- WholeOffsets
INVARIANTS TypeOK SettingsOutliveRecovery CleanAfterPromote
PROPERTIES PausedStaysPaused PromotesAtTarget FullBackupRemains
