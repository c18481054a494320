SPECIFICATION FairSpec
CONSTANTS
    Texts = {t1, t2}
    FirstText = t1
    LargeTexts = {t2}
    LogCap = 1
    SyncEvery = 2
    PendingCap = 3
    CompactAfter = 1
    MaxRecords = 4
    Chained = FALSE
PROPERTIES
    UnsyncedIsSynced
