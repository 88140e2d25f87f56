SPECIFICATION StoreSpec
CONSTANTS
    ArchiveThreshold = 2
    MaxVersion = 4
    MaxEntities = 2
    MaxFaults = 2
    MaxRestarts = 3
INVARIANTS
    SavedIsLoadable
PROPERTIES
    ChangesGetSaved
CHECK_DEADLOCK FALSE
