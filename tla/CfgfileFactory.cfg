\* Three configurations, one static module file, two files in error at a time.
CONSTANTS
    Config = {c1, c2, c3}
    Foreign = {system}
    MaxFaults = 2
SPECIFICATION FSpec
INVARIANTS FTypeOK CacheOnDisk NothingLeftBehind ForeignKept
PROPERTIES ReloaderCatchesUp KeepsFactoryPromise
