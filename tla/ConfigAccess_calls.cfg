\* Two threads; one also saves snapshots without the lock.
SPECIFICATION FairSpec
CONSTANTS
    t1 = t1
    t2 = t2
    Threads <- TwoThreads
    Exchangers = {t1}
    Nobody = Nobody
    MaxVersion = 3
    MaxFaults = 2
    MaxCrashes = 1
INVARIANTS CleanMeansPersisted NeverTorn DiskNotAheadOfMemory
PROPERTIES ImplementsConfigFile CallsReturn
