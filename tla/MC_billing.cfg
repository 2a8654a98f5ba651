SPECIFICATION FairSpec
CONSTANTS
    t1 = t1
    t2 = t2
    t3 = t3
    Tasks <- MCTasks
    Keys <- MCKeys
    Costs <- MCCosts
    Configs <- MCConfigs
CHECK_DEADLOCK FALSE
INVARIANTS TypeOK SkippedWasCharged QuotaNoticed CacheTracksBalance ProbeUnderWay GracefulShutdownKeepsUsage
PROPERTIES LedgerSpec UsageSettles MoneyIsAdmitted
