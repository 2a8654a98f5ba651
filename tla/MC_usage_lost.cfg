SPECIFICATION Spec
CONSTANTS
    t1 = t1
    t2 = t2
    t3 = t3
    Tasks <- MCTasks
    Keys <- MCKeys
    Costs <- MCCosts
    Configs <- StoppingConfigs
CHECK_DEADLOCK FALSE
INVARIANT ShutdownKeepsQueue
