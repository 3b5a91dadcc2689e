CONSTANTS
    o1 = o1
    o2 = o2
    o3 = o3
    w1 = w1
    w2 = w2
    NoObj = NoObj
    Objs <- MCObjs
    Workers <- MCNoWorkers
    Stashed <- MCStashed
    MaxApplyRetries = 2

SPECIFICATION Spec
PROPERTY CleanShutdown

CHECK_DEADLOCK FALSE
