CONSTANTS
    s1 = s1
    s2 = s2
    w1 = w1
    k1 = k1
    b1 = b1
    b2 = b2
    Servers <- OneServer
    Workers <- OneWorker
    Keys = {k1}
    Bodies = {b1, b2}
    MaxAttempts = 1
    MaxDeliveries = 2
SPECIFICATION Spec
INVARIANTS
    ChangedBodyIsConflict
