CONSTANTS
    s1 = s1
    s2 = s2
    w1 = w1
    k1 = k1
    b1 = b1
    b2 = b2
    Servers <- OneServer
    Workers <- OneWorker
    Keys = {k1}
    Bodies = {b1}
    MaxAttempts = 1
    MaxDeliveries = 1
SPECIFICATION Spec
INVARIANTS
    OnlyReplaysAreDuplicates
