CONSTANTS
    Thread = {t1, t2, t3}
    Key = {k1, k2, k3}
    CacheMax = 2
SPECIFICATION Spec
INVARIANTS TypeOK NoWaiterForgotten
PROPERTIES CallsReturn
