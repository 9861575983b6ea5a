SPECIFICATION PaymentSpec
CONSTANTS
    o1 = o1
    o2 = o2
    w1 = w1
    w2 = w2
    t1 = t1
    t2 = t2
    Orders <- MCOrders
    Workers <- MCOneWorker
    Txns <- MCTxns
    Unreferenced <- MCUnreferenced
    Removable = {}
    MaxPages = 2
    NoOrder = NoOrder
    NoTxn = NoTxn
INVARIANT OnlyDuplicatesIgnored
CHECK_DEADLOCK FALSE
