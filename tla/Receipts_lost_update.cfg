SPECIFICATION ReceiptSpec
CONSTANTS
    l1 = l1
    l2 = l2
    w1 = w1
    w2 = w2
    r1 = r1
    i1 = i1
    i2 = i2
    i3 = i3
    Lots <- MCLots
    Workers <- MCTwoWorkers
    MaxQty = 2
    Receipts = {r1}
    Lines <- MCLines
    LineQty <- MCUnitQty
    Tracked <- MCLines
    NoLine = NoLine
    NoReceipt = NoReceipt
INVARIANT LedgerExact
CHECK_DEADLOCK FALSE
