SPECIFICATION FlowSpec
CONSTANTS
    l1 = l1
    l2 = l2
    w1 = w1
    r1 = r1
    i1 = i1
    i2 = i2
    o1 = o1
    o2 = o2
    d1 = d1
    d2 = d2
    p1 = p1
    p2 = p2
    Lots <- MCLots
    Workers = {w1}
    MaxQty = 2
    Receipts = {r1}
    Lines <- MCLines
    LineQty <- MCUnitQty
    Tracked <- MCLines
    NoLine = NoLine
    NoReceipt = NoReceipt
    Orders <- MCOrders
    Dates <- MCDates
    Demand <- MCUnitDemand
    Proposals <- MCProposals
    LotRank <- MCRank
    NoProposal = NoProposal
    NoDate = NoDate
SYMMETRY Symmetry
INVARIANT ConfirmedMatchesStock
INVARIANT ConsumedOnce
INVARIANT PendingUnconsumed
INVARIANT ConsumedTraced
INVARIANT OnePendingPerDate
INVARIANT LedgerExact
PROPERTY ConfirmedKept
PROPERTY StockRefined
CHECK_DEADLOCK FALSE
