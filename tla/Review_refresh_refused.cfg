SPECIFICATION ReviewSpec
CONSTANTS
    l1 = l1
    w1 = w1
    w2 = w2
    o1 = o1
    o2 = o2
    d1 = d1
    p1 = p1
    p2 = p2
    Lots <- MCLots
    Workers <- MCOneWorker
    MaxQty = 2
    Orders <- MCOrders
    Dates <- MCDates
    Demand <- MCUnit
    Proposals <- MCProposals
    LotRank <- MCRank
    NoProposal = NoProposal
    NoDate = NoDate
PROPERTY RefusedForAnother
CHECK_DEADLOCK FALSE
