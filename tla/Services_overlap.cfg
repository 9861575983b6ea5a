SPECIFICATION ServicesSpec
CONSTANTS
    o1 = o1
    o2 = o2
    Grants = {g1, g2}
    DOrders <- MCOrders
    DWorkers = {w1, w2}
    Required = 1
    NoGrant = NoGrant
    NoDOrder = NoDOrder
    NoHolder = NoHolder
    Tokens = {t1, t2, t3}
    Logins = {n1, n2}
    TWorkers = {w1, w2}
    MaxVersion = 2
    NoToken = NoToken
    NoLogin = NoLogin
    Assets = {a1, a2}
    Rows = {r1, r2}
    AWorkers = {w1, w2}
    MaxFiles = 1
    NoAsset = NoAsset
    Horizon = 20
    NoDate = NoDate
    Catalogues <- MCCatalogues
    Areas <- MCAreas
    TaxRates <- MCTaxRates
    Offers <- MCOffers
    NoOffer = NoOffer
    MaxCookies = 2
    MaxPacks = 2
    MinPack = 1
    MaxPack = 4
    CookieCost = 40
    PackCost = 25
    POrders <- MCOrders
    Contents <- MCContents
    Recipes = {0, 3}
    Yield = 4
    NoReview = NoReview
    PWorkers = {w1, w2}
    Flour = Flour
    Box = Box
    NoItem = NoItem
    Profiles = {1, 2}
    NoProfile = 0
    CWorkers = {w1, w2}
    MaxOrders = 2
    MaxHomes = 3
    HWorkers = {w1, w2}
INVARIANT ServicesTypeOK
INVARIANT DiscountsSettled
INVARIANT HeldActive
INVARIANT EndedForGood
INVARIANT OneLivePerLogin
INVARIANT FilesBounded
INVARIANT FileLossAccounted
INVARIANT PromisedBatch
INVARIANT NeverOvertaken
INVARIANT BillAddsUp
INVARIANT AmountsAsAnew
INVARIANT StatusKept
 
INVARIANT AccountUsable
INVARIANT DefaultKept
PROPERTY RequestsEnd
CHECK_DEADLOCK FALSE
