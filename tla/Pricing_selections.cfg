SPECIFICATION PricingSpec
CONSTANTS
    Catalogues <- MCCatalogues
    Areas <- MCAreas
    TaxRates <- MCTaxRates
    Offers <- MCOffers
    NoOffer = NoOffer
    MaxCookies = 2
    MaxPacks = 2
    MinPack = 1
    MaxPack = 4
    CookieCost = 40
    PackCost = 25
PROPERTY SelectionsKept
CHECK_DEADLOCK FALSE
