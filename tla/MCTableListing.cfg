SPECIFICATION ListingSpec
CONSTANTS
    Catalogs <- MCCatalogs
    Asks <- MCAsks
    MaxCatalogChanges = 2
    MaxListingFaults = 1
INVARIANTS ListingTypeOK ListingExact ListingErrorsHaveReason
CHECK_DEADLOCK FALSE
