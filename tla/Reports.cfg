\* Up to three requests, one account with two brands and one agency.
SPECIFICATION MCSpec
CONSTANTS
    q1 = q1
    q2 = q2
    q3 = q3
    acme = acme
    brown = brown
    agency = agency
    kim = kim
    lee = lee
    hq = hq
    depot = depot
    soda = soda
    soap = soap
    shelf = shelf
    basket = basket
    Shelf = Shelf
    Basket = Basket
    spring = spring
    summer = summer
    autumn = autumn
    g1 = g1
    None = None
    Clients = {q1, q2, q3}
    Mixes <- MCMixes
    ContactsOf <- MCContactsOf
    AddressesOf <- MCAddressesOf
    BrandsOf <- MCBrandsOf
    Corporate = {depot}
    Verified = {hq, depot}
    Placements <- MCPlacements
    PlacementName <- MCPlacementName
    KoddiBefore <- MCKoddiBefore
    Named = {kim, lee, hq, depot, soda, soap, shelf, basket}
    Entities <- MCEntities
    PartneredBefore <- MCPartneredBefore
    Metrics = {"clicks", "time_live"}
    Dimensions = {"campaign_id", "keyword"}
    Unfit <- MCUnfit
INVARIANTS
    ReportTypeOK
    
    AccountsAreKept
    
    FilterCovers
    
