\* Two PUTs or creations of ad groups, of five kinds, and two ad groups.
SPECIFICATION CreationMC
CONSTANTS
    Handlers = {h1, h2}
    CampaignIds = {c1, c2}
    AdGroupIds = {g1, g2}
    NoOne = NoOne
    TwoYears = 4
    Divisions = {"north", "south"}
    Requests <- MCGroupRequests
SYMMETRY Symmetry
INVARIANTS
    BudgetTypeSpreads
    GroupsEndWithin

    
