\* Two creations or PUTs, of six kinds, on two campaigns with one ad group.
SPECIFICATION CampaignsMC
CONSTANTS
    Handlers = {h1, h2}
    CampaignIds = {c1, c2}
    AdGroupIds = {g1}
    NoOne = NoOne
    TwoYears = 4
    Divisions = {"north", "south"}
    Requests <- MCRequests
SYMMETRY Symmetry
INVARIANTS
    CampaignTypeOK
    
    

    
    
