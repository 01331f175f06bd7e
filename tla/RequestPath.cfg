SPECIFICATION MCSpec
CONSTANTS
    None = None
    r1 = r1
    r2 = r2
    r3 = r3
    ann = ann
    ben = ben
    sue = sue
    kiosk = kiosk
    zoe = zoe
    app = app
    portal = portal
    acme = acme
    brown = brown
    agency = agency
    Requests = {r1, r2, r3}
    Clients = {app, portal, "default"}
    Users = {ann, ben, sue, kiosk, zoe}
    Revocable = {ann}
    Colleagues = {sue, kiosk}
    SystemUser <- MCSystemUser
    Mixes <- MCMixes
    Profile <- MCProfile
    AccessBefore <- MCAccessBefore
    RolesOf <- MCRolesOf
    Limit = 2
    Window = 2
    Repairs = {2}
    Sheds = {1}
    Trims = {1, 2}
    Shares = {2, 3}
    Pause = 1
    MaxAttempts = 8
    MaxFaults = 1
    MaxTokenTries = 2
INVARIANTS
    
    WindowHolds
    EntitledOnly
    
PROPERTY
    WaitersGetIn
