----------------------------- MODULE MCReports -----------------------------
(* Up to three requests that have something to do with each other.         *)
EXTENDS Reports

CONSTANTS q1, q2, q3, acme, brown, agency, kim, lee, hq, depot, soda, soap, shelf, basket,
          Shelf, Basket, spring, summer, autumn, g1

From(list, a, b, g) ==
    [kind |-> list, account |-> a, brands |-> b, agency |-> g]

Contacts(a, g) == From("contacts", a, << >>, g)
Addresses(a, g) == From("addresses", a, << >>, g)
Advertisers(a) == From("advertisers", a, << >>, None)
Shown(b) == From("campaign", None, b, None)
Koddi(b, g) == From("koddi", None, b, g)
AllPlacements == From("placements", None, << >>, None)
Nobody == From("none", None, << >>, None)

Report(b, c, g) ==
    [kind |-> "report", account |-> None, brands |-> b, agency |-> g, campaigns |-> c,
     access |-> {soda, soap}, experience |-> "PLA", start |-> 1, end |-> 1,
     fields |-> {"clicks"}, filteredBy |-> {"clicks"}, sortedBy |-> {}]

Mix(a, b, c) == (q1 :> a) @@ (q2 :> b) @@ (q3 :> c)

MCMixes ==
    {Mix(Contacts(acme, None), Contacts(brown, agency), Contacts(acme, None)),
     Mix(Addresses(acme, None), Addresses(brown, agency), Nobody),
     Mix(Advertisers(acme), Shown(<<soap, soda>>), Advertisers(acme)),
     Mix(Koddi(<<soda>>, agency), Koddi(<<soda>>, agency), Koddi(<<soda>>, None)),
     Mix(Koddi(<<soda, soap>>, None), Koddi(<<soap, soda>>, None), Koddi(<<soap>>, None)),
     Mix(AllPlacements, AllPlacements, Nobody),
     Mix(Advertisers(acme), Report({soda}, <<2, 3>>, None), [Report({soda}, <<3>>, None) EXCEPT !.fields = {}]),
     Mix(Advertisers(acme), Report({soda}, <<2, 3>>, None), Report({soda}, <<3, 1>>, None)),
     Mix(Advertisers(acme), Report({soda, soap}, <<3, 3>>, None), Report({soda}, << >>, None)),
     Mix(Contacts(brown, agency), Contacts(brown, None), Contacts(acme, agency)),
     Mix(Addresses(acme, None), Addresses(brown, agency), Addresses(acme, agency)),
     Mix(Shown(<<soda>>), Koddi(<<soda>>, agency), Report({soda}, << >>, agency))}

MCContactsOf == (acme :> <<kim>>) @@ (brown :> <<kim, lee>>) @@ (agency :> <<lee>>) @@ (None :> << >>)
MCAddressesOf == (acme :> <<hq, depot>>) @@ (brown :> <<depot>>) @@ (agency :> <<hq>>)
MCBrandsOf == (acme :> <<soda, soap>>) @@ (brown :> <<soap>>)
MCPlacements == <<shelf, basket>>
MCPlacementName == (shelf :> Shelf) @@ (basket :> Basket)
MCKoddiBefore == <<[brands |-> {soda}, agency |-> None, by |-> None]>>

Upstream(t, l, s, k) == [type |-> t, long |-> l, short |-> s, koddi |-> k]

MCEntities == {Upstream("CAMPAIGN", spring, 1, 7), Upstream("CAMPAIGN", summer, 2, 1),
               Upstream("CAMPAIGN", autumn, 3, 9),
               Upstream("AD_GROUP", g1, 5, 8)}

MCPartneredBefore == {e \in MCEntities : e.long \in {spring, g1}}

MCUnfit == [PLA |-> {}, TOA |-> {"time_live", "keyword"}]

Finished == Running = {} /\ UNCHANGED vars

MCSpec == ReportInit /\ [][Next \/ Finished]_vars
=============================================================================
