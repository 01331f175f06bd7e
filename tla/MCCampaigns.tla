---------------------------- MODULE MCCampaigns ----------------------------
(* Two requests, one after the other or together, on two campaigns, of     *)
(* which one or both are there: creations and PUTs, in CampaignsMC, PUTs   *)
(* and creations of ad groups, in CreationMC.                              *)
EXTENDS AdGroupCreation

Ask(o, s, n, b, e, p) ==
    [op |-> o, status |-> s, name |-> n, budget |-> b, end |-> e, po |-> p,
     user |-> "client", address |-> "CPG", contact |-> "CPG", targets |-> {}]

By(r, u, a, c) == [r EXCEPT !.user = u, !.address = a, !.contact = c]

For(e, t) == [Ask("post", "same", "new", "same", e, "absent") EXCEPT !.targets = t]

MCRequests ==
    {By(Ask("create", "DRAFT", "new", "LIFETIME", 3, "number"), "agency", "CPG", "CPG"),
     By(Ask("create", "DRAFT", "new", "DAILY", NoDate, "absent"), "agency", "AGENCY", "CPG"),
     By(Ask("create", "DRAFT", "new", "DAILY", NoDate, "absent"), "agency", "AGENCY", "stranger")}
    \cup {Ask("put", "ACTIVE", "kept", "same", 2, "absent"),
          Ask("put", "PAUSED", "kept", "same", NoDate, "absent"),
          By(Ask("put", "DRAFT", "new", "DAILY", NoDate, "number"), "agency", "CPG", "CPG")}

MCGroupRequests ==
    {Ask("put", "same", "new", "LIFETIME", 3, "number"),
     Ask("put", "ACTIVE", "kept", "same", 2, "absent")}
    \cup {For(NoDate, {Placement("Search"), Hours(0, 8)}),
          For(3, {Placement("Search"), Placement("Savings"), DivisionTarget("north")}),
          For(NoDate, {DivisionTarget("north"), Hours(8, 8)})}

Finished ==
    /\ \A h \in Handlers : step[h] = "over"
    /\ UNCHANGED allVars

(* The campaign is always on or has a lifetime budget; it is not in the    *)
(* look-up only when both campaigns are there.                             *)
CampaignsMCInit ==
    /\ CreationInit
    /\ cKnown = {} => \A c \in CampaignIds : cStatus[c] # "none"
    /\ \A c \in CampaignIds : cEnd[c] # NoDate <=> cBudget[c] = "CUSTOM"

CampaignsMC == CampaignsMCInit /\ [][CreationNext \/ Finished]_allVars

CreationMC == CreationInit /\ [][CreationNext \/ Finished]_allVars

Symmetry == Permutations(Handlers) \cup Permutations(AdGroupIds) \cup Permutations(CampaignIds)
=============================================================================
