-------------------------- MODULE AdGroupCreation --------------------------
(***************************************************************************)
(* The requests that create ad groups ("post", POST /ad_groups,            *)
(* create_ad_group) and list them, beside those of Campaigns.  A creation  *)
(* does not take the campaign's lock: it reads the campaign, makes a       *)
(* location group of the divisions asked for, or of all of them, makes the *)
(* activation, approves and publishes it and reads it back, each a call    *)
(* that may fail and leaves behind what the calls before it made.  (The    *)
(* bid group made before the location group is that of ProductIds.)        *)
(***************************************************************************)
EXTENDS Campaigns, AdGroupTargets, FiniteSetsExt

CONSTANT Divisions

(* A target has an id or, for day parting, a first and a last hour.        *)
ASSUME TargetsAssumption ==
    \A r \in Requests : r.op = "post" =>
        \A t \in r.targets :
            /\ t.type = 1 => t = Placement(t.id)
            /\ t.type = 2 => t = DivisionTarget(t.id)
            /\ t.type = 3 => t = Hours(t.values[1], t.values[2])

VARIABLES
    dNumbered,  \* the divisions that have a short id in Redis
    dDetailed,  \* those that have their details under it
    located,    \* the divisions a request gives ids, then those of its location group
    agTargets   \* the targets of the ad groups, upstream

targetVars == <<dNumbered, dDetailed, located, agTargets>>
allVars == <<vars, targetVars>>

GroupStates == {"none", "DRAFT", "ACTIVE", "UNDER REVIEW", "ENDED"}

(* validate_ad_group_request_single_call: the ad group ends within the     *)
(* campaign, and only an always-on campaign has always-on ad groups.       *)
FitsCampaign(r, s) == s.end # NoDate => r.end # NoDate /\ r.end <= s.end

(* The budget type of the new activation is the campaign's, with capitals  *)
(* that never compare equal to LIFETIME: it is not written as CUSTOM.      *)
NewGroupBudget(s) == s.budget

TargetsOf(h) == FetchTargets(want[h].targets)

(* A client only knows the divisions that have an id.                      *)
BeginPost(h) ==
    /\ \E r \in Requests : /\ r.op = "post"
                          /\ FetchTargets(r.targets).divisions \subseteq dNumbered
                          /\ Begin(h, r)
    /\ UNCHANGED targetVars

(* Mutant of ReadForGroup: the dates are not compared.                     *)
ReadForGroupOnly(h) ==
    LET c == about[h]
    IN  /\ At(h, "campaign")
        /\ IF c \in cKnown /\ ValidTargets(TargetsOf(h))
           THEN /\ seen' = [seen EXCEPT ![h] = View(c)]
                /\ Continue(h, IF TargetsOf(h).divisions = {} THEN "number divisions" ELSE "location group")
                /\ UNCHANGED <<updated, todo>>
           ELSE Answer(h, FALSE)
        /\ UNCHANGED <<campaignVars, groupVars, cacheVars, requestVars, historyVars, targetVars>>

(* The campaign is read, its long id looked up in Redis only (404), and    *)
(* the request compared with it.                                           *)
ReadForGroup(h) ==
    LET c == about[h]
    IN  /\ At(h, "campaign")
        /\ IF c \in cKnown /\ FitsCampaign(want[h], View(c)) /\ ValidTargets(TargetsOf(h))
           THEN /\ seen' = [seen EXCEPT ![h] = View(c)]
                /\ Continue(h, IF TargetsOf(h).divisions = {} THEN "number divisions" ELSE "location group")
                /\ UNCHANGED <<updated, todo>>
           ELSE Answer(h, FALSE)
        /\ UNCHANGED <<campaignVars, groupVars, cacheVars, requestVars, historyVars, targetVars>>

(* get_divisions, when no division was asked for: those without a short id *)
(* get one,                                                                *)
NumberDivisions(h) ==
    /\ At(h, "number divisions")
    /\ located' = [located EXCEPT ![h] = Divisions \ dNumbered]
    /\ dNumbered' = Divisions
    /\ Goto(h, IF dNumbered = Divisions THEN "location group" ELSE "detail divisions")
    /\ UNCHANGED <<campaignVars, groupVars, cacheVars, requestVars, historyVars,
                   dDetailed, agTargets>>

(* ... and then those that had none get their details: a division whose    *)
(* details were lost in between never gets them.                           *)
DetailDivisions(h) ==
    /\ At(h, "detail divisions")
    /\ dDetailed' = dDetailed \cup located[h]
    /\ Goto(h, "location group")
    /\ UNCHANGED <<campaignVars, groupVars, cacheVars, requestVars, historyVars,
                   dNumbered, located, agTargets>>

(* build_location_group                                                    *)
MakeLocationGroup(h) ==
    LET asked == TargetsOf(h).divisions
    IN  /\ At(h, "location group")
        /\ located' = [located EXCEPT ![h] =
                          LocationGroup(IF asked = {} THEN Divisions ELSE asked, dDetailed)]
        /\ Goto(h, "activation")
        /\ UNCHANGED <<campaignVars, groupVars, cacheVars, requestVars, historyVars,
                       dNumbered, dDetailed, agTargets>>

(* create_activation, build_activation_payload                             *)
CreateActivation(h) ==
    /\ At(h, "activation")
    /\ \E g \in AdGroupIds :
          /\ agHome[g] = NoOne
          /\ agHome' = [agHome EXCEPT ![g] = about[h]]
          /\ agBudget' = [agBudget EXCEPT ![g] = NewGroupBudget(seen[h])]
          /\ agEnd' = [agEnd EXCEPT ![g] = want[h].end]
          /\ agStatus' = [agStatus EXCEPT ![g] = "DRAFT"]
          /\ agTargets' = [agTargets EXCEPT ![g] = TargetData(TargetsOf(h), located[h])]
          /\ todo' = [todo EXCEPT ![h] = {g}]
    /\ Continue(h, "approve")
    /\ UNCHANGED <<campaignVars, cacheVars, requestVars, seen, updated, historyVars,
                   dNumbered, dDetailed, located>>

(* __approve_and_publish_ad_group: an activation with warnings or errors   *)
(* stays a draft, another is approved or comes under review.               *)
Approve(h) ==
    /\ At(h, "approve")
    /\ \E s \in {"DRAFT", "ACTIVE", "UNDER REVIEW"} :
          agStatus' = [g \in AdGroupIds |-> IF g \in todo[h] THEN s ELSE agStatus[g]]
    /\ Goto(h, "answer group")
    /\ UNCHANGED <<campaignVars, agHome, agBudget, agEnd, cacheVars, requestVars, historyVars, targetVars>>

(* get_ad_group_by_id: the short id of the new ad group must be in the     *)
(* look-up, into which this request did not write it; else 404, with the   *)
(* ad group made and perhaps published.                                    *)
AnswerGroup(h) ==
    /\ At(h, "answer group")
    /\ Answer(h, todo[h] \subseteq agKnown)
    /\ UNCHANGED <<campaignVars, groupVars, cacheVars, requestVars, historyVars, targetVars>>

(* get_ad_groups_by_campaign_id saves the ids of what it lists.            *)
ListAdGroups(c) ==
    /\ c \in cKnown
    /\ agKnown' = agKnown \cup GroupsOf(c)
    /\ agKnown' # agKnown
    /\ UNCHANGED <<secVars, campaignVars, groupVars, cKnown, requestVars, localVars, step,
                   disturbed, overran, historyVars, targetVars>>

CreationInit ==
    /\ SectionInit
    /\ \E c \in CampaignIds, s \in {"DRAFT", "ACTIVE", "PAUSED"}, b \in {"DAILY", "CUSTOM"},
          end \in {NoDate, StartDate + 2}, groups \in kSubset(0, AdGroupIds) \cup kSubset(1, AdGroupIds),
          all \in BOOLEAN :
          /\ b = "CUSTOM" => end # NoDate
          /\ all => s = "DRAFT" /\ groups = {}
          /\ cStatus = [d \in CampaignIds |-> IF d = c \/ all THEN s ELSE "none"]
          /\ cBudget = [d \in CampaignIds |-> IF d = c THEN b ELSE "DAILY"]
          /\ cEnd = [d \in CampaignIds |-> IF d = c THEN end ELSE NoDate]
          /\ cKnown \in SUBSET {c}
          /\ agHome = [g \in AdGroupIds |-> IF g \in groups THEN c ELSE NoOne]
          /\ agBudget = [g \in AdGroupIds |-> b]
          /\ agEnd \in [AdGroupIds -> {NoDate, StartDate + 1}]
          /\ \A g \in AdGroupIds :
                IF g \in groups THEN end # NoDate => agEnd[g] # NoDate ELSE agEnd[g] = NoDate
          /\ agStatus = [g \in AdGroupIds |-> IF g \in groups THEN "DRAFT" ELSE "none"]
    /\ cPo = [c \in CampaignIds |-> [p \in Payers |-> "empty"]]
    /\ cAddresses = [d \in CampaignIds |-> IF cStatus[d] = "none" THEN <<>> ELSE AddressList("CPG")]
    /\ cWriter = [c \in CampaignIds |-> NoOne]
    /\ cFaulty = {} /\ cSummary = {} /\ cLive = {} /\ agKnown = {}
    /\ want = [h \in Handlers |-> NoRequest]
    /\ step = [h \in Handlers |-> "idle"]
    /\ about = [h \in Handlers |-> NoOne]
    /\ seen = [h \in Handlers |-> NoView]
    /\ updated = [h \in Handlers |-> "none"]
    /\ todo = [h \in Handlers |-> {}]
    /\ dNumbered = {} /\ dDetailed = {}
    /\ located = [h \in Handlers |-> {}]
    /\ agTargets = [g \in AdGroupIds |-> NoTargetData]
    /\ disturbed = {} /\ overran = {} /\ torn = {} /\ shortened = {} /\ mistakes = {}

CreationNext ==
    \/ \E h \in Handlers :
          \/ CampaignStep(h) /\ UNCHANGED targetVars
          \/ BeginPost(h)
          \/ ReadForGroup(h)
          \/ NumberDivisions(h)
          \/ DetailDivisions(h)
          \/ MakeLocationGroup(h)
          \/ CreateActivation(h)
          \/ Approve(h)
          \/ AnswerGroup(h)
    \/ \E c \in CampaignIds : ListAdGroups(c)
    \/ LookupFilled /\ UNCHANGED targetVars
    \/ CampaignEnds /\ UNCHANGED targetVars

CreationSpec == CreationInit /\ [][CreationNext]_allVars
-----------------------------------------------------------------------------
Quiet == Running = {}

(* The types; a request in the campaign's section is a PUT, and the steps  *)
(* after a start know their campaign.                                      *)
CampaignTypeOK ==
    /\ cStatus \in [CampaignIds -> CampaignStates]
    /\ cBudget \in [CampaignIds -> UpstreamBudgets]
    /\ cEnd \in [CampaignIds -> Nat]
    /\ cPo \in [CampaignIds -> [Payers -> PoNumbers]]
    /\ cWriter \in [CampaignIds -> Handlers \cup {NoOne}]
    /\ cFaulty \cup cSummary \cup cLive \cup cKnown \cup torn \cup shortened \subseteq CampaignIds
    /\ agHome \in [AdGroupIds -> CampaignIds \cup {NoOne}]
    /\ agBudget \in [AdGroupIds -> UpstreamBudgets]
    /\ agEnd \in [AdGroupIds -> Nat]
    /\ agStatus \in [AdGroupIds -> GroupStates]
    /\ agKnown \subseteq AdGroupIds
    /\ dDetailed \subseteq dNumbered /\ dNumbered \subseteq Divisions
    /\ located \in [Handlers -> SUBSET Divisions]
    /\ step \in [Handlers -> Steps]
    /\ \A h \in Running : step[h] \notin {"start", "lock"} => about[h] \in CampaignIds
    /\ \A h \in inside : want[h].op = "put" /\ h \in Running
    /\ lapsed \subseteq inside \cap overran

(* A campaign whose creation was answered as a success, and that nobody    *)
(* wrote to since, reads back as it was asked for, after the detours of    *)
(* its budget type, its purchase order and its address through other forms,*)
(* places and calls, and its workflow is done.  (The purchase order of a   *)
(* campaign an agency pays for goes where no read looks.)                  *)
CreatedReadsBack ==
    \A h \in succeeded : want[h].op = "create" /\ cWriter[about[h]] = h =>
        LET r == want[h]
            v == View(about[h])
        IN  /\ about[h] \in cSummary
            /\ v.budget = r.budget /\ v.end = r.end /\ v.address = r.address
            /\ BillingOf(r) = "client" => v.po = NewPo(r)

(* An ad group whose creation was answered as a success, and met no other, *)
(* shows the targets that were asked for, after their detour through a     *)
(* location group and two look-ups: all placements and hours, no division  *)
(* that was not asked for, and every one asked for that has its details.   *)
GroupReadsBack ==
    [][\A h \in succeeded' \ (succeeded \cup disturbed) : want[h].op = "post" =>
          \A g \in todo[h] :
              LET shown == TargetsFromActivation(agTargets[g], dNumbered)
                  asked == want[h].targets
                  known == {t \in asked : t.type \in {1, 3} \/ (t.type = 2 /\ t.id \in dDetailed)}
              IN  /\ OfType(asked, 2) # {} => shown \subseteq asked
                  /\ known \subseteq shown]_allVars

(* While no lease runs out, a PUT that is answered as a success did what it*)
(* asked, whatever ran beside it: the end date, the status, of a draft also*)
(* the budget type, and on every way through the handler, the one that only*)
(* pauses included.                                                        *)
PutIsDone ==
    [][\A h \in succeeded' \ succeeded : want[h].op = "put" /\ overran = {} =>
          LET r == want[h]
              v == View(about[h])
          IN  /\ v.end = r.end \/ (r.end = NoDate /\ step[h] = "paused")
              /\ v.status \in {Asked(h), "ENDED"}
              /\ r.budget # "same" /\ seen[h].status = "DRAFT" => v.budget = r.budget
              /\ r.name = "new" => cWriter[about[h]] = h]_allVars

(* The section of one campaign, of the PUTs on it.                         *)
OnCampaign(c, hs) == {h \in hs : about[h] = c /\ want[h].op = "put"}

SectionOf(c) == INSTANCE ExclusiveSection WITH
    inside <- OnCampaign(c, inside), lapsed <- OnCampaign(c, lapsed), succeeded <- OnCampaign(c, succeeded)

(* The lock keeps the PUTs on one campaign apart and those on different    *)
(* ones not: each campaign has an exclusive section with leases of its own.*)
(* [controllers/campaign.py:190, harness_locked.py:28]                     *)
CampaignsHaveSections ==
    [][\A c \in CampaignIds : UNCHANGED SectionOf(c)!secVars \/ SectionOf(c)!SectionNext]_allVars

(* While no lease runs out, what is published is not a draft, has an ad    *)
(* group and no validations at that moment, though each of these was       *)
(* decided in an earlier call, the first before the patch.                 *)
PublishedProperly == overran = {} => mistakes = {}

(* The ad groups of a campaign have its budget type once nothing runs, as  *)
(* the API shows them, unless requests met or a PUT failed between its     *)
(* patch and the end of its loop over the ad groups: the next PUT finds    *)
(* the campaign's type already changed and does not repair that.           *)
BudgetTypeSpreads ==
    Quiet /\ disturbed = {} =>
        \A g \in AdGroupIds : agHome[g] \notin torn \cup {NoOne} =>
            ToApi(agBudget[g]) = ToApi(cBudget[agHome[g]])

(* No ad group outlives its campaign once nothing runs, unless requests    *)
(* met (a creation does not take the lock) or the end date was moved, which*)
(* is not compared with the ad groups.                                     *)
GroupsEndWithin ==
    Quiet /\ disturbed = {} =>
        \A g \in AdGroupIds : agHome[g] \notin shortened \cup {NoOne} =>
            LET end == cEnd[agHome[g]]
            IN  end # NoDate => ~Outlives(agEnd[g], agStatus[g] = "ENDED", end)
=============================================================================
