----------------------- MODULE AdGroupCreation_proofs -----------------------
(***************************************************************************)
(* For any requests on campaigns and ad groups, any number of handlers and *)
(* any interleaving of their calls: the types, what an answered creation   *)
(* and an answered PUT left upstream, what is published, and what holds of *)
(* the ad groups of a campaign.  What a handler has read is kept track of  *)
(* up to the call that relies on it; between them stands the lock, or, for *)
(* what the lock does not cover, that the handler met no other.            *)
(***************************************************************************)
EXTENDS AdGroupCreation, TLAPS

(* The calls of each kind of request.                                      *)
NewSteps == {"start", "details", "contacts", "workflow"}
Inner == {"read", "groups", "patch", "reread", "spread", "activations", "validations", "publish",
          "settle", "pause", "paused"}
Patched == {"reread", "spread", "activations", "validations", "publish", "settle"}
PostSteps == {"campaign", "number divisions", "detail divisions", "location group", "activation",
              "approve", "answer group"}
Viewing == {"groups", "patch", "number divisions", "detail divisions", "location group", "activation"}

Post(h) == want[h].op = "post"
Put(h) == want[h].op = "put"
New(h) == want[h].op = "create"

HandlerTypes ==
    /\ step \in [Handlers -> Steps]
    /\ about \in [Handlers -> CampaignIds \cup {NoOne}]
    /\ DOMAIN want = Handlers /\ DOMAIN seen = Handlers /\ DOMAIN updated = Handlers
    /\ todo \in [Handlers -> SUBSET AdGroupIds]
    /\ located \in [Handlers -> SUBSET Divisions]
    /\ inside \subseteq Handlers /\ succeeded \subseteq Handlers
    /\ lapsed \subseteq inside \cap overran

CampaignTypes ==
    /\ cStatus \in [CampaignIds -> CampaignStates]
    /\ cBudget \in [CampaignIds -> UpstreamBudgets]
    /\ cEnd \in [CampaignIds -> Nat]
    /\ cPo \in [CampaignIds -> [Payers -> PoNumbers]]
    /\ DOMAIN cAddresses = CampaignIds
    /\ cWriter \in [CampaignIds -> Handlers \cup {NoOne}]
    /\ cFaulty \cup cSummary \cup cLive \cup cKnown \cup torn \cup shortened \subseteq CampaignIds

GroupTypes ==
    /\ agHome \in [AdGroupIds -> CampaignIds \cup {NoOne}]
    /\ agBudget \in [AdGroupIds -> UpstreamBudgets]
    /\ agEnd \in [AdGroupIds -> Nat]
    /\ agStatus \in [AdGroupIds -> GroupStates]
    /\ agKnown \subseteq AdGroupIds
    /\ DOMAIN agTargets = AdGroupIds

DivisionTypes == dDetailed \subseteq dNumbered /\ dNumbered \subseteq Divisions

TypesInv == HandlerTypes /\ CampaignTypes /\ GroupTypes /\ DivisionTypes

(* Where a request is, and what it is about.                               *)
PlaceOf(h) ==
    /\ step[h] \in {"idle", "start"} => about[h] = NoOne
    /\ step[h] = "idle" => h \notin succeeded
    /\ h \in Running =>
          /\ want[h] \in Requests
          /\ step[h] # "start" => about[h] \in CampaignIds
          /\ step[h] \in NewSteps => New(h)
          /\ step[h] \in Inner \cup {"lock"} => Put(h)
          /\ step[h] \in PostSteps => Post(h)
          /\ step[h] = "answer" => New(h) \/ Put(h)
    /\ h \in inside <=> step[h] \in Inner \/ (step[h] = "answer" /\ Put(h))
    /\ h \in succeeded => step[h] = "over" /\ about[h] \in CampaignIds /\ want[h] \in Requests

(* What a request has read is of the types upstream has, and the divisions *)
(* that get their details have their ids.                                  *)
ReadOf(h) ==
    /\ seen[h].budget \in ApiBudgets
    /\ step[h] \in {"groups", "patch", "pause", "paused"} \cup Patched => seen[h].status \in Statuses
    /\ step[h] \in {"start", "details"} => BillingOf(want[h]) \in Payers
    /\ step[h] = "patch" => UpdateBillingOf(want[h], seen[h]) \in Payers
    /\ step[h] = "spread" => updated[h] \in ApiBudgets
    /\ step[h] = "detail divisions" => dNumbered = Divisions

(* A campaign a request made is new until it is patched, and the campaigns *)
(* others know of are not.                                                 *)
StageOf(h) ==
    /\ step[h] = "details" => cStatus[about[h]] = "new"
    /\ h \in Running /\ step[h] \notin {"start", "details"} => cStatus[about[h]] \in Statuses
    /\ New(h) /\ about[h] \in CampaignIds => cStatus[about[h]] # "none"

(* What a creation left upstream, as long as nobody else patched it.       *)
Made(h) ==
    LET c == about[h]
        r == want[h]
    IN  /\ ToApi(cBudget[c]) = r.budget /\ cEnd[c] = r.end
        /\ BillingOf(r) = "client" => cPo[c]["client"] = NewPo(r)
        /\ step[h] # "contacts" => cAddresses[c] = AddressList(r.address)
        /\ step[h] \notin {"contacts", "workflow"} => c \in cSummary

MadeOf(h) ==
    /\ New(h) /\ (step[h] \in {"contacts", "workflow", "answer"} \/ h \in succeeded)
    /\ cWriter[about[h]] = h
    => Made(h)

(* The targets of an ad group whose creation nobody disturbed, and its     *)
(* status before the approval.                                             *)
PlacesFor(h) ==
    LET asked == TargetsOf(h).divisions
    IN  LocationGroup(IF asked = {} THEN Divisions ELSE asked, dDetailed)

TargetsKept(h) ==
    /\ h \notin disturbed =>
          /\ step[h] = "activation" => located[h] = PlacesFor(h)
          /\ step[h] \in {"approve", "answer group"} =>
                \A g \in todo[h] : agTargets[g] = TargetData(TargetsOf(h), PlacesFor(h))
    /\ step[h] = "approve" => \A g \in todo[h] : agStatus[g] # "ENDED" /\ agHome[g] # NoOne

OwnOf(h) == PlaceOf(h) /\ ReadOf(h) /\ StageOf(h) /\ MadeOf(h) /\ TargetsKept(h)

(* No two requests made one campaign or hold its lock, and who met nobody  *)
(* runs alone.                                                             *)
Apart ==
    /\ \A h, i \in Handlers : New(h) /\ New(i) /\ about[h] = about[i] /\ about[h] # NoOne => h = i
    /\ \A h, i \in inside \ lapsed : about[h] = about[i] => h = i
    /\ \A h \in Running \ disturbed : Running = {h}

(* What a PUT left upstream, as long as no lease ran out.                  *)
PatchedOf(h) ==
    LET c == about[h]
        r == want[h]
    IN  /\ step[h] \in Patched \/ (step[h] = "answer" /\ Put(h)) =>
              /\ cEnd[c] = r.end
              /\ cStatus[c] \in {Asked(h), "ENDED"}
              /\ r.budget # "same" /\ seen[h].status = "DRAFT" => ToApi(cBudget[c]) = r.budget
              /\ cWriter[c] = h
        /\ step[h] \in {"pause", "paused"} => AsksPause(r, seen[h]) \/ AsksUnpause(r, seen[h])
        /\ step[h] = "paused" => cStatus[c] \in {Asked(h), "ENDED"}
        /\ step[h] \in {"validations", "publish"} => Asked(h) # "DRAFT" /\ GroupsOf(c) # {}
        /\ step[h] = "publish" => c \notin cFaulty

(* While no requests met: what one has read of its campaign is still so,   *)
ViewOf(h) ==
    /\ step[h] \in Viewing => seen[h].budget = ToApi(cBudget[about[h]]) /\ seen[h].end = cEnd[about[h]]
    /\ step[h] = "spread" => updated[h] = ToApi(cBudget[about[h]]) /\ todo[h] \subseteq GroupsOf(about[h])
    /\ step[h] = "patch" => \A g \in GroupsOf(about[h]) :
          want[h].end # NoDate /\ seen[h].end = NoDate => ~ Outlives(agEnd[g], agStatus[g] = "ENDED", want[h].end)
    /\ step[h] \in Viewing /\ step[h] \in PostSteps => FitsCampaign(want[h], seen[h])

(* ... an ad group has its campaign's budget type, or is about to get it,  *)
Behind(g, h) ==
    /\ about[h] = agHome[g]
    /\ \/ step[h] = "reread" /\ ToApi(agBudget[g]) = seen[h].budget
       \/ step[h] = "spread" /\ g \in todo[h]

BudgetOf(g) ==
    agHome[g] \notin torn \cup {NoOne} =>
        \/ ToApi(agBudget[g]) = ToApi(cBudget[agHome[g]])
        \/ \E h \in Handlers : Behind(g, h)

(* ... and ends with it.                                                   *)
EndOf(g) ==
    LET end == cEnd[agHome[g]]
    IN  agHome[g] \notin shortened \cup {NoOne} /\ end # NoDate =>
            ~ Outlives(agEnd[g], agStatus[g] = "ENDED", end)

HomeOf(g) == agHome[g] # NoOne => cStatus[agHome[g]] \in Statuses

CreationInv ==
    /\ TypesInv /\ Apart
    /\ \A h \in Handlers : OwnOf(h)
    /\ \A g \in AdGroupIds : HomeOf(g)
    /\ overran = {} => mistakes = {} /\ \A h \in Handlers : PatchedOf(h)
    /\ disturbed = {} =>
          /\ \A h \in Handlers : ViewOf(h)
          /\ \A g \in AdGroupIds : BudgetOf(g) /\ EndOf(g)
-----------------------------------------------------------------------------
(* A step of a handler leaves what the others have and where they are, and *)
(* history only grows.                                                     *)
SameOf(i) ==
    /\ step'[i] = step[i] /\ want'[i] = want[i] /\ about'[i] = about[i]
    /\ seen'[i] = seen[i] /\ updated'[i] = updated[i] /\ todo'[i] = todo[i] /\ located'[i] = located[i]
    /\ i \in inside' <=> i \in inside
    /\ i \in lapsed' <=> i \in lapsed
    /\ i \in succeeded' <=> i \in succeeded

Grows ==
    /\ overran \subseteq overran' /\ disturbed \subseteq disturbed'
    /\ torn \subseteq torn' /\ shortened \subseteq shortened'

Moves(h) == HandlerTypes' /\ Grows /\ \A i \in Handlers \ {h} : SameOf(i)

(* It goes on with the call s, ...                                         *)
GoesOn(h, s) ==
    /\ Moves(h) /\ step'[h] = s
    /\ UNCHANGED <<want, about, inside, lapsed, succeeded, disturbed, overran>>

(* ... or is answered.                                                     *)
IsOver(h, ok) ==
    /\ Moves(h) /\ step'[h] = "over"
    /\ UNCHANGED <<want, about, disturbed, overran>>
    /\ h \notin inside' /\ h \notin lapsed'
    /\ h \in succeeded' => h \in succeeded \/ (ok /\ h \notin lapsed)
    /\ seen'[h] = NoView

CampaignsStay == UNCHANGED <<cStatus, cBudget, cEnd, cPo, cAddresses, cWriter, cFaulty, cSummary, shortened>>
GroupsStay == UNCHANGED <<agHome, agBudget, agEnd, agStatus, agTargets>>
DivisionsStay == UNCHANGED <<dNumbered, dDetailed>>
UpstreamStays == CampaignsStay /\ GroupsStay /\ DivisionsStay

(* Calls that only read.                                                   *)
Reads == UpstreamStays /\ CampaignTypes' /\ GroupTypes' /\ UNCHANGED <<torn, mistakes>>
Same == UNCHANGED <<seen, updated, todo, located>>
Passes(h, s) == GoesOn(h, s) /\ Same /\ Reads

LEMMA AnswerIsOver ==
    ASSUME HandlerTypes, NEW h \in Handlers, NEW ok \in BOOLEAN, Answer(h, ok),
           UNCHANGED <<requestVars, located>>, torn \subseteq torn', UNCHANGED shortened
    PROVE  IsOver(h, ok)
BY DEF HandlerTypes, Moves, SameOf, Grows, requestVars, Answer, Leave, Steps, IsOver, NoView

LEMMA ContinueGoesOn ==
    ASSUME HandlerTypes, NEW h \in Handlers, NEW s \in Steps, Continue(h, s), UNCHANGED <<want, about>>,
           \A i \in Handlers \ {h} : /\ seen'[i] = seen[i] /\ updated'[i] = updated[i]
                                     /\ todo'[i] = todo[i] /\ located'[i] = located[i],
           DOMAIN seen' = Handlers, DOMAIN updated' = Handlers,
           todo' \in [Handlers -> SUBSET AdGroupIds], located' \in [Handlers -> SUBSET Divisions],
           UNCHANGED torn, shortened \subseteq shortened'
    PROVE  GoesOn(h, s)
BY DEF HandlerTypes, Moves, SameOf, Grows, Continue, secVars, GoesOn

LEMMA GotoGoesOn ==
    ASSUME HandlerTypes, NEW h \in Handlers, NEW s \in Steps, Goto(h, s),
           UNCHANGED <<want, about, located, torn>>, shortened \subseteq shortened'
    PROVE  GoesOn(h, s) /\ Same
BY ContinueGoesOn DEF HandlerTypes, Goto, localVars, Same

(* What each call of the requests on campaigns does.                       *)
LEMMA BeginDoes ==
    ASSUME TypesInv, NEW h \in Handlers, NEW r \in Requests, Begin(h, r), UNCHANGED targetVars
    PROVE  /\ step[h] = "idle" /\ Moves(h) /\ Reads /\ Same
           /\ want'[h] = r /\ UNCHANGED <<inside, lapsed, succeeded, overran>>
           /\ r.op = "create" => about'[h] = about[h] /\ step'[h] \in {"start", "over"}
                                 /\ (step'[h] = "start" => BillingOf(r) # "refused")
           /\ r.op # "create" => about'[h] \in CampaignIds /\ cStatus[about'[h]] \in Statuses
           /\ r.op = "put" => step'[h] = "lock"
           /\ r.op = "post" => step'[h] = "campaign"
           /\ disturbed' = disturbed \cup (IF Running = {} THEN {} ELSE Running \cup {h})
<1> USE RequestsAssumption
<1>1. r.op \in {"create", "put", "post"}
  OBVIOUS
<1>2. /\ step[h] = "idle" /\ want' = [want EXCEPT ![h] = r]
      /\ disturbed' = disturbed \cup (IF Running = {} THEN {} ELSE Running \cup {h})
      /\ UNCHANGED <<secVars, campaignVars, groupVars, cacheVars, localVars, overran, historyVars, targetVars>>
  BY DEF Begin, At
<1>3. PICK s \in {"start", "over", "lock", "campaign"} :
          /\ step' = [step EXCEPT ![h] = s]
          /\ r.op = "create" => s \in {"start", "over"} /\ (s = "start" => BillingOf(r) # "refused")
          /\ r.op = "put" => s = "lock"
          /\ r.op = "post" => s = "campaign"
  BY <1>1 DEF Begin
<1>4. PICK c \in CampaignIds \cup {NoOne} :
          /\ about' = [about EXCEPT ![h] = c]
          /\ r.op = "create" => c = about[h]
          /\ r.op # "create" => c \in CampaignIds /\ cStatus[c] \in Statuses
  <2>1. CASE r.op = "create"
    <3>1. about' = about /\ about = [about EXCEPT ![h] = about[h]]
      BY <2>1 DEF Begin, TypesInv, HandlerTypes
    <3>2. about[h] \in CampaignIds \cup {NoOne}
      BY DEF TypesInv, HandlerTypes
    <3>3. QED  BY <2>1, <3>1, <3>2
  <2>2. CASE r.op # "create"
    BY <2>2 DEF Begin
  <2>3. QED  BY <2>1, <2>2
<1>5. HandlerTypes'
  <2>1. s \in Steps
    BY DEF Steps
  <2>2. QED  BY <1>2, <1>3, <1>4, <2>1 DEF TypesInv, HandlerTypes, secVars, localVars, targetVars
<1>6. Moves(h)
  BY <1>2, <1>3, <1>4, <1>5 DEF TypesInv, HandlerTypes, Moves, SameOf, Grows, secVars, localVars, targetVars, historyVars
<1>7. Reads /\ Same
  BY <1>2 DEF Reads, Same, TypesInv, CampaignTypes, GroupTypes, UpstreamStays, CampaignsStay, GroupsStay, DivisionsStay,
         secVars, campaignVars, groupVars, cacheVars, localVars, historyVars, targetVars
<1>8. QED  BY <1>2, <1>3, <1>4, <1>6, <1>7 DEF TypesInv, HandlerTypes, secVars

LEMMA FailDoes ==
    ASSUME TypesInv, NEW h \in Handlers, PlaceOf(h), Fail(h), UNCHANGED targetVars
    PROVE  /\ h \in Running /\ IsOver(h, FALSE) /\ UpstreamStays /\ CampaignTypes' /\ GroupTypes' /\ UNCHANGED mistakes
           /\ step[h] \in {"reread", "spread"} => about[h] \in torn'
<1>1. IsOver(h, FALSE)
  BY AnswerIsOver DEF Fail, targetVars, TypesInv
<1>2. step[h] \in {"reread", "spread"} => Put(h) /\ about[h] \in CampaignIds
  BY DEF Fail, PlaceOf, Inner
<1>3. torn' = IF step[h] \in {"reread", "spread"} THEN torn \cup {about[h]} ELSE torn
  BY <1>2 DEF Fail, Put
<1>4. UpstreamStays /\ UNCHANGED <<mistakes, cLive, cKnown, agKnown>>
  BY DEF Fail, UpstreamStays, CampaignsStay, GroupsStay, DivisionsStay, campaignVars, groupVars, cacheVars, targetVars
<1>5. CampaignTypes' /\ GroupTypes'
  BY <1>2, <1>3, <1>4 DEF TypesInv, CampaignTypes, GroupTypes, UpstreamStays, CampaignsStay, GroupsStay
<1>6. QED  BY <1>1, <1>3, <1>4, <1>5 DEF Fail

LEMMA NothingWritten ==
    ASSUME TypesInv, UNCHANGED <<campaignVars, groupVars, cacheVars, dNumbered, dDetailed, agTargets, historyVars>>
    PROVE  Reads
BY DEF Reads, TypesInv, CampaignTypes, GroupTypes, UpstreamStays, CampaignsStay, GroupsStay, DivisionsStay,
       campaignVars, groupVars, cacheVars, historyVars

LEMMA TakeLockDoes ==
    ASSUME TypesInv, NEW h \in Handlers, TakeLock(h), UNCHANGED targetVars
    PROVE  /\ step[h] = "lock" /\ step'[h] = "read" /\ Moves(h) /\ Reads /\ Same
           /\ \A i \in inside \ lapsed : about[i] # about[h]
           /\ inside' = inside \cup {h} /\ UNCHANGED <<want, about, lapsed, succeeded, disturbed, overran>>
<1>1. Reads
  BY NothingWritten DEF TakeLock, targetVars
<1>2. Moves(h)
  BY DEF TakeLock, TypesInv, HandlerTypes, Moves, SameOf, Grows, requestVars, localVars, historyVars, targetVars, Steps
<1>3. QED  BY <1>1, <1>2 DEF TakeLock, At, Same, requestVars, localVars, targetVars, TypesInv, HandlerTypes

LEMMA LeaseRunsOutDoes ==
    ASSUME TypesInv, NEW h \in Handlers, LeaseRunsOut(h), UNCHANGED targetVars
    PROVE  /\ h \in inside \ lapsed /\ Moves(h) /\ Reads /\ Same
           /\ lapsed' = lapsed \cup {h} /\ overran' = overran \cup {h}
           /\ UNCHANGED <<step, want, about, inside, succeeded, disturbed>>
<1>1. Reads
  BY NothingWritten DEF LeaseRunsOut, targetVars
<1>2. Moves(h)
  BY DEF LeaseRunsOut, Lapse, TypesInv, HandlerTypes, Moves, SameOf, Grows, requestVars, localVars, historyVars, targetVars
<1>3. QED  BY <1>1, <1>2 DEF LeaseRunsOut, Lapse, Same, requestVars, localVars, targetVars

LEMMA StartCampaignDoes ==
    ASSUME TypesInv, NEW h \in Handlers, StartCampaign(h), UNCHANGED targetVars
    PROVE  /\ step[h] = "start" /\ step'[h] = "details" /\ Moves(h) /\ Same
           /\ about'[h] \in CampaignIds /\ cStatus[about'[h]] = "none"
           /\ cStatus' = [cStatus EXCEPT ![about'[h]] = "new"]
           /\ UNCHANGED <<want, inside, lapsed, succeeded, disturbed, overran>>
           /\ UNCHANGED <<cBudget, cEnd, cPo, cAddresses, cWriter, cFaulty, cSummary, shortened, torn, mistakes>>
           /\ GroupsStay /\ DivisionsStay /\ CampaignTypes' /\ GroupTypes'
<1>1. PICK c \in CampaignIds :
          cStatus[c] = "none" /\ cStatus' = [cStatus EXCEPT ![c] = "new"] /\ about' = [about EXCEPT ![h] = c]
  BY DEF StartCampaign
<1>2. Moves(h)
  BY <1>1 DEF StartCampaign, Goto, Continue, TypesInv, HandlerTypes, Moves, SameOf, Grows, secVars, localVars,
         historyVars, targetVars, Steps
<1>3. about'[h] = c
  BY <1>1 DEF TypesInv, HandlerTypes
<1>4. CampaignTypes' /\ GroupTypes'
  BY <1>1 DEF StartCampaign, TypesInv, CampaignTypes, GroupTypes, CampaignStates, Statuses, groupVars, cacheVars, historyVars, targetVars
<1>5. step[h] = "start" /\ step'[h] = "details" /\ Same /\ UNCHANGED <<inside, lapsed, succeeded, disturbed, overran>>
  BY DEF StartCampaign, Goto, Continue, At, Same, secVars, localVars, targetVars, TypesInv, HandlerTypes
<1>6. QED  BY <1>1, <1>2, <1>3, <1>4, <1>5 DEF StartCampaign, GroupsStay, DivisionsStay, groupVars, historyVars, targetVars

(* What a patch of a campaign writes.                                      *)
Writes(h, status, budget, end, payer, po) ==
    LET c == about[h]
    IN  /\ cStatus' = [cStatus EXCEPT ![c] = status]
        /\ cBudget' = [cBudget EXCEPT ![c] = budget]
        /\ cEnd' = [cEnd EXCEPT ![c] = end]
        /\ cWriter' = [cWriter EXCEPT ![c] = h]
        /\ cPo' = [cPo EXCEPT ![c][payer] = po]
        /\ \A d \in CampaignIds \ {c} : d \in cFaulty' <=> d \in cFaulty
        /\ UNCHANGED <<cAddresses, cSummary, mistakes, torn>>
        /\ CampaignTypes' /\ GroupTypes' /\ GroupsStay /\ DivisionsStay

LEMMA PatchUpstreamWrites ==
    ASSUME TypesInv, NEW h \in Handlers, NEW status \in Statuses, NEW budget \in UpstreamBudgets, NEW end \in Nat,
           NEW payer \in Payers, NEW po \in PoNumbers, PatchUpstream(h, status, budget, end, payer, po),
           about[h] \in CampaignIds, UNCHANGED <<targetVars, torn>>, shortened' \subseteq shortened \cup {about[h]}
    PROVE  Writes(h, status, budget, end, payer, po)
<1>1. CampaignTypes'
  BY DEF PatchUpstream, TypesInv, CampaignTypes, CampaignStates, cacheVars
<1>2. GroupTypes' /\ GroupsStay /\ DivisionsStay
  BY DEF PatchUpstream, TypesInv, GroupTypes, GroupsStay, DivisionsStay, groupVars, cacheVars, targetVars
<1>3. QED  BY <1>1, <1>2 DEF PatchUpstream, Writes
LEMMA Budgets ==
    /\ \A b \in ApiBudgets : ToApi(ToUpstream(b)) = b /\ ToUpstream(b) \in UpstreamBudgets
                             /\ ToApi(b) = b /\ b \in UpstreamBudgets
    /\ \A b \in UpstreamBudgets : ToApi(b) \in ApiBudgets
BY DEF ToApi, ToUpstream, ApiBudgets, UpstreamBudgets

LEMMA PatchNewDoes ==
    ASSUME TypesInv, NEW h \in Handlers, PlaceOf(h), ReadOf(h), PatchNew(h), UNCHANGED targetVars
    PROVE  /\ step[h] = "details" /\ GoesOn(h, "contacts") /\ Same /\ UNCHANGED shortened
           /\ want[h].budget \in ApiBudgets /\ want[h].status \in Statuses
           /\ Writes(h, want[h].status, ToUpstream(want[h].budget), want[h].end, BillingOf(want[h]), NewPo(want[h]))
<1>1. step[h] = "details" /\ h \in Running
  BY DEF PatchNew, At, Running
<1>2. New(h) /\ want[h] \in Requests /\ about[h] \in CampaignIds /\ BillingOf(want[h]) \in Payers
  BY <1>1 DEF PlaceOf, ReadOf, NewSteps
<1>3. want[h].budget \in ApiBudgets /\ want[h].status \in Statuses /\ want[h].end \in Nat /\ want[h].po \in PoNumbers
  BY <1>2, RequestsAssumption DEF New, Statuses
<1>4. ToUpstream(want[h].budget) \in UpstreamBudgets /\ NewPo(want[h]) \in PoNumbers
  BY <1>3, Budgets DEF NewPo, PoNumbers
<1>5. GoesOn(h, "contacts") /\ Same
  BY GotoGoesOn DEF PatchNew, PatchUpstream, requestVars, targetVars, TypesInv, Steps
<1>6. PatchUpstream(h, want[h].status, ToUpstream(want[h].budget), want[h].end, BillingOf(want[h]), NewPo(want[h]))
      /\ UNCHANGED <<torn, shortened>>
  BY DEF PatchNew
<1>7. PICK status, budget, end, payer, po :
          status = want[h].status /\ budget = ToUpstream(want[h].budget) /\ end = want[h].end
          /\ payer = BillingOf(want[h]) /\ po = NewPo(want[h])
  OBVIOUS
<1>8. Writes(h, status, budget, end, payer, po)
  BY <1>2, <1>3, <1>4, <1>6, <1>7, PatchUpstreamWrites
<1>9. QED  BY <1>1, <1>3, <1>5, <1>6, <1>7, <1>8

LEMMA PatchContactsDoes ==
    ASSUME TypesInv, NEW h \in Handlers, PatchContacts(h), UNCHANGED targetVars
    PROVE  /\ step[h] = "contacts" /\ GoesOn(h, "workflow") /\ Same
           /\ cAddresses' = [cAddresses EXCEPT ![about[h]] = AddressList(want[h].address)]
           /\ UNCHANGED <<cStatus, cBudget, cEnd, cPo, cWriter, cFaulty, cSummary, shortened, torn, mistakes>>
           /\ GroupsStay /\ DivisionsStay /\ CampaignTypes' /\ GroupTypes'
<1>1. GoesOn(h, "workflow") /\ Same
  BY GotoGoesOn DEF PatchContacts, requestVars, targetVars, historyVars, TypesInv, Steps
<1>2. QED  BY <1>1 DEF PatchContacts, At, TypesInv, CampaignTypes, GroupTypes, GroupsStay, DivisionsStay, groupVars,
                       cacheVars, historyVars, targetVars

LEMMA SetWorkflowDoes ==
    ASSUME TypesInv, NEW h \in Handlers, about[h] \in CampaignIds, SetWorkflow(h), UNCHANGED targetVars
    PROVE  /\ step[h] = "workflow" /\ GoesOn(h, "answer") /\ Same
           /\ cSummary' = cSummary \cup {about[h]}
           /\ UNCHANGED <<cStatus, cBudget, cEnd, cPo, cAddresses, cWriter, cFaulty, shortened, torn, mistakes>>
           /\ GroupsStay /\ DivisionsStay /\ CampaignTypes' /\ GroupTypes'
<1>1. GoesOn(h, "answer") /\ Same
  BY GotoGoesOn DEF SetWorkflow, requestVars, targetVars, historyVars, TypesInv, Steps
<1>2. QED  BY <1>1 DEF SetWorkflow, At, TypesInv, CampaignTypes, GroupTypes, GroupsStay, DivisionsStay, groupVars,
                       cacheVars, historyVars, targetVars

LEMMA AnswerCampaignDoes ==
    ASSUME TypesInv, NEW h \in Handlers, AnswerCampaign(h), UNCHANGED targetVars
    PROVE  step[h] = "answer" /\ IsOver(h, TRUE) /\ Reads
<1>1. IsOver(h, TRUE)
  BY AnswerIsOver DEF AnswerCampaign, targetVars, historyVars, TypesInv
<1>2. Reads
  BY NothingWritten DEF AnswerCampaign, targetVars
<1>3. QED  BY <1>1, <1>2 DEF AnswerCampaign, At

LEMMA ReadCampaignDoes ==
    ASSUME TypesInv, NEW h \in Handlers, ReadCampaign(h), UNCHANGED targetVars
    PROVE  /\ step[h] = "read" /\ Reads
           /\ \/ IsOver(h, FALSE)
              \/ /\ seen'[h] = View(about[h])
                 /\ \/ GoesOn(h, "groups")
                    \/ GoesOn(h, "pause") /\ (AsksPause(want[h], seen'[h]) \/ AsksUnpause(want[h], seen'[h]))
<1>1. Reads /\ step[h] = "read"
  BY NothingWritten DEF ReadCampaign, targetVars, At
<1>2. UNCHANGED <<want, about, torn, shortened, located, requestVars>>
  BY DEF ReadCampaign, requestVars, historyVars, targetVars
<1>3. CASE Answer(h, FALSE)
  BY <1>1, <1>2, <1>3, AnswerIsOver DEF TypesInv
<1>4. CASE ~ Answer(h, FALSE)
  <2>1. PICK s \in {"pause", "groups"} :
                  /\ seen' = [seen EXCEPT ![h] = View(about[h])] /\ UNCHANGED <<updated, todo>> /\ Continue(h, s)
                  /\ s = IF AsksPause(want[h], View(about[h])) \/ AsksUnpause(want[h], View(about[h]))
                         THEN "pause" ELSE "groups"
    BY <1>4 DEF ReadCampaign
  <2>2. s \in Steps
    BY DEF Steps
  <2>3. PICK v : v = View(about[h])
    OBVIOUS
  <2>4. /\ seen' = [seen EXCEPT ![h] = v] /\ seen'[h] = v /\ DOMAIN seen' = Handlers
        /\ \A i \in Handlers \ {h} : seen'[i] = seen[i]
    <3>1. seen' = [seen EXCEPT ![h] = v]
      BY <2>1, <2>3
    <3>2. QED  BY <3>1 DEF TypesInv, HandlerTypes
  <2>5. GoesOn(h, s)
    <3>1. Continue(h, s) /\ UNCHANGED <<updated, todo>>
      BY <2>1
    <3>2. QED  BY <1>2, <2>2, <2>4, <3>1, ContinueGoesOn DEF TypesInv, HandlerTypes
  <2>6. CASE s = "groups"
    BY <1>1, <2>3, <2>4, <2>5, <2>6
  <2>7. CASE s = "pause"
    <3>1. AsksPause(want[h], View(about[h])) \/ AsksUnpause(want[h], View(about[h]))
      BY <2>1, <2>7
    <3>2. AsksPause(want[h], v) \/ AsksUnpause(want[h], v)
      BY <2>3, <3>1
    <3>3. seen'[h] = v /\ seen'[h] = View(about[h])
      BY <2>3, <2>4
    <3>4. AsksPause(want[h], seen'[h]) \/ AsksUnpause(want[h], seen'[h])
      BY <3>2, <3>3
    <3>5. GoesOn(h, "pause")
      BY <2>5, <2>7
    <3>6. QED  BY <1>1, <3>3, <3>4, <3>5
  <2>8. QED  BY <2>6, <2>7
<1>5. QED  BY <1>3, <1>4

LEMMA ReadGroupsDoes ==
    ASSUME TypesInv, NEW h \in Handlers, ReadGroups(h), UNCHANGED targetVars
    PROVE  /\ step[h] = "groups" /\ Reads
           /\ \/ IsOver(h, FALSE)
              \/ /\ Passes(h, "patch") /\ UpdateBillingOf(want[h], seen[h]) # "refused"
                 /\ \A g \in GroupsOf(about[h]) : want[h].end # NoDate /\ seen[h].end = NoDate =>
                       ~ Outlives(agEnd[g], agStatus[g] = "ENDED", want[h].end)
<1>1. Reads /\ step[h] = "groups"
  BY NothingWritten DEF ReadGroups, targetVars, At
<1>2. UNCHANGED <<want, about, torn, shortened, located, requestVars>>
  BY DEF ReadGroups, requestVars, historyVars, targetVars
<1>3. CASE Answer(h, FALSE)
  BY <1>1, <1>2, <1>3, AnswerIsOver DEF TypesInv
<1>4. CASE ~ Answer(h, FALSE)
  <2>1. /\ Goto(h, "patch") /\ UpdateBillingOf(want[h], seen[h]) # "refused"
        /\ EndDateFits(want[h], seen[h], {<<agEnd[g], agStatus[g] = "ENDED">> : g \in GroupsOf(about[h])})
    BY <1>4 DEF ReadGroups
  <2>2. GoesOn(h, "patch") /\ Same
    BY <1>2, <2>1, GotoGoesOn DEF TypesInv, Steps
  <2>3. ASSUME NEW g \in GroupsOf(about[h]), want[h].end # NoDate, seen[h].end = NoDate
        PROVE  ~ Outlives(agEnd[g], agStatus[g] = "ENDED", want[h].end)
    <3>1. PICK ends : ends = {<<agEnd[k], agStatus[k] = "ENDED">> : k \in GroupsOf(about[h])}
      OBVIOUS
    <3>2. <<agEnd[g], agStatus[g] = "ENDED">> \in ends
      BY <3>1
    <3>3. \A p \in ends : ~ Outlives(p[1], p[2], want[h].end)
      BY <2>1, <2>3, <3>1 DEF EndDateFits
    <3>4. PICK p \in ends : p = <<agEnd[g], agStatus[g] = "ENDED">>
      BY <3>2
    <3>5. p[1] = agEnd[g] /\ p[2] = (agStatus[g] = "ENDED")
      BY <3>4
    <3>6. QED  BY <3>3, <3>5 DEF Outlives
  <2>4. QED  BY <1>1, <2>1, <2>2, <2>3 DEF Passes
<1>5. QED  BY <1>3, <1>4

LEMMA PatchDoes ==
    ASSUME TypesInv, NEW h \in Handlers, PlaceOf(h), ReadOf(h), Patch(h), UNCHANGED targetVars
    PROVE  /\ step[h] = "patch" /\ GoesOn(h, "reread") /\ Same /\ Asked(h) \in Statuses
           /\ shortened' = IF seen[h].end # NoDate /\ want[h].end # NoDate /\ want[h].end # seen[h].end
                           THEN shortened \cup {about[h]} ELSE shortened
           /\ \E payer, po : Writes(h, Asked(h), PatchedBudget(want[h], seen[h]), want[h].end, payer, po)
<1>1. step[h] = "patch" /\ h \in Running
  BY DEF Patch, At, Running
<1>2. want[h] \in Requests /\ about[h] \in CampaignIds /\ seen[h].status \in Statuses /\ seen[h].budget \in ApiBudgets
      /\ UpdateBillingOf(want[h], seen[h]) \in Payers
  BY <1>1 DEF PlaceOf, ReadOf
<1>3. /\ want[h].budget \in ApiBudgets \cup {"same"} /\ want[h].status \in Statuses \cup {"same"}
      /\ want[h].end \in Nat /\ want[h].po \in PoNumbers
  BY <1>2, RequestsAssumption
<1>4. Asked(h) \in Statuses
  BY <1>2, <1>3 DEF Asked, StatusAsked
<1>5. PatchedBudget(want[h], seen[h]) \in UpstreamBudgets
  BY <1>2, <1>3, Budgets DEF PatchedBudget
<1>6. PICK payer : payer = UpdateBillingOf(want[h], seen[h])
  OBVIOUS
<1>7. PICK po : po = UpdatedPo(want[h], seen[h], cPo[about[h]][payer])
  OBVIOUS
<1>8. payer \in Payers /\ po \in PoNumbers
  BY <1>2, <1>3, <1>6, <1>7 DEF UpdatedPo, TypesInv, CampaignTypes
<1>9. PatchUpstream(h, Asked(h), PatchedBudget(want[h], seen[h]), want[h].end, payer, po)
  BY <1>6, <1>7 DEF Patch
<1>10. PICK status, budget, end :
          status = Asked(h) /\ budget = PatchedBudget(want[h], seen[h]) /\ end = want[h].end
  OBVIOUS
<1>11. UNCHANGED <<torn, want, about, located>> /\ Goto(h, "reread")
       /\ shortened' = IF seen[h].end # NoDate /\ want[h].end # NoDate /\ want[h].end # seen[h].end
                       THEN shortened \cup {about[h]} ELSE shortened
  BY DEF Patch, PatchUpstream, requestVars, targetVars
<1>12. Writes(h, status, budget, end, payer, po)
  BY <1>2, <1>3, <1>4, <1>5, <1>8, <1>9, <1>10, <1>11, PatchUpstreamWrites
<1>13. GoesOn(h, "reread") /\ Same
  BY <1>11, GotoGoesOn DEF TypesInv, Steps
<1>14. QED  BY <1>1, <1>4, <1>10, <1>11, <1>12, <1>13

LEMMA RereadDoes ==
    ASSUME TypesInv, NEW h \in Handlers, Reread(h), UNCHANGED targetVars
    PROVE  /\ step[h] = "reread" /\ Reads /\ UNCHANGED <<seen, located>>
           /\ updated'[h] = ToApi(cBudget[about[h]])
           /\ \/ GoesOn(h, "spread") /\ todo'[h] = GroupsOf(about[h])
              \/ /\ GoesOn(h, "activations")
                 /\ ToApi(cBudget[about[h]]) = seen[h].budget \/ GroupsOf(about[h]) = {}
<1> DEFINE c == about[h]
<1>1. /\ step[h] = "reread" /\ agKnown' = agKnown \cup GroupsOf(c)
      /\ updated' = [updated EXCEPT ![h] = ToApi(cBudget[c])]
      /\ UNCHANGED <<campaignVars, groupVars, cKnown, want, about, seen, located, historyVars, torn, shortened>>
  BY DEF Reread, At, View, requestVars, historyVars, targetVars
<1>2. Reads
  BY <1>1 DEF GroupsOf, Reads, TypesInv, CampaignTypes, GroupTypes, UpstreamStays, CampaignsStay, GroupsStay, DivisionsStay,
         campaignVars, groupVars, historyVars, targetVars
<1>3. CASE todo' = [todo EXCEPT ![h] = GroupsOf(c)] /\ Continue(h, "spread")
  <2>1. todo' \in [Handlers -> SUBSET AdGroupIds]
    BY <1>3 DEF TypesInv, HandlerTypes, GroupsOf
  <2>2. GoesOn(h, "spread")
    BY <1>1, <1>3, <2>1, ContinueGoesOn DEF TypesInv, HandlerTypes, Steps
  <2>3. QED  BY <1>1, <1>2, <1>3, <2>2 DEF TypesInv, HandlerTypes
<1>4. CASE Continue(h, "activations") /\ UNCHANGED todo /\ (ToApi(cBudget[c]) = seen[h].budget \/ GroupsOf(c) = {})
  <2>1. GoesOn(h, "activations")
    BY <1>1, <1>4, ContinueGoesOn DEF TypesInv, HandlerTypes, Steps
  <2>2. QED  BY <1>1, <1>2, <1>4, <2>1 DEF TypesInv, HandlerTypes
<1>5. QED  BY <1>3, <1>4 DEF Reread, View

LEMMA SpreadDoes ==
    ASSUME TypesInv, NEW h \in Handlers, ReadOf(h), Spread(h), UNCHANGED targetVars
    PROVE  /\ step[h] = "spread" /\ CampaignsStay /\ DivisionsStay /\ CampaignTypes' /\ GroupTypes'
           /\ UNCHANGED <<torn, mistakes, seen, updated, located, agHome, agEnd, agStatus, agTargets>>
           /\ updated[h] \in ApiBudgets
           /\ \E g \in todo[h] :
                 /\ agBudget' = [agBudget EXCEPT ![g] = updated[h]] /\ todo'[h] = todo[h] \ {g}
                 /\ \/ GoesOn(h, "spread")
                    \/ GoesOn(h, "activations") /\ todo[h] = {g}
<1>1. PICK g \in todo[h], s \in {"spread", "activations"} :
          /\ agBudget' = [agBudget EXCEPT ![g] = updated[h]]
          /\ todo' = [todo EXCEPT ![h] = todo[h] \ {g}]
          /\ Continue(h, s) /\ (s = "activations" => todo[h] = {g})
  BY DEF Spread, TypesInv, HandlerTypes
<1>2. UNCHANGED <<want, about, seen, updated, located, torn, shortened, mistakes, campaignVars, cacheVars,
                  agHome, agEnd, agStatus, dNumbered, dDetailed, agTargets>>
  BY DEF Spread, requestVars, historyVars, targetVars
<1>3. s \in Steps /\ todo[h] \subseteq AdGroupIds
  BY DEF Steps, TypesInv, HandlerTypes
<1>4. /\ todo' \in [Handlers -> SUBSET AdGroupIds] /\ todo'[h] = todo[h] \ {g}
      /\ \A i \in Handlers \ {h} : todo'[i] = todo[i]
  BY <1>1, <1>3 DEF TypesInv, HandlerTypes
<1>5. GoesOn(h, s)
  BY <1>1, <1>2, <1>3, <1>4, ContinueGoesOn DEF TypesInv, HandlerTypes
<1>6. step[h] = "spread" /\ updated[h] \in ApiBudgets /\ updated[h] \in UpstreamBudgets
  BY Budgets DEF Spread, At, ReadOf
<1>7. CampaignsStay /\ DivisionsStay /\ CampaignTypes'
  BY <1>2 DEF CampaignsStay, DivisionsStay, campaignVars, cacheVars, TypesInv, CampaignTypes
<1>8. GroupTypes'
  BY <1>1, <1>2, <1>6 DEF cacheVars, TypesInv, GroupTypes
<1>9. \/ GoesOn(h, "spread")
      \/ GoesOn(h, "activations") /\ todo[h] = {g}
  BY <1>1, <1>5
<1>10. QED  BY <1>1, <1>2, <1>4, <1>6, <1>7, <1>8, <1>9

LEMMA CheckActivationsDoes ==
    ASSUME TypesInv, NEW h \in Handlers, CheckActivations(h), UNCHANGED targetVars
    PROVE  /\ step[h] = "activations"
           /\ \/ Passes(h, "answer")
              \/ Passes(h, "validations") /\ Asked(h) # "DRAFT" /\ GroupsOf(about[h]) # {}
<1>1. Reads /\ step[h] = "activations"
  BY NothingWritten DEF CheckActivations, targetVars, At
<1>2. UNCHANGED <<want, about, located, torn, shortened>>
  BY DEF CheckActivations, requestVars, historyVars, targetVars
<1>3. CASE Goto(h, "answer")
  BY <1>1, <1>2, <1>3, GotoGoesOn DEF TypesInv, Steps, Passes
<1>4. CASE Goto(h, "validations") /\ Asked(h) # "DRAFT" /\ GroupsOf(about[h]) # {}
  BY <1>1, <1>2, <1>4, GotoGoesOn DEF TypesInv, Steps, Passes
<1>5. QED  BY <1>3, <1>4 DEF CheckActivations

LEMMA CheckValidationsDoes ==
    ASSUME TypesInv, NEW h \in Handlers, CheckValidations(h), UNCHANGED targetVars
    PROVE  /\ step[h] = "validations"
           /\ \/ Passes(h, "answer")
              \/ Passes(h, "publish") /\ about[h] \notin cFaulty
<1>1. Reads /\ step[h] = "validations"
  BY NothingWritten DEF CheckValidations, targetVars, At
<1>2. UNCHANGED <<want, about, located, torn, shortened>>
  BY DEF CheckValidations, requestVars, historyVars, targetVars
<1>3. CASE Goto(h, "answer")
  BY <1>1, <1>2, <1>3, GotoGoesOn DEF TypesInv, Steps, Passes
<1>4. CASE Goto(h, "publish") /\ about[h] \notin cFaulty
  BY <1>1, <1>2, <1>4, GotoGoesOn DEF TypesInv, Steps, Passes
<1>5. QED  BY <1>3, <1>4 DEF CheckValidations

LEMMA PublishDoes ==
    ASSUME TypesInv, NEW h \in Handlers, about[h] \in CampaignIds, Publish(h), UNCHANGED targetVars
    PROVE  /\ step[h] = "publish" /\ Same /\ UpstreamStays /\ CampaignTypes' /\ GroupTypes'
           /\ GoesOn(h, "settle") \/ GoesOn(h, "answer")
           /\ cStatus[about[h]] # "DRAFT" /\ GroupsOf(about[h]) # {} /\ about[h] \notin cFaulty => UNCHANGED mistakes
<1>1. /\ step[h] = "publish"
      /\ UNCHANGED <<cStatus, cBudget, cEnd, cPo, cAddresses, cWriter, cFaulty, cSummary, groupVars, cacheVars,
                     want, about, torn, shortened, targetVars, located>>
  BY DEF Publish, At, requestVars, targetVars
<1>2. UpstreamStays /\ CampaignTypes' /\ GroupTypes'
  BY <1>1 DEF Publish, UpstreamStays, CampaignsStay, GroupsStay, DivisionsStay, TypesInv, CampaignTypes, GroupTypes,
         groupVars, cacheVars, targetVars
<1>3. CASE Goto(h, "settle") /\ mistakes' = mistakes
                    \cup (IF cStatus[about[h]] = "DRAFT" THEN {"draft"} ELSE {})
                    \cup (IF GroupsOf(about[h]) = {} THEN {"no ad groups"} ELSE {})
                    \cup (IF about[h] \in cFaulty THEN {"validations"} ELSE {})
  <2>1. GoesOn(h, "settle") /\ Same
    BY <1>1, <1>3, GotoGoesOn DEF TypesInv, Steps
  <2>2. QED  BY <1>1, <1>2, <1>3, <2>1
<1>4. CASE Goto(h, "answer") /\ UNCHANGED mistakes
  <2>1. GoesOn(h, "answer") /\ Same
    BY <1>1, <1>4, GotoGoesOn DEF TypesInv, Steps
  <2>2. QED  BY <1>1, <1>2, <1>4, <2>1
<1>5. QED  BY <1>3, <1>4 DEF Publish

LEMMA SettleDoes ==
    ASSUME TypesInv, NEW h \in Handlers, Settle(h), UNCHANGED targetVars
    PROVE  step[h] = "settle" /\ Passes(h, "answer")
<1>1. Reads /\ step[h] = "settle"
  BY NothingWritten DEF Settle, targetVars, At
<1>2. UNCHANGED <<want, about, located, torn, shortened>>
  BY DEF Settle, requestVars, historyVars, targetVars
<1>3. QED  BY <1>1, <1>2, GotoGoesOn DEF Settle, TypesInv, Steps, Passes

LEMMA PauseDoes ==
    ASSUME TypesInv, NEW h \in Handlers, about[h] \in CampaignIds, Pause(h), UNCHANGED targetVars
    PROVE  /\ step[h] = "pause" /\ GoesOn(h, "paused") /\ Same
           /\ cStatus[about[h]] = seen[h].status
           /\ cStatus' = [cStatus EXCEPT ![about[h]] = IF AsksPause(want[h], seen[h]) THEN "PAUSED" ELSE "ACTIVE"]
           /\ UNCHANGED <<cBudget, cEnd, cPo, cAddresses, cWriter, cFaulty, cSummary, shortened, torn, mistakes>>
           /\ GroupsStay /\ DivisionsStay /\ CampaignTypes' /\ GroupTypes'
<1>1. GoesOn(h, "paused") /\ Same
  BY GotoGoesOn DEF Pause, requestVars, targetVars, historyVars, TypesInv, Steps
<1>2. CampaignTypes'
  BY DEF Pause, TypesInv, CampaignTypes, CampaignStates, Statuses, cacheVars, historyVars
<1>3. QED  BY <1>1, <1>2 DEF Pause, At, TypesInv, GroupTypes, GroupsStay, DivisionsStay, groupVars,
                       cacheVars, historyVars, targetVars

LEMMA AnswerPauseDoes ==
    ASSUME TypesInv, NEW h \in Handlers, AnswerPause(h), UNCHANGED targetVars
    PROVE  step[h] = "paused" /\ IsOver(h, NoDelta(want[h], View(about[h]))) /\ Reads
<1>1. PICK ok \in BOOLEAN : ok = NoDelta(want[h], View(about[h]))
  BY DEF NoDelta
<1>2. Answer(h, ok)
  BY <1>1 DEF AnswerPause
<1>3. UNCHANGED <<requestVars, located, torn, shortened>>
  BY DEF AnswerPause, historyVars, targetVars
<1>4. IsOver(h, ok)
  BY <1>2, <1>3, AnswerIsOver DEF TypesInv
<1>5. Reads
  BY NothingWritten DEF AnswerPause, targetVars
<1>6. QED  BY <1>1, <1>4, <1>5 DEF AnswerPause, At

(* What each call of a creation of an ad group does.                       *)
LEMMA ReadForGroupDoes ==
    ASSUME TypesInv, NEW h \in Handlers, ReadForGroup(h)
    PROVE  /\ step[h] = "campaign" /\ Reads
           /\ \/ IsOver(h, FALSE)
              \/ /\ seen'[h] = View(about[h]) /\ FitsCampaign(want[h], seen'[h])
                 /\ GoesOn(h, "number divisions") \/ GoesOn(h, "location group")
<1>1. Reads /\ step[h] = "campaign"
  BY NothingWritten DEF ReadForGroup, targetVars, At
<1>2. UNCHANGED <<want, about, torn, shortened, located, requestVars>>
  BY DEF ReadForGroup, requestVars, historyVars, targetVars
<1>3. CASE Answer(h, FALSE)
  BY <1>1, <1>2, <1>3, AnswerIsOver DEF TypesInv
<1>4. CASE ~ Answer(h, FALSE)
  <2>1. PICK s \in {"number divisions", "location group"} :
                  /\ seen' = [seen EXCEPT ![h] = View(about[h])] /\ UNCHANGED <<updated, todo>>
                  /\ Continue(h, s) /\ FitsCampaign(want[h], View(about[h]))
    BY <1>4 DEF ReadForGroup
  <2>2. s \in Steps
    BY DEF Steps
  <2>3. PICK v : v = View(about[h])
    OBVIOUS
  <2>4. /\ seen' = [seen EXCEPT ![h] = v] /\ seen'[h] = v /\ DOMAIN seen' = Handlers
        /\ \A i \in Handlers \ {h} : seen'[i] = seen[i]
    BY <2>1, <2>3 DEF TypesInv, HandlerTypes
  <2>5. GoesOn(h, s)
    BY <1>2, <2>1, <2>2, <2>4, ContinueGoesOn DEF TypesInv, HandlerTypes
  <2>6. GoesOn(h, "number divisions") \/ GoesOn(h, "location group")
    BY <2>5
  <2>7. QED  BY <1>1, <2>1, <2>3, <2>4, <2>6
<1>5. QED  BY <1>3, <1>4

LEMMA NumberDivisionsDoes ==
    ASSUME TypesInv, NEW h \in Handlers, NumberDivisions(h)
    PROVE  /\ step[h] = "number divisions" /\ dNumbered' = Divisions
           /\ GoesOn(h, "location group") \/ GoesOn(h, "detail divisions")
           /\ UNCHANGED <<seen, updated, todo, dDetailed, torn, mistakes>>
           /\ CampaignsStay /\ GroupsStay /\ CampaignTypes' /\ GroupTypes'
<1>1. PICK s \in {"location group", "detail divisions"} : Goto(h, s)
  BY DEF NumberDivisions
<1>2. /\ UNCHANGED <<want, about, seen, updated, todo, torn, shortened, mistakes, dDetailed, agTargets,
                     campaignVars, groupVars, cacheVars>>
      /\ located' = [located EXCEPT ![h] = Divisions \ dNumbered]
  BY <1>1 DEF NumberDivisions, requestVars, historyVars, Goto, localVars
<1>3. s \in Steps
  BY DEF Steps
<1>4. /\ located' \in [Handlers -> SUBSET Divisions] /\ \A i \in Handlers \ {h} : located'[i] = located[i]
  BY <1>2 DEF TypesInv, HandlerTypes
<1>5. GoesOn(h, s)
  BY <1>1, <1>2, <1>3, <1>4, ContinueGoesOn DEF Goto, TypesInv, HandlerTypes
<1>6. CampaignsStay /\ GroupsStay /\ CampaignTypes' /\ GroupTypes'
  BY <1>2 DEF CampaignsStay, GroupsStay, campaignVars, groupVars, cacheVars, TypesInv, CampaignTypes, GroupTypes
<1>7. GoesOn(h, "location group") \/ GoesOn(h, "detail divisions")
  BY <1>5
<1>8. QED  BY <1>2, <1>6, <1>7 DEF NumberDivisions, At

LEMMA DetailDivisionsDoes ==
    ASSUME TypesInv, NEW h \in Handlers, DetailDivisions(h)
    PROVE  /\ step[h] = "detail divisions" /\ GoesOn(h, "location group") /\ Same
           /\ dDetailed' = dDetailed \cup located[h] /\ UNCHANGED <<dNumbered, torn, mistakes>>
           /\ CampaignsStay /\ GroupsStay /\ CampaignTypes' /\ GroupTypes'
<1>1. /\ UNCHANGED <<want, about, located, torn, shortened, mistakes, dNumbered, agTargets,
                     campaignVars, groupVars, cacheVars>>
  BY DEF DetailDivisions, requestVars, historyVars
<1>2. GoesOn(h, "location group") /\ Same
  BY <1>1, GotoGoesOn DEF DetailDivisions, TypesInv, Steps
<1>3. CampaignsStay /\ GroupsStay /\ CampaignTypes' /\ GroupTypes'
  BY <1>1 DEF CampaignsStay, GroupsStay, campaignVars, groupVars, cacheVars, TypesInv, CampaignTypes, GroupTypes
<1>4. QED  BY <1>1, <1>2, <1>3 DEF DetailDivisions, At

LEMMA MakeLocationGroupDoes ==
    ASSUME TypesInv, NEW h \in Handlers, MakeLocationGroup(h)
    PROVE  /\ step[h] = "location group" /\ GoesOn(h, "activation") /\ located'[h] = PlacesFor(h)
           /\ UNCHANGED <<seen, updated, todo>> /\ Reads
<1>1. /\ UNCHANGED <<want, about, torn, shortened, mistakes, dNumbered, dDetailed, agTargets, campaignVars, groupVars,
                     cacheVars, historyVars>>
      /\ located' = [located EXCEPT ![h] = PlacesFor(h)] /\ Goto(h, "activation")
  BY DEF MakeLocationGroup, requestVars, historyVars, PlacesFor
<1>2. PlacesFor(h) \subseteq Divisions
  BY DEF PlacesFor, LocationGroup, TypesInv, DivisionTypes
<1>3. /\ located' \in [Handlers -> SUBSET Divisions] /\ \A i \in Handlers \ {h} : located'[i] = located[i]
      /\ located'[h] = PlacesFor(h)
  BY <1>1, <1>2 DEF TypesInv, HandlerTypes
<1>4. Continue(h, "activation") /\ UNCHANGED <<seen, updated, todo>>
  BY <1>1 DEF Goto, localVars
<1>5. GoesOn(h, "activation")
  BY <1>1, <1>3, <1>4, ContinueGoesOn DEF Steps, TypesInv, HandlerTypes
<1>6. Reads
  BY <1>1, NothingWritten
<1>7. QED  BY <1>3, <1>4, <1>5, <1>6 DEF MakeLocationGroup, At

LEMMA CreateActivationDoes ==
    ASSUME TypesInv, NEW h \in Handlers, PlaceOf(h), ReadOf(h), CreateActivation(h)
    PROVE  /\ step[h] = "activation" /\ GoesOn(h, "approve")
           /\ UNCHANGED <<seen, updated, located, torn, mistakes>>
           /\ CampaignsStay /\ DivisionsStay /\ CampaignTypes' /\ GroupTypes'
           /\ \E g \in AdGroupIds :
                 /\ agHome[g] = NoOne /\ todo'[h] = {g}
                 /\ agHome' = [agHome EXCEPT ![g] = about[h]]
                 /\ agBudget' = [agBudget EXCEPT ![g] = seen[h].budget]
                 /\ agEnd' = [agEnd EXCEPT ![g] = want[h].end]
                 /\ agStatus' = [agStatus EXCEPT ![g] = "DRAFT"]
                 /\ agTargets' = [agTargets EXCEPT ![g] = TargetData(TargetsOf(h), located[h])]
<1>1. PICK g \in AdGroupIds :
                 /\ agHome[g] = NoOne /\ todo' = [todo EXCEPT ![h] = {g}]
                 /\ agHome' = [agHome EXCEPT ![g] = about[h]]
                 /\ agBudget' = [agBudget EXCEPT ![g] = seen[h].budget]
                 /\ agEnd' = [agEnd EXCEPT ![g] = want[h].end]
                 /\ agStatus' = [agStatus EXCEPT ![g] = "DRAFT"]
                 /\ agTargets' = [agTargets EXCEPT ![g] = TargetData(TargetsOf(h), located[h])]
  BY DEF CreateActivation, NewGroupBudget
<1>2. /\ UNCHANGED <<want, about, seen, updated, located, torn, shortened, mistakes, campaignVars, cacheVars,
                     dNumbered, dDetailed>>
      /\ step[h] = "activation" /\ Continue(h, "approve")
  BY DEF CreateActivation, requestVars, historyVars, At
<1>3. /\ todo' \in [Handlers -> SUBSET AdGroupIds] /\ todo'[h] = {g}
      /\ \A i \in Handlers \ {h} : todo'[i] = todo[i]
  BY <1>1 DEF TypesInv, HandlerTypes
<1>4. GoesOn(h, "approve")
  BY <1>2, <1>3, ContinueGoesOn DEF TypesInv, HandlerTypes, Steps
<1>5. CampaignsStay /\ DivisionsStay /\ CampaignTypes'
  BY <1>2 DEF CampaignsStay, DivisionsStay, campaignVars, cacheVars, TypesInv, CampaignTypes
<1>6. want[h] \in Requests /\ about[h] \in CampaignIds
  BY <1>2 DEF PlaceOf, Running
<1>7. want[h].end \in Nat /\ seen[h].budget \in UpstreamBudgets
  BY <1>6, RequestsAssumption, Budgets DEF ReadOf
<1>8. GroupTypes'
  BY <1>1, <1>2, <1>6, <1>7 DEF cacheVars, TypesInv, GroupTypes, GroupStates
<1>9. QED  BY <1>1, <1>2, <1>3, <1>4, <1>5, <1>8

LEMMA ApproveDoes ==
    ASSUME TypesInv, NEW h \in Handlers, Approve(h)
    PROVE  /\ step[h] = "approve" /\ GoesOn(h, "answer group") /\ Same /\ UNCHANGED <<torn, mistakes>>
           /\ CampaignsStay /\ DivisionsStay /\ CampaignTypes' /\ GroupTypes'
           /\ UNCHANGED <<agHome, agBudget, agEnd, agTargets>>
           /\ \A g \in AdGroupIds : IF g \in todo[h] THEN agStatus'[g] # "ENDED" ELSE agStatus'[g] = agStatus[g]
<1>1. PICK s \in {"DRAFT", "ACTIVE", "UNDER REVIEW"} :
          agStatus' = [g \in AdGroupIds |-> IF g \in todo[h] THEN s ELSE agStatus[g]]
  BY DEF Approve
<1>2. /\ UNCHANGED <<want, about, located, torn, shortened, mistakes, campaignVars, cacheVars,
                     dNumbered, dDetailed, agHome, agBudget, agEnd, agTargets>>
      /\ step[h] = "approve" /\ Goto(h, "answer group")
  BY DEF Approve, requestVars, historyVars, targetVars, At
<1>3. GoesOn(h, "answer group") /\ Same
  BY <1>2, GotoGoesOn DEF TypesInv, Steps
<1>4. CampaignsStay /\ DivisionsStay /\ CampaignTypes'
  BY <1>2 DEF CampaignsStay, DivisionsStay, campaignVars, cacheVars, TypesInv, CampaignTypes
<1>5. GroupTypes'
  BY <1>1, <1>2 DEF cacheVars, TypesInv, GroupTypes, GroupStates
<1>6. QED  BY <1>1, <1>2, <1>3, <1>4, <1>5

LEMMA AnswerGroupDoes ==
    ASSUME TypesInv, NEW h \in Handlers, AnswerGroup(h)
    PROVE  step[h] = "answer group" /\ IsOver(h, todo[h] \subseteq agKnown) /\ Reads
<1>1. PICK ok \in BOOLEAN : ok = (todo[h] \subseteq agKnown)
  OBVIOUS
<1>2. Answer(h, ok)
  BY <1>1 DEF AnswerGroup
<1>3. UNCHANGED <<requestVars, located, torn, shortened>>
  BY DEF AnswerGroup, historyVars, targetVars
<1>4. IsOver(h, ok)
  BY <1>2, <1>3, AnswerIsOver DEF TypesInv
<1>5. Reads
  BY NothingWritten DEF AnswerGroup, targetVars
<1>6. QED  BY <1>1, <1>4, <1>5 DEF AnswerGroup, At
-----------------------------------------------------------------------------
(* What is so of a request stays so through the steps of others that do    *)
(* not write to its campaign.                                              *)
RecordAt(c) ==
    /\ cBudget'[c] = cBudget[c] /\ cEnd'[c] = cEnd[c] /\ cPo'[c] = cPo[c] /\ cWriter'[c] = cWriter[c]
    /\ cAddresses'[c] = cAddresses[c] /\ (c \in cSummary => c \in cSummary')

ValuesAt(c) ==
    /\ cStatus'[c] = cStatus[c] /\ cBudget'[c] = cBudget[c] /\ cEnd'[c] = cEnd[c]
    /\ cWriter'[c] = cWriter[c] /\ (c \in cFaulty' <=> c \in cFaulty)

StaysAt(c) == RecordAt(c) /\ ValuesAt(c)

LEMMA PlaceStays ==
    ASSUME NEW i \in Handlers, SameOf(i), PlaceOf(i)
    PROVE  PlaceOf(i)'
BY DEF PlaceOf, SameOf, Running, New, Put, Post

LEMMA ReadStays ==
    ASSUME NEW i \in Handlers, SameOf(i), ReadOf(i), DivisionTypes, dNumbered' \in {dNumbered, Divisions}
    PROVE  ReadOf(i)'
BY DEF ReadOf, SameOf

LEMMA StageStays ==
    ASSUME NEW i \in Handlers, SameOf(i), PlaceOf(i), StageOf(i), about[i] \in CampaignIds => cStatus'[about[i]] = cStatus[about[i]]
    PROVE  StageOf(i)'
BY DEF StageOf, PlaceOf, SameOf, Running, New

LEMMA MadeStays ==
    ASSUME NEW i \in Handlers, SameOf(i), PlaceOf(i), MadeOf(i), about[i] \in CampaignIds => RecordAt(about[i])
    PROVE  MadeOf(i)'
<1> SUFFICES ASSUME New(i), step[i] \in {"contacts", "workflow", "answer"} \/ i \in succeeded, cWriter'[about[i]] = i
             PROVE  Made(i)'
  BY DEF MadeOf, SameOf, New
<1>1. about[i] \in CampaignIds
  BY DEF PlaceOf, Running
<1>2. Made(i) /\ RecordAt(about[i])
  BY <1>1 DEF MadeOf, RecordAt
<1>3. QED  BY <1>2 DEF Made, RecordAt, SameOf

LEMMA TargetsStay ==
    ASSUME NEW i \in Handlers, SameOf(i), Grows, TargetsKept(i), GroupsStay, DivisionsStay
    PROVE  TargetsKept(i)'
BY DEF TargetsKept, SameOf, Grows, GroupsStay, DivisionsStay, PlacesFor, TargetsOf

LEMMA OwnStays ==
    ASSUME NEW i \in Handlers, SameOf(i), Grows, OwnOf(i), about[i] \in CampaignIds => StaysAt(about[i]),
           GroupsStay, DivisionsStay, DivisionTypes
    PROVE  OwnOf(i)'
<1>1. dNumbered' \in {dNumbered, Divisions} /\ (about[i] \in CampaignIds => cStatus'[about[i]] = cStatus[about[i]])
  BY DEF DivisionsStay, StaysAt, ValuesAt
<1>2. QED  BY <1>1, PlaceStays, ReadStays, StageStays, MadeStays, TargetsStay DEF OwnOf, StaysAt

LEMMA PatchedStays ==
    ASSUME NEW i \in Handlers, SameOf(i), PlaceOf(i), PatchedOf(i), about[i] \in CampaignIds => ValuesAt(about[i]),
           UNCHANGED agHome
    PROVE  PatchedOf(i)'
<1>1. step[i] \in Patched \cup {"answer", "pause", "paused"} => ValuesAt(about[i])
  BY DEF PlaceOf, Running, Patched
<1>2. UNCHANGED GroupsOf(about[i]) /\ Asked(i)' = Asked(i)
  BY DEF GroupsOf, SameOf, Asked
<1>3. QED  BY <1>1, <1>2 DEF PatchedOf, ValuesAt, SameOf, Put, Patched

LEMMA ViewStays ==
    ASSUME NEW i \in Handlers, SameOf(i), PlaceOf(i), ViewOf(i), about[i] \in CampaignIds => StaysAt(about[i]), GroupsStay
    PROVE  ViewOf(i)'
<1>1. step[i] \in Viewing \cup {"spread"} => StaysAt(about[i])
  BY DEF PlaceOf, Running, Viewing
<1>2. UNCHANGED GroupsOf(about[i])
  BY DEF GroupsOf, GroupsStay, SameOf
<1>3. QED  BY <1>1, <1>2 DEF ViewOf, StaysAt, ValuesAt, SameOf, GroupsStay

LEMMA StaysEverywhere ==
    ASSUME CampaignsStay
    PROVE  \A c : StaysAt(c)
BY DEF CampaignsStay, StaysAt, RecordAt, ValuesAt

(* No two requests come together by a step that goes on or is over.        *)
LEMMA ApartGoesOn ==
    ASSUME Apart, NEW h \in Handlers, NEW s, GoesOn(h, s), h \in Running, s \notin {"idle", "over"}
    PROVE  Apart' /\ h \in Running' /\ Running' = Running
<1>1. Running' = Running
  BY DEF GoesOn, Moves, SameOf, Running
<1>2. QED  BY <1>1 DEF Apart, GoesOn, New

LEMMA ApartOver ==
    ASSUME Apart, NEW h \in Handlers, NEW ok, IsOver(h, ok), h \in Running
    PROVE  Apart' /\ Running' = Running \ {h}
<1>1. Running' = Running \ {h}
  BY DEF IsOver, Moves, SameOf, Running
<1>2. \A i, k \in inside' \ lapsed' : i \in inside \ lapsed /\ k \in inside \ lapsed
  BY DEF IsOver, Moves, SameOf, HandlerTypes
<1>3. \A i \in Running' \ disturbed' : Running' = {i}
  BY <1>1 DEF Apart, IsOver
<1>4. /\ UNCHANGED <<want, about>>
      /\ \A i, k \in Handlers : New(i) /\ New(k) /\ about[i] = about[k] /\ about[i] # NoOne => i = k
      /\ \A i, k \in inside \ lapsed : about[i] = about[k] => i = k
  BY DEF Apart, IsOver
<1>5. \A i, k \in Handlers : New(i)' /\ New(k)' /\ about'[i] = about'[k] /\ about'[i] # NoOne => i = k
  BY <1>4 DEF New
<1>6. \A i, k \in inside' \ lapsed' : about'[i] = about'[k] => i = k
  BY <1>2, <1>4
<1>7. QED  BY <1>1, <1>3, <1>5, <1>6 DEF Apart

Follows(a, s) ==
    \/ a \in Inner /\ s \in Inner \cup {"answer"}
    \/ a \in PostSteps /\ s \in PostSteps
    \/ a \in {"details", "contacts", "workflow"} /\ s \in {"contacts", "workflow", "answer"}

LEMMA FollowsRuns ==
    ASSUME NEW h \in Handlers, NEW s, Follows(step[h], s)
    PROVE  h \in Running /\ step[h] \notin {"start", "lock", "answer"} /\ s \notin {"idle", "over", "start", "lock", "details"}
BY DEF Follows, Running, Inner, PostSteps

LEMMA PlaceGoesOn ==
    ASSUME NEW h \in Handlers, NEW s, PlaceOf(h), GoesOn(h, s), Follows(step[h], s)
    PROVE  PlaceOf(h)'
<1>1. h \in Running /\ s \notin {"idle", "over", "start", "lock", "details"} /\ h \in Running'
  BY FollowsRuns DEF GoesOn, Running
<1>2. want'[h] = want[h] /\ about'[h] = about[h] /\ step'[h] = s /\ step[h] # "start"
  BY FollowsRuns DEF GoesOn
<1>3. want[h] \in Requests /\ about[h] \in CampaignIds /\ h \notin succeeded /\ h \notin succeeded'
  BY <1>1, <1>2 DEF PlaceOf, Running, GoesOn
<1>4. CASE step[h] \in Inner /\ s \in Inner \cup {"answer"}
  <2>1. Put(h) /\ Put(h)' /\ h \in inside /\ h \in inside'
    BY <1>1, <1>2, <1>4 DEF PlaceOf, Put, GoesOn
  <2>2. s \notin NewSteps /\ s \notin PostSteps
    BY <1>4 DEF NewSteps, PostSteps, Inner
  <2>3. QED  BY <1>1, <1>2, <1>3, <1>4, <2>1, <2>2 DEF PlaceOf
<1>5. CASE step[h] \in PostSteps /\ s \in PostSteps
  <2>1. Post(h) /\ Post(h)' /\ h \notin inside /\ h \notin inside'
    BY <1>1, <1>2, <1>5 DEF PlaceOf, Post, GoesOn, PostSteps, Inner
  <2>2. s \notin NewSteps /\ s \notin Inner \cup {"lock", "answer"}
    BY <1>5 DEF NewSteps, PostSteps, Inner
  <2>3. QED  BY <1>1, <1>2, <1>3, <1>5, <2>1, <2>2 DEF PlaceOf
<1>6. CASE step[h] \in {"details", "contacts", "workflow"} /\ s \in {"contacts", "workflow", "answer"}
  <2>1. New(h) /\ New(h)' /\ ~ Put(h) /\ ~ Put(h)' /\ h \notin inside /\ h \notin inside'
    BY <1>1, <1>2, <1>6 DEF PlaceOf, New, Put, GoesOn, NewSteps, Inner
  <2>2. s \notin PostSteps /\ s \notin Inner \cup {"lock"}
    BY <1>6 DEF PostSteps, Inner
  <2>3. QED  BY <1>1, <1>2, <1>3, <1>6, <2>1, <2>2 DEF PlaceOf
<1>7. QED  BY <1>4, <1>5, <1>6 DEF Follows

(* A step that writes nothing upstream keeps the invariant when it does so *)
(* for the handler that takes it.                                          *)
LEMMA LocalKeeps ==
    ASSUME CreationInv, NEW h \in Handlers, Moves(h), UpstreamStays, CampaignTypes', GroupTypes', Apart', OwnOf(h)',
           overran' = {} => UNCHANGED mistakes /\ PatchedOf(h)',
           disturbed' = {} => /\ ViewOf(h)'
                              /\ \A g \in AdGroupIds : Behind(g, h) /\ agHome[g] \notin torn' =>
                                    Behind(g, h)' \/ ToApi(agBudget[g]) = ToApi(cBudget[agHome[g]])
    PROVE  CreationInv'
<1>1. /\ HandlerTypes' /\ Grows /\ \A i \in Handlers \ {h} : SameOf(i)
      /\ GroupsStay /\ DivisionsStay /\ CampaignsStay /\ DivisionTypes /\ UNCHANGED agHome
  BY DEF Moves, UpstreamStays, CreationInv, TypesInv, GroupsStay
<1>2. \A c : StaysAt(c)
  BY <1>1, StaysEverywhere
<1>3. TypesInv'
  BY <1>1 DEF TypesInv, DivisionTypes, DivisionsStay
<1>4. \A i \in Handlers : OwnOf(i)'
  <2>1. ASSUME NEW i \in Handlers \ {h}
        PROVE  OwnOf(i)'
    BY <1>1, <1>2, OwnStays DEF CreationInv
  <2>2. QED  BY <2>1
<1>5. \A g \in AdGroupIds : HomeOf(g)'
  BY <1>1 DEF CreationInv, HomeOf, CampaignsStay
<1>6. ASSUME overran' = {}
      PROVE  mistakes' = {} /\ \A i \in Handlers : PatchedOf(i)'
  <2>1. overran = {} /\ mistakes = {} /\ \A i \in Handlers : PatchedOf(i)
    BY <1>1, <1>6 DEF Grows, CreationInv
  <2>2. ASSUME NEW i \in Handlers \ {h}
        PROVE  PatchedOf(i)'
    BY <1>1, <1>2, <2>1, PatchedStays DEF CreationInv, OwnOf, StaysAt
  <2>3. QED  BY <1>6, <2>1, <2>2
<1>7. ASSUME disturbed' = {}
      PROVE  /\ \A i \in Handlers : ViewOf(i)'
             /\ \A g \in AdGroupIds : BudgetOf(g)' /\ EndOf(g)'
  <2>1. disturbed = {} /\ (\A i \in Handlers : ViewOf(i)) /\ \A g \in AdGroupIds : BudgetOf(g) /\ EndOf(g)
    BY <1>1, <1>7 DEF Grows, CreationInv
  <2>2. ASSUME NEW i \in Handlers \ {h}
        PROVE  ViewOf(i)'
    BY <1>1, <1>2, <2>1, ViewStays DEF CreationInv, OwnOf
  <2>3. ASSUME NEW g \in AdGroupIds
        PROVE  EndOf(g)'
    BY <1>1, <2>1 DEF EndOf, GroupsStay, CampaignsStay
  <2>4. ASSUME NEW g \in AdGroupIds
        PROVE  BudgetOf(g)'
    <3>1. SUFFICES ASSUME agHome[g] \notin torn' \cup {NoOne}, ToApi(agBudget[g]) # ToApi(cBudget[agHome[g]])
                   PROVE  \E i \in Handlers : Behind(g, i)'
      BY <1>1 DEF BudgetOf, GroupsStay, CampaignsStay
    <3>2. PICK i \in Handlers : Behind(g, i)
      BY <1>1, <2>1, <3>1 DEF BudgetOf, Grows
    <3>3. CASE i = h
      BY <1>7, <3>1, <3>2, <3>3
    <3>4. CASE i # h
      BY <1>1, <3>2, <3>4 DEF Behind, SameOf, GroupsStay
    <3>5. QED  BY <3>3, <3>4
  <2>5. QED  BY <1>7, <2>2, <2>3, <2>4
<1>8. QED  BY <1>3, <1>4, <1>5, <1>6, <1>7 DEF CreationInv

(* A request that is answered, and the calls that read.                    *)
LEMMA OverKeeps ==
    ASSUME CreationInv, NEW h \in Handlers, NEW ok, h \in Running, IsOver(h, ok), UpstreamStays, CampaignTypes', GroupTypes',
           ok => step[h] # "start" /\ (step[h] = "answer" \/ ~ New(h)),
           step[h] \in {"reread", "spread"} => about[h] \in torn', UNCHANGED mistakes
    PROVE  CreationInv'
<1>1. OwnOf(h) /\ Apart
  BY DEF CreationInv
<1>2. Apart' /\ Running' = Running \ {h}
  BY <1>1, ApartOver
<1>3. /\ step'[h] = "over" /\ h \notin inside' /\ want'[h] = want[h] /\ about'[h] = about[h]
      /\ seen'[h] = NoView /\ h \notin Running' /\ h \notin succeeded /\ (h \in succeeded' => ok)
  BY <1>1, <1>2 DEF IsOver, OwnOf, PlaceOf, Running
<1>4. PlaceOf(h)'
  BY <1>1, <1>3 DEF OwnOf, PlaceOf, Inner
<1>5. ReadOf(h)'
  BY <1>3 DEF ReadOf, NoView, ApiBudgets, Patched
<1>6. StageOf(h)'
  BY <1>1, <1>3 DEF OwnOf, StageOf, UpstreamStays, CampaignsStay, New
<1>7. MadeOf(h)'
  <2>1. SUFFICES ASSUME New(h), h \in succeeded', cWriter'[about[h]] = h
                 PROVE  Made(h)'
    BY <1>3 DEF MadeOf, New
  <2>2. step[h] = "answer" /\ cWriter[about[h]] = h
    BY <1>3, <2>1 DEF UpstreamStays, CampaignsStay
  <2>3. Made(h)
    BY <1>1, <2>1, <2>2 DEF OwnOf, MadeOf
  <2>4. QED  BY <1>3, <2>2, <2>3 DEF Made, UpstreamStays, CampaignsStay
<1>8. TargetsKept(h)'
  BY <1>3 DEF TargetsKept
<1>9. PatchedOf(h)' /\ ViewOf(h)'
  BY <1>3 DEF PatchedOf, ViewOf, Patched, Viewing
<1>10. \A g \in AdGroupIds : ~ (Behind(g, h) /\ agHome[g] \notin torn')
  BY DEF Behind
<1>11. OwnOf(h)'
  BY <1>4, <1>5, <1>6, <1>7, <1>8 DEF OwnOf
<1>12. Moves(h)
  BY DEF IsOver
<1>13. QED  BY <1>2, <1>9, <1>10, <1>11, <1>12, LocalKeeps

LEMMA ReadingKeeps ==
    ASSUME CreationInv, NEW h \in Handlers, NEW s, GoesOn(h, s), Follows(step[h], s), ~ New(h),
           UpstreamStays, CampaignTypes', GroupTypes', ReadOf(h)', TargetsKept(h)',
           overran = {} => UNCHANGED mistakes /\ PatchedOf(h)',
           disturbed = {} => /\ ViewOf(h)'
                             /\ \A g \in AdGroupIds : Behind(g, h) /\ agHome[g] \notin torn' =>
                                    Behind(g, h)' \/ ToApi(agBudget[g]) = ToApi(cBudget[agHome[g]])
    PROVE  CreationInv'
<1>1. OwnOf(h) /\ Apart /\ Moves(h)
  BY DEF CreationInv, GoesOn
<1>2. h \in Running /\ step[h] \notin {"start", "lock", "answer"} /\ s \notin {"idle", "over", "start", "lock", "details"}
  BY FollowsRuns
<1>3. Apart' /\ h \in Running'
  BY <1>1, <1>2, ApartGoesOn
<1>4. PlaceOf(h)'
  BY <1>1, PlaceGoesOn DEF OwnOf
<1>5. /\ step'[h] = s /\ want'[h] = want[h] /\ about'[h] = about[h] /\ ~ New(h)' /\ step[h] # "details"
      /\ UNCHANGED <<cStatus, disturbed, overran>>
  BY <1>1, <1>2 DEF GoesOn, New, UpstreamStays, CampaignsStay, OwnOf, PlaceOf, NewSteps
<1>6. StageOf(h)'
  BY <1>1, <1>2, <1>3, <1>5 DEF OwnOf, StageOf
<1>7. MadeOf(h)'
  BY <1>5 DEF MadeOf
<1>8. OwnOf(h)'
  BY <1>4, <1>6, <1>7 DEF OwnOf
<1>9. QED  BY <1>1, <1>3, <1>5, <1>8, LocalKeeps

LEMMA ViewHas ==
    ASSUME TypesInv, NEW c \in CampaignIds
    PROVE  /\ View(c).status = cStatus[c] /\ View(c).end = cEnd[c]
           /\ View(c).budget = ToApi(cBudget[c]) /\ View(c).budget \in ApiBudgets
BY Budgets DEF View, TypesInv, CampaignTypes

LEMMA FailKeeps ==
    ASSUME CreationInv, NEW h \in Handlers, Fail(h), UNCHANGED targetVars
    PROVE  CreationInv'
<1>1. PICK ok \in BOOLEAN : ok = FALSE
  OBVIOUS
<1>2. TypesInv /\ PlaceOf(h)
  BY DEF CreationInv, OwnOf
<1>3. h \in Running /\ IsOver(h, ok) /\ UpstreamStays /\ CampaignTypes' /\ GroupTypes' /\ UNCHANGED mistakes
      /\ (step[h] \in {"reread", "spread"} => about[h] \in torn')
  BY <1>1, <1>2, FailDoes
<1>4. QED  BY <1>1, <1>3, OverKeeps

LEMMA AnswerCampaignKeeps ==
    ASSUME CreationInv, NEW h \in Handlers, AnswerCampaign(h), UNCHANGED targetVars
    PROVE  CreationInv'
<1>1. PICK ok \in BOOLEAN : ok = TRUE
  OBVIOUS
<1>2. step[h] = "answer" /\ IsOver(h, ok) /\ Reads
  BY <1>1, AnswerCampaignDoes DEF CreationInv
<1>3. h \in Running
  BY <1>2 DEF Running
<1>4. QED  BY <1>2, <1>3, OverKeeps DEF Reads

(* What holds of a request on the way.                                     *)
LEMMA OnTheWay ==
    ASSUME CreationInv, NEW h \in Handlers, step[h] \in Steps \ {"idle", "over", "start", "lock"}
    PROVE  /\ h \in Running /\ about[h] \in CampaignIds /\ want[h] \in Requests /\ OwnOf(h) /\ TypesInv
           /\ step[h] \in Inner => Put(h) /\ ~ New(h) /\ cStatus[about[h]] \in Statuses
           /\ step[h] \in PostSteps => Post(h) /\ ~ New(h) /\ cStatus[about[h]] \in Statuses
           /\ overran = {} => PatchedOf(h)
           /\ disturbed = {} => ViewOf(h)
<1>1. h \in Running /\ OwnOf(h) /\ TypesInv /\ PlaceOf(h) /\ StageOf(h)
  BY DEF CreationInv, OwnOf, Running
<1>2. about[h] \in CampaignIds /\ want[h] \in Requests
  BY <1>1 DEF PlaceOf
<1>3. step[h] \in Inner => Put(h) /\ ~ New(h) /\ cStatus[about[h]] \in Statuses
  BY <1>1 DEF PlaceOf, StageOf, Inner, Put, New
<1>4. step[h] \in PostSteps => Post(h) /\ ~ New(h) /\ cStatus[about[h]] \in Statuses
  BY <1>1 DEF PlaceOf, StageOf, PostSteps, Post, New
<1>5. QED  BY <1>1, <1>2, <1>3, <1>4 DEF CreationInv

LEMMA ReadCampaignKeeps ==
    ASSUME CreationInv, NEW h \in Handlers, ReadCampaign(h), UNCHANGED targetVars
    PROVE  CreationInv'
<1>1. PICK no \in BOOLEAN : no = FALSE
  OBVIOUS
<1>2. TypesInv /\ step[h] = "read" /\ Reads
  BY ReadCampaignDoes DEF CreationInv
<1>3. step[h] \in Inner /\ step[h] \in Steps \ {"idle", "over", "start", "lock"}
  BY <1>2 DEF Inner, Steps
<1>4. h \in Running /\ ~ New(h) /\ about[h] \in CampaignIds /\ cStatus[about[h]] \in Statuses
  BY <1>3, OnTheWay
<1>5. CASE IsOver(h, no)
  BY <1>1, <1>2, <1>4, <1>5, OverKeeps DEF Reads
<1>6. CASE ~ IsOver(h, no)
  <2>1. PICK s \in {"groups", "pause"} :
            /\ GoesOn(h, s) /\ seen'[h] = View(about[h])
            /\ s = "pause" => AsksPause(want[h], seen'[h]) \/ AsksUnpause(want[h], seen'[h])
    BY <1>1, <1>2, <1>6, ReadCampaignDoes
  <2>2. step'[h] = s /\ want'[h] = want[h] /\ about'[h] = about[h]
    BY <2>1 DEF GoesOn
  <2>3. seen'[h].status \in Statuses /\ seen'[h].budget \in ApiBudgets
        /\ seen'[h].budget = ToApi(cBudget[about[h]]) /\ seen'[h].end = cEnd[about[h]]
    BY <1>2, <1>4, <2>1, ViewHas
  <2>4. ReadOf(h)'
    BY <2>2, <2>3 DEF ReadOf
  <2>5. TargetsKept(h)'
    BY <2>2 DEF TargetsKept
  <2>6. PatchedOf(h)'
    BY <2>1, <2>2 DEF PatchedOf, Patched
  <2>7. ViewOf(h)'
    BY <1>2, <2>1, <2>2, <2>3 DEF ViewOf, PostSteps, Reads, UpstreamStays, CampaignsStay
  <2>8. \A g \in AdGroupIds : ~ Behind(g, h)
    BY <1>2 DEF Behind
  <2>9. Follows(step[h], s)
    BY <1>3, <2>1 DEF Follows, Inner
  <2>10. QED  BY <1>2, <1>4, <2>1, <2>4, <2>5, <2>6, <2>7, <2>8, <2>9, ReadingKeeps DEF Reads
<1>7. QED  BY <1>5, <1>6

LEMMA ReadGroupsKeeps ==
    ASSUME CreationInv, NEW h \in Handlers, ReadGroups(h), UNCHANGED targetVars
    PROVE  CreationInv'
<1>1. PICK no \in BOOLEAN : no = FALSE
  OBVIOUS
<1>2. TypesInv /\ step[h] = "groups" /\ Reads
  BY ReadGroupsDoes DEF CreationInv
<1>3. step[h] \in Inner /\ step[h] \in Steps \ {"idle", "over", "start", "lock"}
  BY <1>2 DEF Inner, Steps
<1>4. h \in Running /\ ~ New(h) /\ OwnOf(h) /\ (disturbed = {} => ViewOf(h))
  BY <1>3, OnTheWay
<1>5. CASE IsOver(h, no)
  BY <1>1, <1>2, <1>4, <1>5, OverKeeps DEF Reads
<1>6. CASE ~ IsOver(h, no)
  <2>1. /\ GoesOn(h, "patch") /\ Same /\ UpdateBillingOf(want[h], seen[h]) # "refused"
        /\ \A g \in GroupsOf(about[h]) : want[h].end # NoDate /\ seen[h].end = NoDate =>
               ~ Outlives(agEnd[g], agStatus[g] = "ENDED", want[h].end)
    BY <1>1, <1>2, <1>6, ReadGroupsDoes DEF Passes
  <2>2. step'[h] = "patch" /\ want'[h] = want[h] /\ about'[h] = about[h] /\ seen'[h] = seen[h]
    BY <2>1 DEF GoesOn, Same
  <2>3. UpdateBillingOf(want[h], seen[h]) \in Payers
    BY <2>1 DEF UpdateBillingOf, Payers
  <2>4. ReadOf(h)'
    BY <1>2, <1>4, <2>2, <2>3 DEF OwnOf, ReadOf
  <2>5. TargetsKept(h)' /\ PatchedOf(h)'
    BY <2>2 DEF TargetsKept, PatchedOf, Patched
  <2>6. UNCHANGED <<cBudget, cEnd, agEnd, agStatus, GroupsOf(about[h])>>
    BY <1>2, <2>2 DEF Reads, UpstreamStays, CampaignsStay, GroupsStay, GroupsOf
  <2>7. ASSUME disturbed = {}
        PROVE  ViewOf(h)'
    BY <1>2, <1>4, <2>1, <2>2, <2>6, <2>7 DEF ViewOf, PostSteps, Viewing
  <2>8. \A g \in AdGroupIds : ~ Behind(g, h)
    BY <1>2 DEF Behind
  <2>9. Follows(step[h], "patch")
    BY <1>3 DEF Follows, Inner
  <2>10. QED  BY <1>2, <1>4, <2>1, <2>4, <2>5, <2>7, <2>8, <2>9, ReadingKeeps DEF Reads
<1>7. QED  BY <1>5, <1>6

LEMMA RereadKeeps ==
    ASSUME CreationInv, NEW h \in Handlers, Reread(h), UNCHANGED targetVars
    PROVE  CreationInv'
<1>1. TypesInv /\ step[h] = "reread" /\ Reads /\ seen'[h] = seen[h] /\ updated'[h] = ToApi(cBudget[about[h]])
  BY RereadDoes DEF CreationInv
<1>2. step[h] \in Inner /\ step[h] \in Steps \ {"idle", "over", "start", "lock"}
  BY <1>1 DEF Inner, Steps
<1>3. ~ New(h) /\ OwnOf(h) /\ about[h] \in CampaignIds /\ (overran = {} => PatchedOf(h))
  BY <1>2, OnTheWay
<1>4. PICK s \in {"spread", "activations"} :
          /\ GoesOn(h, s)
          /\ s = "spread" => todo'[h] = GroupsOf(about[h])
          /\ s = "activations" => ToApi(cBudget[about[h]]) = seen[h].budget \/ GroupsOf(about[h]) = {}
  BY <1>1, RereadDoes
<1>5. step'[h] = s /\ want'[h] = want[h] /\ about'[h] = about[h]
  BY <1>4 DEF GoesOn
<1>6. updated'[h] \in ApiBudgets
  BY <1>1, <1>3, Budgets DEF TypesInv, CampaignTypes
<1>7. ReadOf(h)'
  BY <1>1, <1>3, <1>5, <1>6 DEF OwnOf, ReadOf, Patched
<1>8. TargetsKept(h)'
  BY <1>5 DEF TargetsKept
<1>9. UNCHANGED <<cStatus, cBudget, cEnd, cWriter, agHome, agBudget, torn>>
  BY <1>1 DEF Reads, UpstreamStays, CampaignsStay, GroupsStay
<1>10. overran = {} => PatchedOf(h)'
  BY <1>1, <1>3, <1>5, <1>9 DEF PatchedOf, Patched, Put, Asked
<1>11. ViewOf(h)'
  <2>1. GroupsOf(about[h])' = GroupsOf(about[h])
    BY <1>5, <1>9 DEF GroupsOf
  <2>2. QED  BY <1>1, <1>4, <1>5, <1>9, <2>1 DEF ViewOf, Viewing
<1>12. ASSUME NEW g \in AdGroupIds, Behind(g, h)
       PROVE  Behind(g, h)' \/ ToApi(agBudget[g]) = ToApi(cBudget[agHome[g]])
  <2>1. about[h] = agHome[g] /\ ToApi(agBudget[g]) = seen[h].budget /\ g \in GroupsOf(about[h])
    BY <1>1, <1>12 DEF Behind, GroupsOf
  <2>2. QED  BY <1>4, <1>5, <1>9, <2>1 DEF Behind
<1>13. Follows(step[h], s)
  BY <1>2, <1>4 DEF Follows, Inner
<1>14. QED  BY <1>1, <1>3, <1>4, <1>7, <1>8, <1>10, <1>11, <1>12, <1>13, ReadingKeeps DEF Reads

(* Between the patch and the answer, without a call that writes.           *)
LEMMA PassingKeeps ==
    ASSUME CreationInv, NEW h \in Handlers, step[h] \in {"activations", "validations", "publish", "settle"},
           NEW s \in {"validations", "publish", "settle", "answer"}, GoesOn(h, s), Same, UpstreamStays, CampaignTypes', GroupTypes',
           overran = {} => /\ UNCHANGED mistakes
                           /\ s \in {"validations", "publish"} => Asked(h) # "DRAFT" /\ GroupsOf(about[h]) # {}
                           /\ s = "publish" => about[h] \notin cFaulty
    PROVE  CreationInv'
<1>1. step[h] \in Inner /\ step[h] \in Steps \ {"idle", "over", "start", "lock"} /\ step[h] \in Patched
  BY DEF Inner, Steps, Patched
<1>2. ~ New(h) /\ Put(h) /\ OwnOf(h) /\ about[h] \in CampaignIds /\ (overran = {} => PatchedOf(h))
  BY <1>1, OnTheWay
<1>3. step'[h] = s /\ want'[h] = want[h] /\ about'[h] = about[h] /\ seen'[h] = seen[h]
  BY DEF GoesOn, Same
<1>4. ReadOf(h)'
  BY <1>1, <1>2, <1>3 DEF OwnOf, ReadOf, Patched
<1>5. TargetsKept(h)' /\ ViewOf(h)'
  BY <1>3 DEF TargetsKept, ViewOf, Viewing
<1>6. UNCHANGED <<cStatus, cBudget, cEnd, cWriter, cFaulty, agHome>>
  BY DEF UpstreamStays, CampaignsStay, GroupsStay
<1>7. UNCHANGED GroupsOf(about[h]) /\ Asked(h)' = Asked(h) /\ Put(h)'
  BY <1>2, <1>3, <1>6 DEF GroupsOf, Asked, Put
<1>8. overran = {} => PatchedOf(h)'
  BY <1>1, <1>2, <1>3, <1>6, <1>7 DEF PatchedOf
<1>9. \A g \in AdGroupIds : ~ Behind(g, h)
  BY DEF Behind
<1>10. Follows(step[h], s)
  BY <1>1 DEF Follows, Inner
<1>11. QED  BY <1>2, <1>4, <1>5, <1>8, <1>9, <1>10, ReadingKeeps

LEMMA CheckActivationsKeeps ==
    ASSUME CreationInv, NEW h \in Handlers, CheckActivations(h), UNCHANGED targetVars
    PROVE  CreationInv'
<1>1. /\ step[h] = "activations"
      /\ \/ Passes(h, "answer")
         \/ Passes(h, "validations") /\ Asked(h) # "DRAFT" /\ GroupsOf(about[h]) # {}
  BY CheckActivationsDoes DEF CreationInv
<1>2. PICK s \in {"validations", "answer"} :
          Passes(h, s) /\ (s = "validations" => Asked(h) # "DRAFT" /\ GroupsOf(about[h]) # {})
  BY <1>1
<1>3. QED  BY <1>1, <1>2, PassingKeeps DEF Passes, Reads

LEMMA CheckValidationsKeeps ==
    ASSUME CreationInv, NEW h \in Handlers, CheckValidations(h), UNCHANGED targetVars
    PROVE  CreationInv'
<1>1. /\ step[h] = "validations"
      /\ \/ Passes(h, "answer")
         \/ Passes(h, "publish") /\ about[h] \notin cFaulty
  BY CheckValidationsDoes DEF CreationInv
<1>2. PICK s \in {"publish", "answer"} : Passes(h, s) /\ (s = "publish" => about[h] \notin cFaulty)
  BY <1>1
<1>3. overran = {} => Asked(h) # "DRAFT" /\ GroupsOf(about[h]) # {}
  BY <1>1 DEF CreationInv, PatchedOf
<1>4. QED  BY <1>1, <1>2, <1>3, PassingKeeps DEF Passes, Reads

LEMMA PublishKeeps ==
    ASSUME CreationInv, NEW h \in Handlers, Publish(h), UNCHANGED targetVars
    PROVE  CreationInv'
<1>1. step[h] = "publish"
  BY DEF Publish, At
<1>2. step[h] \in Steps \ {"idle", "over", "start", "lock"} /\ step[h] \in Patched
  BY <1>1 DEF Steps, Patched
<1>3. about[h] \in CampaignIds /\ TypesInv /\ (overran = {} => PatchedOf(h))
  BY <1>2, OnTheWay
<1>4. /\ Same /\ UpstreamStays /\ CampaignTypes' /\ GroupTypes'
      /\ cStatus[about[h]] # "DRAFT" /\ GroupsOf(about[h]) # {} /\ about[h] \notin cFaulty => UNCHANGED mistakes
  BY <1>3, PublishDoes
<1>5. PICK s \in {"settle", "answer"} : GoesOn(h, s)
  BY <1>3, PublishDoes
<1>6. overran = {} => UNCHANGED mistakes
  BY <1>1, <1>2, <1>3, <1>4 DEF PatchedOf
<1>7. QED  BY <1>1, <1>4, <1>5, <1>6, PassingKeeps

LEMMA SettleKeeps ==
    ASSUME CreationInv, NEW h \in Handlers, Settle(h), UNCHANGED targetVars
    PROVE  CreationInv'
<1>1. step[h] = "settle" /\ Passes(h, "answer")
  BY SettleDoes DEF CreationInv
<1>2. QED  BY <1>1, PassingKeeps DEF Passes, Reads

LEMMA AnswerPauseKeeps ==
    ASSUME CreationInv, NEW h \in Handlers, AnswerPause(h), UNCHANGED targetVars
    PROVE  CreationInv'
<1>1. PICK ok : ok = NoDelta(want[h], View(about[h]))
  OBVIOUS
<1>2. step[h] = "paused" /\ IsOver(h, ok) /\ Reads
  BY <1>1, AnswerPauseDoes DEF CreationInv
<1>3. step[h] \in Steps \ {"idle", "over", "start", "lock"} /\ step[h] \in Inner
  BY <1>2 DEF Steps, Inner
<1>4. h \in Running /\ ~ New(h)
  BY <1>3, OnTheWay
<1>5. QED  BY <1>2, <1>4, OverKeeps DEF Reads

LEMMA AnswerGroupKeeps ==
    ASSUME CreationInv, NEW h \in Handlers, AnswerGroup(h)
    PROVE  CreationInv'
<1>1. PICK ok : ok = (todo[h] \subseteq agKnown)
  OBVIOUS
<1>2. step[h] = "answer group" /\ IsOver(h, ok) /\ Reads
  BY <1>1, AnswerGroupDoes DEF CreationInv
<1>3. step[h] \in Steps \ {"idle", "over", "start", "lock"} /\ step[h] \in PostSteps
  BY <1>2 DEF Steps, PostSteps
<1>4. h \in Running /\ ~ New(h)
  BY <1>3, OnTheWay
<1>5. QED  BY <1>2, <1>4, OverKeeps DEF Reads

LEMMA ReadForGroupKeeps ==
    ASSUME CreationInv, NEW h \in Handlers, ReadForGroup(h)
    PROVE  CreationInv'
<1>1. PICK no \in BOOLEAN : no = FALSE
  OBVIOUS
<1>2. TypesInv /\ step[h] = "campaign" /\ Reads
  BY ReadForGroupDoes DEF CreationInv
<1>3. step[h] \in PostSteps /\ step[h] \in Steps \ {"idle", "over", "start", "lock"}
  BY <1>2 DEF PostSteps, Steps
<1>4. h \in Running /\ ~ New(h) /\ about[h] \in CampaignIds
  BY <1>3, OnTheWay
<1>5. CASE IsOver(h, no)
  BY <1>1, <1>2, <1>4, <1>5, OverKeeps DEF Reads
<1>6. CASE ~ IsOver(h, no)
  <2>1. PICK s \in {"number divisions", "location group"} :
            GoesOn(h, s) /\ seen'[h] = View(about[h]) /\ FitsCampaign(want[h], seen'[h])
    BY <1>1, <1>2, <1>6, ReadForGroupDoes
  <2>2. step'[h] = s /\ want'[h] = want[h] /\ about'[h] = about[h]
    BY <2>1 DEF GoesOn
  <2>3. seen'[h].budget \in ApiBudgets
        /\ seen'[h].budget = ToApi(cBudget[about[h]]) /\ seen'[h].end = cEnd[about[h]]
    BY <1>2, <1>4, <2>1, ViewHas
  <2>4. ReadOf(h)'
    BY <2>2, <2>3 DEF ReadOf, Patched
  <2>5. TargetsKept(h)' /\ PatchedOf(h)'
    BY <2>2 DEF TargetsKept, PatchedOf, Patched
  <2>6. FitsCampaign(want'[h], seen'[h])
    BY <2>1, <2>2
  <2>7. ViewOf(h)'
    BY <1>2, <2>2, <2>3, <2>6 DEF ViewOf, Reads, UpstreamStays, CampaignsStay
  <2>8. \A g \in AdGroupIds : ~ Behind(g, h)
    BY <1>2 DEF Behind
  <2>9. Follows(step[h], s)
    BY <1>3, <2>1 DEF Follows, PostSteps
  <2>10. QED  BY <1>2, <1>4, <2>1, <2>4, <2>5, <2>7, <2>8, <2>9, ReadingKeeps DEF Reads
<1>7. QED  BY <1>5, <1>6

LEMMA MakeLocationGroupKeeps ==
    ASSUME CreationInv, NEW h \in Handlers, MakeLocationGroup(h)
    PROVE  CreationInv'
<1>1. /\ step[h] = "location group" /\ GoesOn(h, "activation") /\ located'[h] = PlacesFor(h)
      /\ UNCHANGED <<seen, updated, todo>> /\ Reads
  BY MakeLocationGroupDoes DEF CreationInv
<1>2. step[h] \in PostSteps /\ step[h] \in Steps \ {"idle", "over", "start", "lock"}
  BY <1>1 DEF PostSteps, Steps
<1>3. h \in Running /\ ~ New(h) /\ OwnOf(h) /\ (disturbed = {} => ViewOf(h))
  BY <1>2, OnTheWay
<1>4. step'[h] = "activation" /\ want'[h] = want[h] /\ about'[h] = about[h] /\ seen'[h] = seen[h]
  BY <1>1 DEF GoesOn
<1>5. ReadOf(h)'
  BY <1>3, <1>4 DEF OwnOf, ReadOf, Patched
<1>6. PlacesFor(h)' = PlacesFor(h)
  BY <1>1, <1>4 DEF PlacesFor, TargetsOf, Reads, UpstreamStays, DivisionsStay
<1>7. TargetsKept(h)'
  BY <1>1, <1>4, <1>6 DEF TargetsKept
<1>8. PatchedOf(h)'
  BY <1>4 DEF PatchedOf, Patched
<1>9. FitsCampaign(want[h], seen[h]) = FitsCampaign(want'[h], seen'[h])
  BY <1>4
<1>10. disturbed = {} => ViewOf(h)'
  BY <1>1, <1>2, <1>3, <1>4, <1>9 DEF ViewOf, Viewing, Reads, UpstreamStays, CampaignsStay
<1>11. \A g \in AdGroupIds : ~ Behind(g, h)
  BY <1>1 DEF Behind
<1>12. Follows(step[h], "activation")
  BY <1>2 DEF Follows, PostSteps
<1>13. QED  BY <1>1, <1>3, <1>5, <1>7, <1>8, <1>10, <1>11, <1>12, ReadingKeeps DEF Reads

(* A request arrives, enters the section of its campaign, outlives its     *)
(* lease.                                                                  *)
LEMMA BeginKeeps ==
    ASSUME CreationInv, NEW h \in Handlers, NEW r \in Requests, Begin(h, r), UNCHANGED targetVars
    PROVE  CreationInv'
<1> DEFINE s == step'[h]
<1>1. /\ TypesInv /\ OwnOf(h) /\ Apart
      /\ step[h] = "idle" /\ Moves(h) /\ Reads /\ Same
      /\ want'[h] = r /\ UNCHANGED <<inside, lapsed, succeeded, overran>>
      /\ r.op = "create" => about'[h] = about[h] /\ s \in {"start", "over"}
                            /\ (s = "start" => BillingOf(r) # "refused")
      /\ r.op # "create" => about'[h] \in CampaignIds /\ cStatus[about'[h]] \in Statuses
      /\ r.op = "put" => s = "lock"
      /\ r.op = "post" => s = "campaign"
      /\ disturbed' = disturbed \cup (IF Running = {} THEN {} ELSE Running \cup {h})
  BY BeginDoes DEF CreationInv
<1>2. r.op \in {"create", "put", "post"}
  BY RequestsAssumption
<1>3. /\ about[h] = NoOne /\ h \notin succeeded /\ h \notin inside /\ h \notin Running /\ NoOne \notin CampaignIds
      /\ about'[h] \in CampaignIds \cup {NoOne} /\ seen'[h].budget \in ApiBudgets
  BY <1>1, <1>2, NoOneAssumption DEF OwnOf, PlaceOf, ReadOf, Running, Inner, Same
<1>4. h \in Running' <=> s # "over"
  BY <1>1, <1>2 DEF Running
<1>5. PlaceOf(h)'
  BY <1>1, <1>2, <1>3, <1>4 DEF PlaceOf, New, Put, Post, NewSteps, Inner, PostSteps
<1>6. ReadOf(h)'
  <2>1. s = "start" => BillingOf(r) \in Payers
    BY <1>1, <1>2 DEF BillingOf, Payers
  <2>2. QED  BY <1>1, <1>2, <1>3, <2>1 DEF ReadOf, Patched
<1>7. StageOf(h)'
  BY <1>1, <1>2, <1>3, <1>4 DEF StageOf, New, Reads, UpstreamStays, CampaignsStay, Statuses
<1>8. MadeOf(h)' /\ TargetsKept(h)' /\ PatchedOf(h)' /\ ViewOf(h)'
  BY <1>1, <1>2, <1>3 DEF MadeOf, TargetsKept, PatchedOf, ViewOf, New, Patched, Viewing, PostSteps
<1>9. Apart'
  <2>1. \A i \in Handlers \ {h} : SameOf(i)
    BY <1>1 DEF Moves
  <2>2. ASSUME NEW i \in Handlers, NEW k \in Handlers, New(i)', New(k)', about'[i] = about'[k], about'[i] # NoOne
        PROVE  i = k
    <3>1. i # h /\ k # h
      BY <1>1, <1>2, <1>3, <2>2 DEF New
    <3>2. New(i) /\ New(k) /\ about[i] = about[k] /\ about[i] # NoOne
      BY <2>1, <2>2, <3>1 DEF SameOf, New
    <3>3. QED  BY <1>1, <3>2 DEF Apart
  <2>3. \A i, k \in inside' \ lapsed' : about'[i] = about'[k] => i = k
    <3>1. \A i \in inside : i \in Handlers \ {h}
      BY <1>1, <1>3 DEF TypesInv, HandlerTypes
    <3>2. \A i \in inside : about'[i] = about[i]
      BY <2>1, <3>1 DEF SameOf
    <3>3. QED  BY <1>1, <3>2 DEF Apart
  <2>4. Running' \subseteq Running \cup {h}
    BY <2>1 DEF Running, SameOf
  <2>5. ASSUME NEW i \in Running' \ disturbed'
        PROVE  Running' = {i}
    <3>1. CASE Running = {}
      BY <2>4, <2>5, <3>1
    <3>2. CASE Running # {}
      BY <1>1, <2>4, <2>5, <3>2
    <3>3. QED  BY <3>1, <3>2
  <2>6. QED  BY <2>2, <2>3, <2>5 DEF Apart
<1>10. \A g \in AdGroupIds : ~ Behind(g, h)
  BY <1>1 DEF Behind
<1>11. OwnOf(h)'
  BY <1>5, <1>6, <1>7, <1>8 DEF OwnOf
<1>12. QED  BY <1>1, <1>8, <1>9, <1>10, <1>11, LocalKeeps DEF Reads

LEMMA TakeLockKeeps ==
    ASSUME CreationInv, NEW h \in Handlers, TakeLock(h), UNCHANGED targetVars
    PROVE  CreationInv'
<1>1. /\ TypesInv /\ OwnOf(h) /\ Apart
      /\ step[h] = "lock" /\ step'[h] = "read" /\ Moves(h) /\ Reads /\ Same
      /\ \A i \in inside \ lapsed : about[i] # about[h]
      /\ inside' = inside \cup {h} /\ UNCHANGED <<want, about, lapsed, succeeded, disturbed, overran>>
  BY TakeLockDoes DEF CreationInv
<1>2. h \in Running /\ Put(h) /\ ~ New(h) /\ h \notin succeeded /\ seen'[h] = seen[h] /\ Running' = Running
  BY <1>1 DEF OwnOf, PlaceOf, Running, Put, New, Moves, SameOf, Same
<1>3. PlaceOf(h)'
  BY <1>1, <1>2 DEF OwnOf, PlaceOf, NewSteps, Inner, PostSteps, New, Put, Post
<1>4. ReadOf(h)'
  BY <1>1, <1>2 DEF OwnOf, ReadOf, Patched
<1>5. StageOf(h)'
  BY <1>1, <1>2 DEF OwnOf, StageOf, New, Reads, UpstreamStays, CampaignsStay
<1>6. MadeOf(h)' /\ TargetsKept(h)' /\ PatchedOf(h)' /\ ViewOf(h)'
  BY <1>1, <1>2 DEF MadeOf, TargetsKept, PatchedOf, ViewOf, New, Patched, Viewing, PostSteps
<1>7. Apart'
  <2>1. \A i, k \in inside' \ lapsed' : about'[i] = about'[k] => i = k
    BY <1>1 DEF Apart
  <2>2. QED  BY <1>1, <1>2, <2>1 DEF Apart, New
<1>8. \A g \in AdGroupIds : ~ Behind(g, h)
  BY <1>1 DEF Behind
<1>9. OwnOf(h)'
  BY <1>3, <1>4, <1>5, <1>6 DEF OwnOf
<1>10. QED  BY <1>1, <1>6, <1>7, <1>8, <1>9, LocalKeeps DEF Reads

LEMMA LeaseRunsOutKeeps ==
    ASSUME CreationInv, NEW h \in Handlers, LeaseRunsOut(h), UNCHANGED targetVars
    PROVE  CreationInv'
<1>1. /\ TypesInv /\ OwnOf(h) /\ Apart
      /\ h \in inside \ lapsed /\ Moves(h) /\ Reads /\ Same
      /\ lapsed' = lapsed \cup {h} /\ overran' = overran \cup {h}
      /\ UNCHANGED <<step, want, about, inside, succeeded, disturbed>>
  BY LeaseRunsOutDoes DEF CreationInv
<1>2. UpstreamStays /\ Running' = Running
  BY <1>1 DEF Reads, Running
<1>3. PlaceOf(h)'
  BY <1>1, <1>2 DEF OwnOf, PlaceOf, New, Put, Post
<1>4. ReadOf(h)'
  BY <1>1, <1>2 DEF OwnOf, ReadOf, Same, UpstreamStays, DivisionsStay
<1>5. StageOf(h)'
  BY <1>1, <1>2 DEF OwnOf, StageOf, New, UpstreamStays, CampaignsStay
<1>6. MadeOf(h)'
  BY <1>1, <1>2 DEF OwnOf, MadeOf, Made, New, UpstreamStays, CampaignsStay
<1>7. TargetsKept(h)'
  BY <1>1, <1>2 DEF OwnOf, TargetsKept, Same, UpstreamStays, GroupsStay, DivisionsStay, PlacesFor, TargetsOf
<1>8. GroupsOf(about[h])' = GroupsOf(about[h])
  BY <1>1, <1>2 DEF GroupsOf, UpstreamStays, GroupsStay
<1>9. disturbed = {} => ViewOf(h)'
  BY <1>1, <1>2, <1>8 DEF CreationInv, ViewOf, Same, UpstreamStays, CampaignsStay, GroupsStay
<1>10. Apart'
  BY <1>1, <1>2 DEF Apart, New
<1>11. \A g \in AdGroupIds : Behind(g, h) => Behind(g, h)'
  BY <1>1, <1>2 DEF Behind, Same, UpstreamStays, GroupsStay
<1>12. OwnOf(h)' /\ overran' # {}
  BY <1>1, <1>3, <1>4, <1>5, <1>6, <1>7 DEF OwnOf
<1>13. QED  BY <1>1, <1>9, <1>10, <1>11, <1>12, LocalKeeps DEF Reads
-----------------------------------------------------------------------------
(* A request that writes to one campaign keeps the invariant when it does  *)
(* so for itself, for the others on that campaign and for its ad groups.   *)
LEMMA CampaignWriteKeeps ==
    ASSUME CreationInv, NEW h \in Handlers, h \in Running, Moves(h), UNCHANGED <<disturbed, overran>>,
           CampaignTypes', GroupTypes', GroupsStay, DivisionsStay, Apart', OwnOf(h)',
           NEW c \in CampaignIds, \A d \in CampaignIds \ {c} : StaysAt(d),
           cStatus[c] \in Statuses => cStatus'[c] \in Statuses,
           \A i \in Handlers \ {h} : about[i] = c => StageOf(i)' /\ MadeOf(i)',
           overran = {} => /\ UNCHANGED mistakes /\ PatchedOf(h)'
                           /\ \A i \in Handlers \ {h} : about[i] = c => PatchedOf(i)',
           disturbed = {} => /\ ViewOf(h)'
                             /\ \A g \in AdGroupIds : agHome[g] = c => BudgetOf(g)' /\ EndOf(g)'
                             /\ \A g \in AdGroupIds : agHome[g] # c => ~ Behind(g, h)
    PROVE  CreationInv'
<1>1. /\ HandlerTypes' /\ Grows /\ \A i \in Handlers \ {h} : SameOf(i)
      /\ DivisionTypes /\ UNCHANGED agHome /\ GroupTypes /\ CampaignTypes
  BY DEF Moves, CreationInv, TypesInv, GroupsStay
<1>2. TypesInv'
  BY <1>1 DEF TypesInv, DivisionTypes, DivisionsStay
<1>3. \A i \in Handlers : OwnOf(i)'
  <2>1. ASSUME NEW i \in Handlers \ {h}
        PROVE  OwnOf(i)'
    <3>1. OwnOf(i) /\ SameOf(i) /\ dNumbered' \in {dNumbered, Divisions}
      BY <1>1 DEF CreationInv, DivisionsStay
    <3>2. PlaceOf(i)' /\ ReadOf(i)' /\ TargetsKept(i)'
      BY <1>1, <3>1, PlaceStays, ReadStays, TargetsStay DEF OwnOf
    <3>3. CASE about[i] = c
      BY <3>2, <3>3 DEF OwnOf
    <3>4. CASE about[i] # c
      BY <1>1, <3>1, <3>4, OwnStays
    <3>5. QED  BY <3>3, <3>4
  <2>2. QED  BY <2>1
<1>4. \A g \in AdGroupIds : HomeOf(g)'
  <2>1. ASSUME NEW g \in AdGroupIds, agHome[g] # NoOne
        PROVE  cStatus'[agHome[g]] \in Statuses
    <3>1. agHome[g] \in CampaignIds /\ cStatus[agHome[g]] \in Statuses
      BY <1>1, <2>1 DEF CreationInv, HomeOf, GroupTypes
    <3>2. CASE agHome[g] = c
      BY <3>1, <3>2
    <3>3. CASE agHome[g] # c
      BY <3>1, <3>3 DEF StaysAt, ValuesAt
    <3>4. QED  BY <3>2, <3>3
  <2>2. QED  BY <1>1, <2>1 DEF HomeOf
<1>5. ASSUME overran' = {}
      PROVE  mistakes' = {} /\ \A i \in Handlers : PatchedOf(i)'
  <2>1. overran = {} /\ mistakes = {} /\ \A i \in Handlers : PatchedOf(i)
    BY <1>5 DEF CreationInv
  <2>2. ASSUME NEW i \in Handlers \ {h}
        PROVE  PatchedOf(i)'
    <3>1. CASE about[i] = c
      BY <2>1, <3>1
    <3>2. CASE about[i] # c
      BY <1>1, <2>1, <3>2, PatchedStays DEF CreationInv, OwnOf, StaysAt
    <3>3. QED  BY <3>1, <3>2
  <2>3. QED  BY <2>1, <2>2
<1>6. ASSUME disturbed' = {}
      PROVE  /\ \A i \in Handlers : ViewOf(i)'
             /\ \A g \in AdGroupIds : BudgetOf(g)' /\ EndOf(g)'
  <2>1. disturbed = {} /\ \A g \in AdGroupIds : BudgetOf(g) /\ EndOf(g)
    BY <1>6 DEF CreationInv
  <2>2. ASSUME NEW i \in Handlers \ {h}
        PROVE  i \notin Running /\ ViewOf(i)'
    <3>1. i \notin Running
      BY <2>1 DEF CreationInv, Apart
    <3>2. step'[i] \in {"idle", "over"}
      BY <1>1, <3>1 DEF Running, SameOf
    <3>3. QED  BY <3>1, <3>2 DEF ViewOf, Viewing
  <2>3. ASSUME NEW g \in AdGroupIds
        PROVE  BudgetOf(g)' /\ EndOf(g)'
    <3>1. CASE agHome[g] = c
      BY <2>1, <3>1
    <3>2. CASE agHome[g] # c
      <4>1. agHome[g] # NoOne => agHome[g] \in CampaignIds /\ StaysAt(agHome[g])
        BY <1>1, <3>2 DEF GroupTypes
      <4>2. \A i \in Handlers : ~ Behind(g, i)
        <5>1. ASSUME NEW i \in Handlers \ {h}
              PROVE  ~ Behind(g, i)
          BY <2>2 DEF Behind, Running
        <5>2. QED  BY <2>1, <3>2, <5>1
      <4>3. BudgetOf(g)'
        BY <1>1, <2>1, <4>1, <4>2 DEF BudgetOf, Grows, GroupsStay, StaysAt, ValuesAt
      <4>4. EndOf(g)'
        BY <1>1, <2>1, <4>1 DEF EndOf, Grows, GroupsStay, StaysAt, ValuesAt
      <4>5. QED  BY <4>3, <4>4
    <3>3. QED  BY <3>1, <3>2
  <2>4. QED  BY <2>1, <2>2, <2>3
<1>7. QED  BY <1>2, <1>3, <1>4, <1>5, <1>6 DEF CreationInv

(* A request that writes to ad groups: those in a campaign stay there.     *)
LEMMA GroupWriteKeeps ==
    ASSUME CreationInv, NEW h \in Handlers, h \in Running, Moves(h), UNCHANGED <<disturbed, overran, mistakes>>,
           CampaignTypes', GroupTypes', CampaignsStay, DivisionsStay, Apart', OwnOf(h)',
           \A g \in AdGroupIds : HomeOf(g)' /\ (agHome[g] # NoOne => agHome'[g] = agHome[g]),
           \A g \in AdGroupIds : agHome[g] # NoOne /\ agStatus[g] # "ENDED" => agStatus'[g] # "ENDED",
           overran = {} => PatchedOf(h)',
           disturbed = {} => ViewOf(h)' /\ \A g \in AdGroupIds : BudgetOf(g)' /\ EndOf(g)'
    PROVE  CreationInv'
<1>1. /\ HandlerTypes' /\ Grows /\ (\A i \in Handlers \ {h} : SameOf(i))
      /\ DivisionTypes /\ GroupTypes /\ (\A c : StaysAt(c)) /\ TypesInv
  BY StaysEverywhere DEF Moves, CreationInv, TypesInv
<1>2. TypesInv'
  BY <1>1 DEF TypesInv, DivisionTypes, DivisionsStay
<1>3. ASSUME NEW i \in Handlers \ {h}, OwnOf(i)
      PROVE  OwnOf(i)'
  <2>1. SameOf(i) /\ dNumbered' \in {dNumbered, Divisions}
    BY <1>1 DEF DivisionsStay
  <2>2. PlaceOf(i)' /\ ReadOf(i)'
    BY <1>1, <1>3, <2>1, PlaceStays, ReadStays DEF OwnOf
  <2>3. StageOf(i)' /\ MadeOf(i)'
    BY <1>1, <1>3, <2>1, StageStays, MadeStays DEF OwnOf, StaysAt, ValuesAt
  <2>4. i \notin disturbed => i \notin Running
    BY DEF CreationInv, Apart
  <2>5. step[i] \in {"activation", "approve", "answer group"} => i \in Running
    BY DEF Running
  <2>6. step[i] = "approve" => \A g \in todo[i] : agStatus'[g] # "ENDED" /\ agHome'[g] # NoOne
    <3>1. todo[i] \subseteq AdGroupIds
      BY <1>1 DEF TypesInv, HandlerTypes
    <3>2. QED  BY <1>3, <3>1 DEF OwnOf, TargetsKept
  <2>7. TargetsKept(i)'
    BY <2>1, <2>4, <2>5, <2>6 DEF TargetsKept, SameOf
  <2>8. QED  BY <2>2, <2>3, <2>7 DEF OwnOf
<1>4. ASSUME NEW i \in Handlers \ {h}, OwnOf(i), PatchedOf(i)
      PROVE  PatchedOf(i)'
  <2>1. step[i] \in Patched \cup {"answer", "pause", "paused"} => about[i] \in CampaignIds
    BY <1>4 DEF OwnOf, PlaceOf, Running, Patched
  <2>2. about[i] \in CampaignIds /\ GroupsOf(about[i]) # {} => GroupsOf(about[i])' # {}
    <3>1. about'[i] = about[i]
      BY <1>1, <1>4 DEF SameOf
    <3>2. \A g \in AdGroupIds : agHome[g] = about[i] /\ about[i] \in CampaignIds => agHome'[g] = about[i]
      BY NoOneAssumption
    <3>3. QED  BY <3>1, <3>2 DEF GroupsOf
  <2>3. Asked(i)' = Asked(i) /\ SameOf(i) /\ ValuesAt(about[i])
    BY <1>1, <1>4 DEF Asked, SameOf, StaysAt
  <2>4. QED  BY <1>4, <2>1, <2>2, <2>3 DEF PatchedOf, SameOf, Put, Patched, ValuesAt
<1>5. ASSUME disturbed' = {}
      PROVE  \A i \in Handlers : ViewOf(i)'
  <2>1. ASSUME NEW i \in Handlers \ {h}
        PROVE  ViewOf(i)'
    <3>1. i \notin Running
      BY <1>5 DEF CreationInv, Apart
    <3>2. step'[i] \in {"idle", "over"}
      BY <1>1, <3>1 DEF Running, SameOf
    <3>3. QED  BY <3>2 DEF ViewOf, Viewing
  <2>2. QED  BY <1>5, <2>1
<1>6. \A i \in Handlers : OwnOf(i)'
  BY <1>3 DEF CreationInv
<1>7. overran' = {} => mistakes' = {} /\ \A i \in Handlers : PatchedOf(i)'
  BY <1>4 DEF CreationInv
<1>8. QED  BY <1>2, <1>5, <1>6, <1>7 DEF CreationInv

(* A request that writes to the divisions.                                 *)
LEMMA DivisionWriteKeeps ==
    ASSUME CreationInv, NEW h \in Handlers, h \in Running, Moves(h), UNCHANGED <<disturbed, overran, mistakes>>,
           CampaignTypes', GroupTypes', CampaignsStay, GroupsStay, DivisionTypes', dNumbered' \in {dNumbered, Divisions},
           Apart', OwnOf(h)', PatchedOf(h)', disturbed = {} => ViewOf(h)', \A g \in AdGroupIds : ~ Behind(g, h)
    PROVE  CreationInv'
<1>1. /\ HandlerTypes' /\ Grows /\ (\A i \in Handlers \ {h} : SameOf(i))
      /\ DivisionTypes /\ UNCHANGED agHome /\ (\A c : StaysAt(c)) /\ TypesInv'
  BY StaysEverywhere DEF Moves, CreationInv, TypesInv, GroupsStay
<1>2. ASSUME NEW i \in Handlers \ {h}, OwnOf(i)
      PROVE  OwnOf(i)'
  <2>1. SameOf(i)
    BY <1>1
  <2>2. PlaceOf(i)' /\ ReadOf(i)'
    BY <1>1, <1>2, <2>1, PlaceStays, ReadStays DEF OwnOf
  <2>3. StageOf(i)' /\ MadeOf(i)'
    BY <1>1, <1>2, <2>1, StageStays, MadeStays DEF OwnOf, StaysAt, ValuesAt
  <2>4. i \notin disturbed => i \notin Running
    BY DEF CreationInv, Apart
  <2>5. step[i] \in {"activation", "approve", "answer group"} => i \in Running
    BY DEF Running
  <2>6. TargetsKept(i)'
    BY <1>2, <2>1, <2>4, <2>5 DEF OwnOf, TargetsKept, SameOf, GroupsStay
  <2>7. QED  BY <2>2, <2>3, <2>6 DEF OwnOf
<1>3. \A i \in Handlers : OwnOf(i)'
  BY <1>2 DEF CreationInv
<1>4. \A g \in AdGroupIds : HomeOf(g)'
  BY DEF CreationInv, HomeOf, CampaignsStay, GroupsStay
<1>5. ASSUME overran' = {}
      PROVE  mistakes' = {} /\ \A i \in Handlers : PatchedOf(i)'
  <2>1. overran = {} /\ mistakes' = {} /\ \A i \in Handlers : PatchedOf(i)
    BY <1>5 DEF CreationInv
  <2>2. ASSUME NEW i \in Handlers \ {h}
        PROVE  PatchedOf(i)'
    BY <1>1, <2>1, PatchedStays DEF CreationInv, OwnOf, StaysAt
  <2>3. QED  BY <2>1, <2>2
<1>6. ASSUME disturbed' = {}
      PROVE  /\ \A i \in Handlers : ViewOf(i)'
             /\ \A g \in AdGroupIds : BudgetOf(g)' /\ EndOf(g)'
  <2>1. disturbed = {} /\ (\A i \in Handlers : ViewOf(i)) /\ \A g \in AdGroupIds : BudgetOf(g) /\ EndOf(g)
    BY <1>6 DEF CreationInv
  <2>2. ASSUME NEW i \in Handlers \ {h}
        PROVE  ViewOf(i)'
    BY <1>1, <2>1, ViewStays DEF CreationInv, OwnOf
  <2>3. ASSUME NEW g \in AdGroupIds
        PROVE  EndOf(g)'
    BY <1>1, <2>1 DEF EndOf, GroupsStay, CampaignsStay
  <2>4. ASSUME NEW g \in AdGroupIds
        PROVE  BudgetOf(g)'
    <3>1. ASSUME NEW i \in Handlers, Behind(g, i)
          PROVE  Behind(g, i)'
      BY <1>1, <3>1 DEF Behind, SameOf, GroupsStay
    <3>2. QED  BY <1>1, <2>1, <3>1 DEF BudgetOf, Grows, GroupsStay, CampaignsStay
  <2>5. QED  BY <2>1, <2>2, <2>3, <2>4
<1>7. QED  BY <1>1, <1>3, <1>4, <1>5, <1>6 DEF CreationInv

(* What happens outside the requests: a campaign ends, a look-up is filled.*)
LEMMA OutsideKeeps ==
    ASSUME CreationInv, UNCHANGED <<secVars, requestVars, localVars, located, step, disturbed, overran, historyVars>>,
           GroupsStay, DivisionsStay, UNCHANGED <<cBudget, cEnd, cPo, cAddresses, cWriter, cFaulty, cSummary>>,
           CampaignTypes', GroupTypes',
           \A c \in CampaignIds : \/ cStatus'[c] = cStatus[c]
                                  \/ cStatus[c] \in {"ACTIVE", "PAUSED"} /\ cStatus'[c] = "ENDED"
    PROVE  CreationInv'
<1>1. /\ TypesInv /\ Grows /\ Running' = Running /\ UNCHANGED agHome /\ \A i \in Handlers : SameOf(i)
  BY DEF CreationInv, Grows, SameOf, Running, secVars, requestVars, localVars, historyVars, GroupsStay
<1>2. TypesInv'
  BY <1>1 DEF TypesInv, HandlerTypes, DivisionTypes, DivisionsStay, secVars, requestVars, localVars
<1>3. Apart'
  BY <1>1 DEF CreationInv, Apart, New, secVars, requestVars
<1>4. \A c \in CampaignIds : RecordAt(c)
  BY DEF RecordAt
<1>5. \A c \in CampaignIds : /\ cStatus[c] \in Statuses => cStatus'[c] \in Statuses
                             /\ cStatus[c] = "new" => cStatus'[c] = "new"
                             /\ cStatus[c] # "none" => cStatus'[c] # "none"
  BY DEF Statuses
<1>6. ASSUME NEW i \in Handlers
      PROVE  OwnOf(i)'
  <2>1. OwnOf(i) /\ SameOf(i) /\ DivisionTypes /\ dNumbered' \in {dNumbered, Divisions}
    BY <1>1 DEF CreationInv, TypesInv, DivisionsStay
  <2>2. PlaceOf(i)' /\ ReadOf(i)' /\ TargetsKept(i)' /\ MadeOf(i)'
    BY <1>1, <1>4, <2>1, PlaceStays, ReadStays, TargetsStay, MadeStays DEF OwnOf
  <2>3. StageOf(i)'
    BY <1>1, <1>5, <2>1 DEF OwnOf, StageOf, PlaceOf, SameOf, New, Running
  <2>4. QED  BY <2>2, <2>3 DEF OwnOf
<1>7. \A g \in AdGroupIds : HomeOf(g)'
  BY <1>1, <1>5 DEF CreationInv, HomeOf, TypesInv, GroupTypes
<1>8. ASSUME overran' = {}
      PROVE  mistakes' = {} /\ \A i \in Handlers : PatchedOf(i)'
  <2>1. mistakes' = {} /\ \A i \in Handlers : PatchedOf(i)
    BY <1>8 DEF CreationInv, historyVars
  <2>2. ASSUME NEW i \in Handlers
        PROVE  PatchedOf(i)'
    <3>1. OwnOf(i) /\ SameOf(i) /\ PatchedOf(i)
      BY <1>1, <2>1 DEF CreationInv
    <3>2. step[i] \in Patched \cup {"answer", "pause", "paused"} => about[i] \in CampaignIds
      BY <3>1 DEF OwnOf, PlaceOf, Running, Patched
    <3>3. UNCHANGED GroupsOf(about[i]) /\ Asked(i)' = Asked(i)
      BY <1>1, <3>1 DEF GroupsOf, Asked, SameOf
    <3>4. \A c \in CampaignIds : cStatus[c] \in {Asked(i), "ENDED"} => cStatus'[c] \in {Asked(i), "ENDED"}
      OBVIOUS
    <3>5. QED  BY <3>1, <3>2, <3>3, <3>4 DEF PatchedOf, SameOf, Put, Patched
  <2>3. QED  BY <2>1, <2>2
<1>9. ASSUME disturbed' = {}
      PROVE  /\ \A i \in Handlers : ViewOf(i)'
             /\ \A g \in AdGroupIds : BudgetOf(g)' /\ EndOf(g)'
  <2>1. (\A i \in Handlers : ViewOf(i)) /\ \A g \in AdGroupIds : BudgetOf(g) /\ EndOf(g)
    BY <1>9 DEF CreationInv
  <2>2. ASSUME NEW i \in Handlers
        PROVE  ViewOf(i)'
    <3>1. UNCHANGED GroupsOf(about[i]) /\ SameOf(i) /\ ViewOf(i)
      BY <1>1, <2>1 DEF GroupsOf, SameOf
    <3>2. QED  BY <3>1 DEF ViewOf, SameOf, GroupsStay
  <2>3. ASSUME NEW g \in AdGroupIds
        PROVE  EndOf(g)'
    BY <1>1, <2>1 DEF EndOf, GroupsStay, historyVars
  <2>4. ASSUME NEW g \in AdGroupIds
        PROVE  BudgetOf(g)'
    <3>1. ASSUME NEW i \in Handlers, Behind(g, i)
          PROVE  Behind(g, i)'
      BY <1>1, <3>1 DEF Behind, SameOf, GroupsStay
    <3>2. QED  BY <1>1, <2>1, <3>1 DEF BudgetOf, Grows, GroupsStay
  <2>5. QED  BY <2>2, <2>3, <2>4
<1>10. QED  BY <1>2, <1>3, <1>6, <1>7, <1>8, <1>9 DEF CreationInv

(* A request that made a campaign is alone with it until it is patched.    *)
LEMMA MakersApart ==
    ASSUME CreationInv, NEW h \in Handlers, New(h), about[h] \in CampaignIds, NEW i \in Handlers \ {h}, about[i] = about[h]
    PROVE  ~ New(i) /\ (cStatus[about[h]] = "new" => i \notin Running)
<1>1. about[h] # NoOne /\ OwnOf(i)
  BY NoOneAssumption DEF CreationInv
<1>2. ~ New(i)
  BY <1>1 DEF CreationInv, Apart
<1>3. QED  BY <1>1, <1>2 DEF OwnOf, PlaceOf, StageOf, NewSteps, Statuses

LEMMA RestsOver ==
    ASSUME NEW i \in Handlers, SameOf(i), i \notin Running, OwnOf(i), ~ New(i)
    PROVE  StageOf(i)' /\ MadeOf(i)' /\ PatchedOf(i)'
<1>1. step'[i] \in {"idle", "over"} /\ ~ New(i)'
  BY DEF SameOf, Running, New
<1>2. QED  BY <1>1 DEF StageOf, MadeOf, PatchedOf, Patched, Running

LEMMA StartCampaignKeeps ==
    ASSUME CreationInv, NEW h \in Handlers, StartCampaign(h), UNCHANGED targetVars
    PROVE  CreationInv'
<1>1. /\ step[h] = "start" /\ step'[h] = "details" /\ Moves(h) /\ Same
      /\ about'[h] \in CampaignIds /\ cStatus[about'[h]] = "none"
      /\ cStatus' = [cStatus EXCEPT ![about'[h]] = "new"]
      /\ UNCHANGED <<want, inside, lapsed, succeeded, disturbed, overran>>
      /\ UNCHANGED <<cBudget, cEnd, cPo, cAddresses, cWriter, cFaulty, cSummary, shortened, torn, mistakes>>
      /\ GroupsStay /\ DivisionsStay /\ CampaignTypes' /\ GroupTypes'
  BY StartCampaignDoes DEF CreationInv
<1>2. PICK c \in CampaignIds : c = about'[h]
  BY <1>1
<1>3. TypesInv /\ OwnOf(h) /\ Apart /\ \A i \in Handlers \ {h} : SameOf(i)
  BY <1>1 DEF CreationInv, Moves
<1>4. h \in Running /\ Running' = Running /\ New(h) /\ want[h] \in Requests /\ h \notin succeeded /\ h \notin inside
  BY <1>1, <1>3 DEF OwnOf, PlaceOf, Running, NewSteps, SameOf, Inner, New, Put
<1>5. ASSUME NEW i \in Handlers, about[i] = c
      PROVE  ~ New(i) /\ i \notin Running /\ OwnOf(i)
  <2>1. OwnOf(i) /\ c # NoOne
    BY <1>1, NoOneAssumption DEF CreationInv
  <2>2. QED  BY <1>1, <1>2, <1>5, <2>1 DEF OwnOf, StageOf, PlaceOf, Statuses
<1>6. cStatus'[c] = "new" /\ \A d \in CampaignIds \ {c} : StaysAt(d)
  BY <1>1, <1>2, <1>3 DEF TypesInv, CampaignTypes, StaysAt, RecordAt, ValuesAt
<1>7. PlaceOf(h)'
  BY <1>1, <1>4 DEF PlaceOf, New, Put, NewSteps, Inner, PostSteps
<1>8. ReadOf(h)'
  BY <1>1, <1>3 DEF OwnOf, ReadOf, Same, Patched
<1>9. StageOf(h)'
  BY <1>1, <1>2, <1>6 DEF StageOf
<1>10. MadeOf(h)' /\ TargetsKept(h)' /\ PatchedOf(h)' /\ ViewOf(h)'
  BY <1>1, <1>4 DEF MadeOf, TargetsKept, PatchedOf, ViewOf, Patched, Viewing
<1>11. Apart'
  <2>1. ASSUME NEW i \in Handlers, NEW k \in Handlers, New(i)', New(k)', about'[i] = about'[k], about'[i] # NoOne
        PROVE  i = k
    <3>1. \A j \in Handlers \ {h} : New(j)' => New(j) /\ about'[j] = about[j] /\ about[j] # c
      BY <1>3, <1>5 DEF SameOf, New
    <3>2. QED  BY <1>2, <1>3, <2>1, <3>1 DEF Apart
  <2>2. \A i \in inside : about'[i] = about[i]
    BY <1>3, <1>4 DEF SameOf, TypesInv, HandlerTypes
  <2>3. \A i, k \in inside' \ lapsed' : about'[i] = about'[k] => i = k
    BY <1>1, <1>3, <2>2 DEF Apart
  <2>4. QED  BY <1>1, <1>3, <1>4, <2>1, <2>3 DEF Apart
<1>12. \A i \in Handlers \ {h} : about[i] = c => StageOf(i)' /\ MadeOf(i)' /\ PatchedOf(i)'
  BY <1>3, <1>5, RestsOver
<1>13. cStatus[c] \notin Statuses /\ \A g \in AdGroupIds : agHome[g] # c /\ ~ Behind(g, h)
  <2>1. cStatus[c] \notin Statuses /\ c # NoOne
    BY <1>1, <1>2, NoOneAssumption DEF Statuses
  <2>2. QED  BY <1>1, <2>1 DEF CreationInv, HomeOf, Behind
<1>14. OwnOf(h)'
  BY <1>7, <1>8, <1>9, <1>10 DEF OwnOf
<1>15. QED  BY <1>1, <1>4, <1>6, <1>10, <1>11, <1>12, <1>13, <1>14, CampaignWriteKeeps

LEMMA PatchNewKeeps ==
    ASSUME CreationInv, NEW h \in Handlers, PatchNew(h), UNCHANGED targetVars
    PROVE  CreationInv'
<1>1. TypesInv /\ OwnOf(h) /\ Apart
  BY DEF CreationInv
<1>2. PICK status, budget, end, payer, po :
          status = want[h].status /\ budget = ToUpstream(want[h].budget) /\ end = want[h].end
          /\ payer = BillingOf(want[h]) /\ po = NewPo(want[h])
  OBVIOUS
<1>3. /\ step[h] = "details" /\ GoesOn(h, "contacts") /\ Same /\ UNCHANGED shortened
      /\ want[h].budget \in ApiBudgets /\ want[h].status \in Statuses
      /\ Writes(h, status, budget, end, payer, po)
  BY <1>1, <1>2, PatchNewDoes DEF OwnOf
<1>4. Follows(step[h], "contacts")
  BY <1>3 DEF Follows
<1>5. h \in Running /\ New(h) /\ want[h] \in Requests /\ about[h] \in CampaignIds /\ cStatus[about[h]] = "new"
      /\ payer \in Payers
  BY <1>1, <1>2, <1>3 DEF OwnOf, PlaceOf, ReadOf, StageOf, Running, NewSteps
<1>6. PICK c \in CampaignIds : c = about[h]
  BY <1>5
<1>7. /\ step'[h] = "contacts" /\ want'[h] = want[h] /\ about'[h] = c /\ Moves(h) /\ UNCHANGED <<disturbed, overran>>
      /\ \A i \in Handlers \ {h} : SameOf(i)
  BY <1>3, <1>6 DEF GoesOn, Moves
<1>8. PlaceOf(h)' /\ Apart'
  BY <1>1, <1>3, <1>4, <1>5, PlaceGoesOn, ApartGoesOn DEF OwnOf
<1>9. /\ cStatus'[c] \in Statuses /\ cBudget'[c] = budget /\ cEnd'[c] = end /\ cPo'[c][payer] = po
      /\ CampaignTypes' /\ GroupTypes' /\ GroupsStay /\ DivisionsStay /\ UNCHANGED mistakes
  BY <1>1, <1>2, <1>3, <1>5, <1>6 DEF Writes, TypesInv, CampaignTypes
<1>10. \A d \in CampaignIds \ {c} : StaysAt(d)
  BY <1>1, <1>3, <1>6 DEF Writes, TypesInv, CampaignTypes, StaysAt, RecordAt, ValuesAt
<1>11. ReadOf(h)'
  BY <1>1, <1>3, <1>7 DEF OwnOf, ReadOf, Same, Patched
<1>12. StageOf(h)'
  BY <1>7, <1>9 DEF StageOf, Statuses
<1>13. MadeOf(h)'
  <2>1. ToApi(cBudget'[c]) = want[h].budget
    BY <1>2, <1>3, <1>9, Budgets
  <2>2. BillingOf(want[h]) = "client" => cPo'[c]["client"] = NewPo(want[h])
    BY <1>2, <1>9
  <2>3. QED  BY <1>2, <1>7, <1>9, <2>1, <2>2 DEF MadeOf, Made
<1>14. TargetsKept(h)' /\ PatchedOf(h)' /\ ViewOf(h)'
  BY <1>7 DEF TargetsKept, PatchedOf, ViewOf, Patched, Viewing
<1>15. \A i \in Handlers \ {h} : about[i] = c => StageOf(i)' /\ MadeOf(i)' /\ PatchedOf(i)'
  BY <1>5, <1>6, <1>7, MakersApart, RestsOver DEF CreationInv
<1>16. \A g \in AdGroupIds : agHome[g] # c /\ ~ Behind(g, h)
  <2>1. cStatus[c] \notin Statuses /\ c # NoOne
    BY <1>5, <1>6, NoOneAssumption DEF Statuses
  <2>2. QED  BY <1>3, <2>1 DEF CreationInv, HomeOf, Behind
<1>17. OwnOf(h)'
  BY <1>8, <1>11, <1>12, <1>13, <1>14 DEF OwnOf
<1>18. QED  BY <1>5, <1>7, <1>8, <1>9, <1>10, <1>14, <1>15, <1>16, <1>17, CampaignWriteKeeps

LEMMA PatchContactsKeeps ==
    ASSUME CreationInv, NEW h \in Handlers, PatchContacts(h), UNCHANGED targetVars
    PROVE  CreationInv'
<1>1. /\ step[h] = "contacts" /\ GoesOn(h, "workflow") /\ Same
      /\ cAddresses' = [cAddresses EXCEPT ![about[h]] = AddressList(want[h].address)]
      /\ UNCHANGED <<cStatus, cBudget, cEnd, cPo, cWriter, cFaulty, cSummary, shortened, torn, mistakes>>
      /\ GroupsStay /\ DivisionsStay /\ CampaignTypes' /\ GroupTypes'
  BY PatchContactsDoes DEF CreationInv
<1>2. TypesInv /\ OwnOf(h) /\ Apart
  BY DEF CreationInv
<1>3. Follows(step[h], "workflow")
  BY <1>1 DEF Follows
<1>4. h \in Running /\ New(h) /\ want[h] \in Requests /\ about[h] \in CampaignIds /\ cStatus[about[h]] \in Statuses
  BY <1>1, <1>2 DEF OwnOf, PlaceOf, StageOf, Running, NewSteps
<1>5. PICK c \in CampaignIds : c = about[h]
  BY <1>4
<1>6. /\ step'[h] = "workflow" /\ want'[h] = want[h] /\ about'[h] = c /\ Moves(h) /\ UNCHANGED <<disturbed, overran>>
      /\ \A i \in Handlers \ {h} : SameOf(i)
  BY <1>1, <1>5 DEF GoesOn, Moves
<1>7. PlaceOf(h)' /\ Apart'
  BY <1>1, <1>2, <1>3, <1>4, PlaceGoesOn, ApartGoesOn DEF OwnOf
<1>8. cAddresses'[c] = AddressList(want[h].address) /\ (\A d \in CampaignIds \ {c} : StaysAt(d)) /\ \A d : ValuesAt(d)
  BY <1>1, <1>2, <1>5 DEF TypesInv, CampaignTypes, StaysAt, RecordAt, ValuesAt
<1>9. ReadOf(h)'
  BY <1>1, <1>2, <1>6 DEF OwnOf, ReadOf, Same, Patched
<1>10. StageOf(h)'
  BY <1>1, <1>4, <1>5, <1>6 DEF StageOf, Statuses
<1>11. MadeOf(h)'
  BY <1>1, <1>2, <1>4, <1>5, <1>6, <1>8 DEF OwnOf, MadeOf, Made
<1>12. TargetsKept(h)' /\ PatchedOf(h)' /\ ViewOf(h)'
  BY <1>6 DEF TargetsKept, PatchedOf, ViewOf, Patched, Viewing
<1>13. ASSUME NEW i \in Handlers \ {h}, about[i] = c
       PROVE  StageOf(i)' /\ MadeOf(i)' /\ (overran = {} => PatchedOf(i)')
  <2>1. OwnOf(i) /\ ~ New(i) /\ SameOf(i)
    BY <1>4, <1>5, <1>6, <1>13, MakersApart DEF CreationInv
  <2>2. StageOf(i)'
    BY <1>1, <2>1, StageStays DEF OwnOf
  <2>3. MadeOf(i)'
    BY <2>1 DEF MadeOf, New, SameOf
  <2>4. UNCHANGED agHome
    BY <1>1 DEF GroupsStay
  <2>5. QED  BY <1>8, <2>1, <2>2, <2>3, <2>4, PatchedStays DEF CreationInv, OwnOf
<1>14. ASSUME disturbed = {}, NEW g \in AdGroupIds
       PROVE  BudgetOf(g)' /\ EndOf(g)' /\ ~ Behind(g, h)
  <2>1. \A i \in Handlers : ~ Behind(g, i)
    BY <1>1, <1>4, <1>14 DEF Behind, CreationInv, Apart, Running
  <2>2. BudgetOf(g) /\ EndOf(g)
    BY <1>14 DEF CreationInv
  <2>3. QED  BY <1>1, <2>1, <2>2 DEF BudgetOf, EndOf, GroupsStay
<1>15. OwnOf(h)'
  BY <1>7, <1>9, <1>10, <1>11, <1>12 DEF OwnOf
<1>16. QED  BY <1>1, <1>4, <1>6, <1>7, <1>8, <1>12, <1>13, <1>14, <1>15, CampaignWriteKeeps

LEMMA SetWorkflowKeeps ==
    ASSUME CreationInv, NEW h \in Handlers, SetWorkflow(h), UNCHANGED targetVars
    PROVE  CreationInv'
<1>1. step[h] = "workflow" /\ TypesInv /\ OwnOf(h) /\ Apart
  BY DEF CreationInv, SetWorkflow, At
<1>2. h \in Running /\ New(h) /\ want[h] \in Requests /\ about[h] \in CampaignIds /\ cStatus[about[h]] \in Statuses
  BY <1>1 DEF OwnOf, PlaceOf, StageOf, Running, NewSteps
<1>3. /\ GoesOn(h, "answer") /\ Same /\ cSummary' = cSummary \cup {about[h]}
      /\ UNCHANGED <<cStatus, cBudget, cEnd, cPo, cAddresses, cWriter, cFaulty, shortened, torn, mistakes>>
      /\ GroupsStay /\ DivisionsStay /\ CampaignTypes' /\ GroupTypes'
  BY <1>1, <1>2, SetWorkflowDoes
<1>4. Follows(step[h], "answer")
  BY <1>1 DEF Follows
<1>5. PICK c \in CampaignIds : c = about[h]
  BY <1>2
<1>6. /\ step'[h] = "answer" /\ want'[h] = want[h] /\ about'[h] = c /\ Moves(h) /\ UNCHANGED <<disturbed, overran>>
      /\ \A i \in Handlers \ {h} : SameOf(i)
  BY <1>3, <1>5 DEF GoesOn, Moves
<1>7. PlaceOf(h)' /\ Apart'
  BY <1>1, <1>2, <1>3, <1>4, PlaceGoesOn, ApartGoesOn DEF OwnOf
<1>8. c \in cSummary' /\ \A d : StaysAt(d)
  BY <1>3, <1>5 DEF StaysAt, RecordAt, ValuesAt
<1>9. ReadOf(h)'
  BY <1>1, <1>3, <1>6 DEF OwnOf, ReadOf, Same, Patched
<1>10. StageOf(h)'
  BY <1>2, <1>3, <1>5, <1>6 DEF StageOf, Statuses
<1>11. MadeOf(h)'
  BY <1>1, <1>2, <1>3, <1>5, <1>6, <1>8 DEF OwnOf, MadeOf, Made
<1>12. TargetsKept(h)' /\ PatchedOf(h)' /\ ViewOf(h)'
  BY <1>2, <1>6 DEF TargetsKept, PatchedOf, ViewOf, Patched, Viewing, New, Put
<1>13. ASSUME NEW i \in Handlers \ {h}
       PROVE  StageOf(i)' /\ MadeOf(i)' /\ (overran = {} => PatchedOf(i)')
  <2>1. OwnOf(i) /\ SameOf(i) /\ UNCHANGED agHome
    BY <1>3, <1>6 DEF CreationInv, GroupsStay
  <2>2. StageOf(i)' /\ MadeOf(i)'
    BY <1>8, <2>1, StageStays, MadeStays DEF OwnOf, StaysAt, ValuesAt
  <2>3. QED  BY <1>8, <2>1, <2>2, PatchedStays DEF CreationInv, OwnOf, StaysAt
<1>14. ASSUME disturbed = {}, NEW g \in AdGroupIds
       PROVE  BudgetOf(g)' /\ EndOf(g)' /\ ~ Behind(g, h)
  <2>1. \A i \in Handlers : ~ Behind(g, i)
    BY <1>1, <1>2, <1>14 DEF Behind, CreationInv, Apart, Running
  <2>2. BudgetOf(g) /\ EndOf(g)
    BY <1>14 DEF CreationInv
  <2>3. QED  BY <1>3, <2>1, <2>2 DEF BudgetOf, EndOf, GroupsStay
<1>15. OwnOf(h)'
  BY <1>7, <1>9, <1>10, <1>11, <1>12 DEF OwnOf
<1>16. QED  BY <1>2, <1>3, <1>6, <1>7, <1>8, <1>12, <1>13, <1>14, <1>15, CampaignWriteKeeps

(* A PUT that nobody took for dead is the only one in its campaign's       *)
(* section.                                                                *)
LEMMA HoldersApart ==
    ASSUME CreationInv, overran = {}, NEW h \in Handlers, step[h] \in Inner, NEW i \in Handlers \ {h}, about[i] = about[h]
    PROVE  step[i] \notin Inner /\ ~ (step[i] = "answer" /\ Put(i))
<1>1. lapsed = {} /\ PlaceOf(h) /\ PlaceOf(i)
  BY DEF CreationInv, TypesInv, HandlerTypes, OwnOf
<1>2. h \in inside
  BY <1>1 DEF PlaceOf
<1>3. i \notin inside
  BY <1>1, <1>2 DEF CreationInv, Apart
<1>4. QED  BY <1>1, <1>3 DEF PlaceOf

LEMMA HeldOver ==
    ASSUME NEW i \in Handlers, SameOf(i), step[i] \notin Inner, ~ (step[i] = "answer" /\ Put(i))
    PROVE  PatchedOf(i)'
BY DEF PatchedOf, Inner, Patched, SameOf, Put

LEMMA PatchKeeps ==
    ASSUME CreationInv, NEW h \in Handlers, Patch(h), UNCHANGED targetVars
    PROVE  CreationInv'
<1>1. TypesInv /\ OwnOf(h) /\ Apart
  BY DEF CreationInv
<1>2. PICK status, budget, end : status = Asked(h) /\ budget = PatchedBudget(want[h], seen[h]) /\ end = want[h].end
  OBVIOUS
<1>3. /\ step[h] = "patch" /\ GoesOn(h, "reread") /\ Same /\ status \in Statuses
      /\ shortened' = IF seen[h].end # NoDate /\ end # NoDate /\ end # seen[h].end
                      THEN shortened \cup {about[h]} ELSE shortened
  BY <1>1, <1>2, PatchDoes DEF OwnOf
<1>4. PICK payer, po : Writes(h, status, budget, end, payer, po)
  BY <1>1, <1>2, PatchDoes DEF OwnOf
<1>5. step[h] \in Inner /\ step[h] \in Steps \ {"idle", "over", "start", "lock"} /\ Follows(step[h], "reread")
  BY <1>3 DEF Inner, Steps, Follows
<1>6. /\ h \in Running /\ ~ New(h) /\ about[h] \in CampaignIds /\ cStatus[about[h]] \in Statuses /\ want[h] \in Requests
      /\ disturbed = {} => ViewOf(h)
  BY <1>5, OnTheWay
<1>7. PICK c \in CampaignIds : c = about[h]
  BY <1>6
<1>8. /\ step'[h] = "reread" /\ want'[h] = want[h] /\ about'[h] = c /\ seen'[h] = seen[h] /\ Moves(h)
      /\ UNCHANGED <<disturbed, overran, torn>> /\ \A i \in Handlers \ {h} : SameOf(i)
  BY <1>3, <1>4, <1>7 DEF GoesOn, Moves, Same, Writes
<1>9. PlaceOf(h)' /\ Apart' /\ ~ New(h)' /\ Asked(h)' = Asked(h)
  BY <1>1, <1>3, <1>5, <1>6, <1>8, PlaceGoesOn, ApartGoesOn DEF OwnOf, New, Asked
<1>10. /\ cStatus'[c] = status /\ cBudget'[c] = budget /\ cEnd'[c] = end /\ cWriter'[c] = h
       /\ CampaignTypes' /\ GroupTypes' /\ GroupsStay /\ DivisionsStay /\ UNCHANGED mistakes
  BY <1>1, <1>4, <1>7 DEF Writes, TypesInv, CampaignTypes
<1>11. \A d \in CampaignIds \ {c} : StaysAt(d)
  BY <1>1, <1>4, <1>7 DEF Writes, TypesInv, CampaignTypes, StaysAt, RecordAt, ValuesAt
<1>12. ReadOf(h)'
  BY <1>1, <1>3, <1>8 DEF OwnOf, ReadOf, Same, Patched
<1>13. StageOf(h)'
  BY <1>3, <1>8, <1>9, <1>10 DEF StageOf
<1>14. MadeOf(h)' /\ TargetsKept(h)' /\ ViewOf(h)'
  BY <1>8, <1>9 DEF MadeOf, TargetsKept, ViewOf, Viewing
<1>15. PatchedOf(h)'
  <2>1. want[h].budget # "same" /\ seen[h].status = "DRAFT" => ToApi(budget) = want[h].budget
    <3>1. want[h].budget # "same" => want[h].budget \in ApiBudgets
      BY <1>6, RequestsAssumption
    <3>2. QED  BY <1>2, <3>1, Budgets DEF PatchedBudget
  <2>2. QED  BY <1>2, <1>8, <1>9, <1>10, <2>1 DEF PatchedOf
<1>16. ASSUME NEW i \in Handlers \ {h}, about[i] = c
       PROVE  StageOf(i)' /\ MadeOf(i)' /\ (overran = {} => PatchedOf(i)')
  <2>1. OwnOf(i) /\ SameOf(i)
    BY <1>8 DEF CreationInv
  <2>2. cStatus[c] \in Statuses /\ cStatus'[c] \in Statuses /\ cWriter'[c] # i /\ "new" \notin Statuses /\ "none" \notin Statuses
    BY <1>3, <1>6, <1>7, <1>10, <1>16 DEF Statuses
  <2>3. StageOf(i)'
    BY <1>16, <2>1, <2>2 DEF OwnOf, StageOf, SameOf
  <2>4. MadeOf(i)'
    BY <1>16, <2>1, <2>2 DEF MadeOf, SameOf
  <2>5. QED  BY <1>5, <1>7, <1>16, <2>1, <2>3, <2>4, HoldersApart, HeldOver
<1>17. ASSUME disturbed = {}, NEW g \in AdGroupIds, agHome[g] = c
       PROVE  BudgetOf(g)' /\ EndOf(g)'
  <2>1. ViewOf(h) /\ BudgetOf(g) /\ EndOf(g) /\ c # NoOne
    BY <1>6, <1>17, NoOneAssumption DEF CreationInv
  <2>2. \A i \in Handlers : ~ Behind(g, i)
    BY <1>3, <1>6, <1>17 DEF Behind, CreationInv, Apart, Running
  <2>3. seen[h].budget = ToApi(cBudget[c]) /\ seen[h].end = cEnd[c]
    BY <1>3, <1>7, <2>1 DEF ViewOf, Viewing
  <2>4. BudgetOf(g)'
    BY <1>8, <1>10, <1>17, <2>1, <2>2, <2>3 DEF BudgetOf, Behind, GroupsStay
  <2>5. EndOf(g)'
    <3>1. SUFFICES ASSUME c \notin shortened', end # NoDate
                   PROVE  ~ Outlives(agEnd[g], agStatus[g] = "ENDED", end)
      BY <1>10, <1>17 DEF EndOf, GroupsStay
    <3>2. c \notin shortened /\ (seen[h].end = NoDate \/ seen[h].end = end)
      BY <1>3, <1>7, <3>1
    <3>3. CASE seen[h].end = NoDate
      <4>1. g \in GroupsOf(about[h])
        BY <1>7, <1>17 DEF GroupsOf
      <4>2. QED  BY <1>2, <1>3, <2>1, <3>1, <3>3, <4>1 DEF ViewOf
    <3>4. CASE seen[h].end = end
      BY <1>17, <2>1, <2>3, <3>1, <3>2, <3>4 DEF EndOf
    <3>5. QED  BY <3>2, <3>3, <3>4
  <2>6. QED  BY <2>4, <2>5
<1>18. \A g \in AdGroupIds : ~ Behind(g, h)
  BY <1>3 DEF Behind
<1>19. OwnOf(h)'
  BY <1>9, <1>12, <1>13, <1>14 DEF OwnOf
<1>20. QED  BY <1>3, <1>6, <1>8, <1>9, <1>10, <1>11, <1>14, <1>15, <1>16, <1>17, <1>18, <1>19, CampaignWriteKeeps

LEMMA PauseKeeps ==
    ASSUME CreationInv, NEW h \in Handlers, Pause(h), UNCHANGED targetVars
    PROVE  CreationInv'
<1>1. step[h] = "pause" /\ TypesInv /\ OwnOf(h) /\ Apart
  BY DEF CreationInv, Pause, At
<1>2. step[h] \in Inner /\ step[h] \in Steps \ {"idle", "over", "start", "lock"} /\ Follows(step[h], "paused")
  BY <1>1 DEF Inner, Steps, Follows
<1>3. /\ h \in Running /\ ~ New(h) /\ about[h] \in CampaignIds /\ cStatus[about[h]] \in Statuses /\ want[h] \in Requests
      /\ overran = {} => PatchedOf(h)
  BY <1>2, OnTheWay
<1>4. PICK c \in CampaignIds : c = about[h]
  BY <1>3
<1>5. PICK status : status = IF AsksPause(want[h], seen[h]) THEN "PAUSED" ELSE "ACTIVE"
  OBVIOUS
<1>6. /\ GoesOn(h, "paused") /\ Same /\ cStatus' = [cStatus EXCEPT ![c] = status]
      /\ UNCHANGED <<cBudget, cEnd, cPo, cAddresses, cWriter, cFaulty, cSummary, shortened, torn, mistakes>>
      /\ GroupsStay /\ DivisionsStay /\ CampaignTypes' /\ GroupTypes'
  BY <1>1, <1>3, <1>4, <1>5, PauseDoes
<1>7. /\ step'[h] = "paused" /\ want'[h] = want[h] /\ about'[h] = c /\ seen'[h] = seen[h] /\ Moves(h)
      /\ UNCHANGED <<disturbed, overran>> /\ \A i \in Handlers \ {h} : SameOf(i)
  BY <1>4, <1>6 DEF GoesOn, Moves, Same
<1>8. PlaceOf(h)' /\ Apart' /\ ~ New(h)' /\ Asked(h)' = Asked(h)
  BY <1>1, <1>2, <1>3, <1>6, <1>7, PlaceGoesOn, ApartGoesOn DEF OwnOf, New, Asked
<1>9. cStatus'[c] = status /\ status \in Statuses /\ (\A d \in CampaignIds \ {c} : StaysAt(d)) /\ \A d : RecordAt(d)
  BY <1>1, <1>5, <1>6 DEF TypesInv, CampaignTypes, StaysAt, RecordAt, ValuesAt, Statuses
<1>10. ReadOf(h)'
  BY <1>1, <1>6, <1>7 DEF OwnOf, ReadOf, Same, Patched
<1>11. StageOf(h)'
  BY <1>7, <1>8, <1>9 DEF StageOf
<1>12. MadeOf(h)' /\ TargetsKept(h)' /\ ViewOf(h)'
  BY <1>7, <1>8 DEF MadeOf, TargetsKept, ViewOf, Viewing
<1>13. overran = {} => PatchedOf(h)'
  <2>1. ASSUME AsksPause(want[h], seen[h]) \/ AsksUnpause(want[h], seen[h])
        PROVE  status = Asked(h)
    BY <1>5, <2>1 DEF AsksPause, AsksUnpause, Asked, StatusAsked
  <2>2. PatchedOf(h) => AsksPause(want[h], seen[h]) \/ AsksUnpause(want[h], seen[h])
    BY <1>1 DEF PatchedOf
  <2>3. PatchedOf(h) => AsksPause(want'[h], seen'[h]) \/ AsksUnpause(want'[h], seen'[h])
    BY <1>7, <2>2
  <2>4. QED  BY <1>3, <1>7, <1>8, <1>9, <2>1, <2>2, <2>3 DEF PatchedOf, Patched
<1>14. ASSUME NEW i \in Handlers \ {h}, about[i] = c
       PROVE  StageOf(i)' /\ MadeOf(i)' /\ (overran = {} => PatchedOf(i)')
  <2>1. OwnOf(i) /\ SameOf(i)
    BY <1>7 DEF CreationInv
  <2>2. cStatus[c] \in Statuses /\ cStatus'[c] \in Statuses /\ "new" \notin Statuses /\ "none" \notin Statuses
    BY <1>3, <1>4, <1>9 DEF Statuses
  <2>3. StageOf(i)'
    BY <1>14, <2>1, <2>2 DEF OwnOf, StageOf, SameOf
  <2>4. MadeOf(i)'
    BY <1>9, <2>1, MadeStays DEF OwnOf
  <2>5. QED  BY <1>2, <1>4, <1>14, <2>1, <2>3, <2>4, HoldersApart, HeldOver
<1>15. ASSUME disturbed = {}, NEW g \in AdGroupIds
       PROVE  BudgetOf(g)' /\ EndOf(g)' /\ ~ Behind(g, h)
  <2>1. \A i \in Handlers : ~ Behind(g, i)
    BY <1>1, <1>3, <1>15 DEF Behind, CreationInv, Apart, Running
  <2>2. BudgetOf(g) /\ EndOf(g)
    BY <1>15 DEF CreationInv
  <2>3. QED  BY <1>6, <2>1, <2>2 DEF BudgetOf, EndOf, GroupsStay
<1>16. OwnOf(h)'
  BY <1>8, <1>10, <1>11, <1>12 DEF OwnOf
<1>17. QED  BY <1>3, <1>6, <1>7, <1>8, <1>9, <1>12, <1>13, <1>14, <1>15, <1>16, CampaignWriteKeeps

LEMMA SpreadKeeps ==
    ASSUME CreationInv, NEW h \in Handlers, Spread(h), UNCHANGED targetVars
    PROVE  CreationInv'
<1>1. TypesInv /\ OwnOf(h) /\ Apart
  BY DEF CreationInv
<1>2. /\ step[h] = "spread" /\ CampaignsStay /\ DivisionsStay /\ CampaignTypes' /\ GroupTypes'
      /\ UNCHANGED <<torn, mistakes, seen, updated, located, agHome, agEnd, agStatus, agTargets>>
      /\ updated[h] \in ApiBudgets
  BY <1>1, SpreadDoes DEF OwnOf
<1>3. PICK g \in todo[h], s \in {"spread", "activations"} :
          /\ agBudget' = [agBudget EXCEPT ![g] = updated[h]] /\ todo'[h] = todo[h] \ {g}
          /\ GoesOn(h, s) /\ (s = "activations" => todo[h] = {g})
  BY <1>1, SpreadDoes DEF OwnOf
<1>4. step[h] \in Inner /\ step[h] \in Steps \ {"idle", "over", "start", "lock"} /\ Follows(step[h], s)
  BY <1>2 DEF Inner, Steps, Follows
<1>5. /\ h \in Running /\ ~ New(h) /\ about[h] \in CampaignIds /\ cStatus[about[h]] \in Statuses
      /\ (overran = {} => PatchedOf(h)) /\ (disturbed = {} => ViewOf(h))
  BY <1>4, OnTheWay
<1>6. /\ step'[h] = s /\ want'[h] = want[h] /\ about'[h] = about[h] /\ seen'[h] = seen[h] /\ Moves(h)
      /\ UNCHANGED <<disturbed, overran, cStatus, cBudget, cEnd, cWriter, shortened>>
  BY <1>2, <1>3 DEF GoesOn, CampaignsStay
<1>7. PlaceOf(h)' /\ Apart' /\ ~ New(h)' /\ UNCHANGED GroupsOf(about[h])
  BY <1>1, <1>2, <1>3, <1>4, <1>5, <1>6, PlaceGoesOn, ApartGoesOn DEF OwnOf, New, GroupsOf
<1>8. ReadOf(h)'
  BY <1>1, <1>2, <1>6 DEF OwnOf, ReadOf, Patched
<1>9. StageOf(h)' /\ MadeOf(h)' /\ TargetsKept(h)'
  BY <1>5, <1>6, <1>7 DEF StageOf, MadeOf, TargetsKept
<1>10. overran = {} => PatchedOf(h)'
  BY <1>2, <1>5, <1>6 DEF PatchedOf, Patched, Asked
<1>11. disturbed = {} => ViewOf(h)'
  BY <1>2, <1>3, <1>5, <1>6, <1>7 DEF ViewOf, Viewing
<1>12. \A k \in AdGroupIds : HomeOf(k)'
  BY <1>2, <1>6 DEF CreationInv, HomeOf
<1>13. ASSUME disturbed = {}, NEW k \in AdGroupIds
       PROVE  BudgetOf(k)' /\ EndOf(k)'
  <2>1. ViewOf(h) /\ BudgetOf(k) /\ EndOf(k) /\ \A i \in Handlers \ {h} : ~ Behind(k, i)
    BY <1>5, <1>13 DEF CreationInv, Behind, Apart, Running
  <2>2. CASE k = g
    <3>1. agHome[k] = about[h] /\ updated[h] = ToApi(cBudget[about[h]])
      BY <1>2, <2>1, <2>2 DEF ViewOf, GroupsOf
    <3>2. agBudget'[k] = updated[h] /\ ToApi(updated[h]) = updated[h]
      BY <1>1, <1>2, <1>3, <2>2, Budgets DEF TypesInv, GroupTypes
    <3>3. QED  BY <1>2, <1>6, <2>1, <3>1, <3>2 DEF BudgetOf, EndOf
  <2>3. CASE k # g
    <3>1. agBudget'[k] = agBudget[k]
      BY <1>1, <1>3, <2>3 DEF TypesInv, GroupTypes
    <3>2. Behind(k, h) => Behind(k, h)'
      BY <1>2, <1>3, <1>6, <2>3, <3>1 DEF Behind
    <3>3. QED  BY <1>2, <1>6, <2>1, <3>1, <3>2 DEF BudgetOf, EndOf
  <2>4. QED  BY <2>2, <2>3
<1>14. OwnOf(h)'
  BY <1>7, <1>8, <1>9 DEF OwnOf
<1>15. QED  BY <1>2, <1>5, <1>6, <1>7, <1>10, <1>11, <1>12, <1>13, <1>14, GroupWriteKeeps

LEMMA CreateActivationKeeps ==
    ASSUME CreationInv, NEW h \in Handlers, CreateActivation(h)
    PROVE  CreationInv'
<1>1. TypesInv /\ OwnOf(h) /\ Apart
  BY DEF CreationInv
<1>2. /\ step[h] = "activation" /\ GoesOn(h, "approve")
      /\ UNCHANGED <<seen, updated, located, torn, mistakes>>
      /\ CampaignsStay /\ DivisionsStay /\ CampaignTypes' /\ GroupTypes'
  BY <1>1, CreateActivationDoes DEF OwnOf
<1>3. PICK g \in AdGroupIds :
         /\ agHome[g] = NoOne /\ todo'[h] = {g}
         /\ agHome' = [agHome EXCEPT ![g] = about[h]]
         /\ agBudget' = [agBudget EXCEPT ![g] = seen[h].budget]
         /\ agEnd' = [agEnd EXCEPT ![g] = want[h].end]
         /\ agStatus' = [agStatus EXCEPT ![g] = "DRAFT"]
         /\ agTargets' = [agTargets EXCEPT ![g] = TargetData(TargetsOf(h), located[h])]
  BY <1>1, CreateActivationDoes DEF OwnOf
<1>4. step[h] \in PostSteps /\ step[h] \in Steps \ {"idle", "over", "start", "lock"} /\ Follows(step[h], "approve")
  BY <1>2 DEF PostSteps, Steps, Follows
<1>5. /\ h \in Running /\ ~ New(h) /\ about[h] \in CampaignIds /\ cStatus[about[h]] \in Statuses /\ want[h] \in Requests
      /\ (disturbed = {} => ViewOf(h)) /\ about[h] # NoOne /\ want[h].end \in Nat
  BY <1>4, OnTheWay, NoOneAssumption, RequestsAssumption
<1>6. /\ step'[h] = "approve" /\ want'[h] = want[h] /\ about'[h] = about[h] /\ seen'[h] = seen[h] /\ Moves(h)
      /\ UNCHANGED <<disturbed, overran, cStatus, cBudget, cEnd, shortened, dDetailed>>
  BY <1>2 DEF GoesOn, CampaignsStay, DivisionsStay
<1>7. PlaceOf(h)' /\ Apart' /\ ~ New(h)'
  BY <1>1, <1>2, <1>4, <1>5, <1>6, PlaceGoesOn, ApartGoesOn DEF OwnOf, New
<1>8. ReadOf(h)'
  BY <1>1, <1>6 DEF OwnOf, ReadOf, Patched
<1>9. /\ agHome'[g] = about[h] /\ agBudget'[g] = seen[h].budget /\ agEnd'[g] = want[h].end /\ agStatus'[g] = "DRAFT"
      /\ agTargets'[g] = TargetData(TargetsOf(h), located[h])
      /\ \A k \in AdGroupIds \ {g} : /\ agHome'[k] = agHome[k] /\ agBudget'[k] = agBudget[k] /\ agEnd'[k] = agEnd[k]
                                     /\ agStatus'[k] = agStatus[k]
  BY <1>1, <1>3 DEF TypesInv, GroupTypes
<1>10. TargetsKept(h)'
  <2>1. h \notin disturbed => located[h] = PlacesFor(h)
    BY <1>1, <1>2 DEF OwnOf, TargetsKept
  <2>2. TargetsOf(h)' = TargetsOf(h) /\ PlacesFor(h)' = PlacesFor(h)
    BY <1>6 DEF TargetsOf, PlacesFor
  <2>3. QED  BY <1>3, <1>5, <1>6, <1>9, <2>1, <2>2 DEF TargetsKept
<1>11. StageOf(h)' /\ MadeOf(h)' /\ PatchedOf(h)' /\ ViewOf(h)'
  BY <1>5, <1>6, <1>7 DEF StageOf, MadeOf, PatchedOf, ViewOf, Patched, Viewing
<1>12. ASSUME NEW k \in AdGroupIds
       PROVE  /\ HomeOf(k)' /\ (agHome[k] # NoOne => agHome'[k] = agHome[k])
              /\ agHome[k] # NoOne /\ agStatus[k] # "ENDED" => agStatus'[k] # "ENDED"
  BY <1>3, <1>5, <1>6, <1>9 DEF CreationInv, HomeOf
<1>13. ASSUME disturbed = {}, NEW k \in AdGroupIds
       PROVE  BudgetOf(k)' /\ EndOf(k)'
  <2>1. ViewOf(h) /\ BudgetOf(k) /\ EndOf(k) /\ \A i \in Handlers : ~ Behind(k, i)
    BY <1>2, <1>5, <1>13 DEF CreationInv, Behind, Apart, Running
  <2>2. CASE k = g
    <3>1. /\ seen[h].budget = ToApi(cBudget[about[h]]) /\ seen[h].end = cEnd[about[h]] /\ FitsCampaign(want[h], seen[h])
          /\ seen[h].budget \in ApiBudgets /\ cEnd[about[h]] \in Nat
      BY <1>1, <1>2, <1>4, <1>5, <2>1 DEF ViewOf, Viewing, OwnOf, ReadOf, TypesInv, CampaignTypes
    <3>2. ToApi(seen[h].budget) = seen[h].budget
      BY <3>1, Budgets
    <3>3. BudgetOf(k)'
      BY <1>6, <1>9, <2>2, <3>1, <3>2 DEF BudgetOf
    <3>4. cEnd[about[h]] # NoDate => ~ Outlives(want[h].end, FALSE, cEnd[about[h]])
      BY <1>5, <3>1 DEF FitsCampaign, Outlives
    <3>5. EndOf(k)'
      BY <1>6, <1>9, <2>2, <3>4 DEF EndOf, Outlives
    <3>6. QED  BY <3>3, <3>5
  <2>3. CASE k # g
    BY <1>2, <1>6, <1>9, <2>1, <2>3 DEF BudgetOf, EndOf
  <2>4. QED  BY <2>2, <2>3
<1>14. OwnOf(h)'
  BY <1>7, <1>8, <1>10, <1>11 DEF OwnOf
<1>15. QED  BY <1>2, <1>5, <1>6, <1>7, <1>11, <1>12, <1>13, <1>14, GroupWriteKeeps

LEMMA ApproveKeeps ==
    ASSUME CreationInv, NEW h \in Handlers, Approve(h)
    PROVE  CreationInv'
<1>1. TypesInv /\ OwnOf(h) /\ Apart
  BY DEF CreationInv
<1>2. /\ step[h] = "approve" /\ GoesOn(h, "answer group") /\ Same /\ UNCHANGED <<torn, mistakes>>
      /\ CampaignsStay /\ DivisionsStay /\ CampaignTypes' /\ GroupTypes'
      /\ UNCHANGED <<agHome, agBudget, agEnd, agTargets>>
      /\ \A g \in AdGroupIds : IF g \in todo[h] THEN agStatus'[g] # "ENDED" ELSE agStatus'[g] = agStatus[g]
  BY <1>1, ApproveDoes
<1>3. step[h] \in PostSteps /\ step[h] \in Steps \ {"idle", "over", "start", "lock"} /\ Follows(step[h], "answer group")
  BY <1>2 DEF PostSteps, Steps, Follows
<1>4. h \in Running /\ ~ New(h) /\ about[h] \in CampaignIds /\ cStatus[about[h]] \in Statuses
  BY <1>3, OnTheWay
<1>5. /\ step'[h] = "answer group" /\ want'[h] = want[h] /\ about'[h] = about[h] /\ seen'[h] = seen[h]
      /\ todo'[h] = todo[h] /\ Moves(h)
      /\ UNCHANGED <<disturbed, overran, cStatus, cBudget, cEnd, shortened, dDetailed>>
  BY <1>2 DEF GoesOn, CampaignsStay, DivisionsStay, Same
<1>6. PlaceOf(h)' /\ Apart' /\ ~ New(h)'
  BY <1>1, <1>2, <1>3, <1>4, <1>5, PlaceGoesOn, ApartGoesOn DEF OwnOf, New
<1>7. ReadOf(h)'
  BY <1>1, <1>5 DEF OwnOf, ReadOf, Patched
<1>8. TargetsKept(h)'
  <2>1. TargetsOf(h)' = TargetsOf(h) /\ PlacesFor(h)' = PlacesFor(h)
    BY <1>5 DEF TargetsOf, PlacesFor
  <2>2. QED  BY <1>1, <1>2, <1>5, <2>1 DEF OwnOf, TargetsKept
<1>9. StageOf(h)' /\ MadeOf(h)' /\ PatchedOf(h)' /\ ViewOf(h)'
  BY <1>4, <1>5, <1>6 DEF StageOf, MadeOf, PatchedOf, ViewOf, Patched, Viewing
<1>10. ASSUME NEW k \in AdGroupIds
       PROVE  HomeOf(k)' /\ (agStatus[k] # "ENDED" => agStatus'[k] # "ENDED")
  BY <1>2, <1>5 DEF CreationInv, HomeOf
<1>11. ASSUME disturbed = {}, NEW k \in AdGroupIds
       PROVE  BudgetOf(k)' /\ EndOf(k)'
  <2>1. BudgetOf(k) /\ EndOf(k) /\ \A i \in Handlers : ~ Behind(k, i)
    <3>1. BudgetOf(k) /\ EndOf(k) /\ Running = {h}
      BY <1>4, <1>11 DEF CreationInv, Apart
    <3>2. \A i \in Handlers : step[i] \notin {"reread", "spread"}
      BY <1>2, <3>1 DEF Running
    <3>3. QED  BY <3>1, <3>2 DEF Behind
  <2>2. (agStatus[k] = "ENDED") = (agStatus'[k] = "ENDED")
    BY <1>1, <1>2 DEF OwnOf, TargetsKept
  <2>3. QED  BY <1>2, <1>5, <2>1, <2>2 DEF BudgetOf, EndOf, Outlives
<1>12. OwnOf(h)'
  BY <1>6, <1>7, <1>8, <1>9 DEF OwnOf
<1>13. QED  BY <1>2, <1>4, <1>5, <1>6, <1>9, <1>10, <1>11, <1>12, GroupWriteKeeps

LEMMA NumberDivisionsKeeps ==
    ASSUME CreationInv, NEW h \in Handlers, NumberDivisions(h)
    PROVE  CreationInv'
<1>1. TypesInv /\ OwnOf(h) /\ Apart
  BY DEF CreationInv
<1>2. /\ step[h] = "number divisions" /\ dNumbered' = Divisions
      /\ UNCHANGED <<seen, updated, todo, dDetailed, torn, mistakes>>
      /\ CampaignsStay /\ GroupsStay /\ CampaignTypes' /\ GroupTypes'
  BY <1>1, NumberDivisionsDoes
<1>3. PICK s \in {"location group", "detail divisions"} : GoesOn(h, s)
  BY <1>1, NumberDivisionsDoes
<1>4. step[h] \in PostSteps /\ step[h] \in Steps \ {"idle", "over", "start", "lock"} /\ Follows(step[h], s)
  BY <1>2 DEF PostSteps, Steps, Follows
<1>5. h \in Running /\ ~ New(h) /\ about[h] \in CampaignIds /\ cStatus[about[h]] \in Statuses /\ (disturbed = {} => ViewOf(h))
  BY <1>4, OnTheWay
<1>6. /\ step'[h] = s /\ want'[h] = want[h] /\ about'[h] = about[h] /\ seen'[h] = seen[h] /\ Moves(h)
      /\ UNCHANGED <<disturbed, overran, cStatus, cBudget, cEnd>>
  BY <1>2, <1>3 DEF GoesOn, CampaignsStay
<1>7. PlaceOf(h)' /\ Apart' /\ ~ New(h)'
  BY <1>1, <1>3, <1>4, <1>5, <1>6, PlaceGoesOn, ApartGoesOn DEF OwnOf, New
<1>8. ReadOf(h)'
  BY <1>1, <1>2, <1>6 DEF OwnOf, ReadOf, Patched
<1>9. StageOf(h)' /\ MadeOf(h)' /\ TargetsKept(h)' /\ PatchedOf(h)'
  BY <1>5, <1>6, <1>7 DEF StageOf, MadeOf, TargetsKept, PatchedOf, Patched
<1>10. FitsCampaign(want[h], seen[h]) = FitsCampaign(want'[h], seen'[h])
  BY <1>6
<1>11. disturbed = {} => ViewOf(h)'
  BY <1>2, <1>4, <1>5, <1>6, <1>10 DEF ViewOf, Viewing
<1>12. DivisionTypes'
  BY <1>1, <1>2 DEF TypesInv, DivisionTypes
<1>13. \A g \in AdGroupIds : ~ Behind(g, h)
  BY <1>2 DEF Behind
<1>14. OwnOf(h)'
  BY <1>7, <1>8, <1>9 DEF OwnOf
<1>15. QED  BY <1>2, <1>5, <1>6, <1>7, <1>9, <1>11, <1>12, <1>13, <1>14, DivisionWriteKeeps

LEMMA DetailDivisionsKeeps ==
    ASSUME CreationInv, NEW h \in Handlers, DetailDivisions(h)
    PROVE  CreationInv'
<1>1. TypesInv /\ OwnOf(h) /\ Apart
  BY DEF CreationInv
<1>2. /\ step[h] = "detail divisions" /\ GoesOn(h, "location group") /\ Same
      /\ dDetailed' = dDetailed \cup located[h] /\ UNCHANGED <<dNumbered, torn, mistakes>>
      /\ CampaignsStay /\ GroupsStay /\ CampaignTypes' /\ GroupTypes'
  BY <1>1, DetailDivisionsDoes
<1>3. step[h] \in PostSteps /\ step[h] \in Steps \ {"idle", "over", "start", "lock"} /\ Follows(step[h], "location group")
  BY <1>2 DEF PostSteps, Steps, Follows
<1>4. h \in Running /\ ~ New(h) /\ about[h] \in CampaignIds /\ cStatus[about[h]] \in Statuses /\ (disturbed = {} => ViewOf(h))
  BY <1>3, OnTheWay
<1>5. /\ step'[h] = "location group" /\ want'[h] = want[h] /\ about'[h] = about[h] /\ seen'[h] = seen[h] /\ Moves(h)
      /\ UNCHANGED <<disturbed, overran, cStatus, cBudget, cEnd>>
  BY <1>2 DEF GoesOn, CampaignsStay, Same
<1>6. PlaceOf(h)' /\ Apart' /\ ~ New(h)'
  BY <1>1, <1>2, <1>3, <1>4, <1>5, PlaceGoesOn, ApartGoesOn DEF OwnOf, New
<1>7. ReadOf(h)'
  BY <1>1, <1>5 DEF OwnOf, ReadOf, Patched
<1>8. StageOf(h)' /\ MadeOf(h)' /\ TargetsKept(h)' /\ PatchedOf(h)'
  BY <1>4, <1>5, <1>6 DEF StageOf, MadeOf, TargetsKept, PatchedOf, Patched
<1>9. FitsCampaign(want[h], seen[h]) = FitsCampaign(want'[h], seen'[h])
  BY <1>5
<1>10. disturbed = {} => ViewOf(h)'
  BY <1>2, <1>3, <1>4, <1>5, <1>9 DEF ViewOf, Viewing
<1>11. DivisionTypes'
  BY <1>1, <1>2 DEF TypesInv, DivisionTypes, HandlerTypes, OwnOf, ReadOf
<1>12. \A g \in AdGroupIds : ~ Behind(g, h)
  BY <1>2 DEF Behind
<1>13. OwnOf(h)'
  BY <1>6, <1>7, <1>8 DEF OwnOf
<1>14. QED  BY <1>2, <1>4, <1>5, <1>6, <1>8, <1>10, <1>11, <1>12, <1>13, DivisionWriteKeeps

LEMMA LookupFilledKeeps ==
    ASSUME CreationInv, LookupFilled, UNCHANGED targetVars
    PROVE  CreationInv'
<1>1. PICK c \in CampaignIds : cKnown' = cKnown \cup {c}
  BY DEF LookupFilled
<1>2. CampaignTypes' /\ GroupTypes'
  BY <1>1 DEF LookupFilled, CreationInv, TypesInv, CampaignTypes, GroupTypes, campaignVars, groupVars, historyVars, targetVars
<1>3. QED  BY <1>2, OutsideKeeps DEF LookupFilled, GroupsStay, DivisionsStay, campaignVars, groupVars, targetVars

LEMMA ListAdGroupsKeeps ==
    ASSUME CreationInv, NEW c \in CampaignIds, ListAdGroups(c)
    PROVE  CreationInv'
<1>1. CampaignTypes' /\ GroupTypes'
  BY DEF GroupsOf, ListAdGroups, CreationInv, TypesInv, CampaignTypes, GroupTypes, campaignVars, groupVars, historyVars, targetVars
<1>2. QED  BY <1>1, OutsideKeeps DEF ListAdGroups, GroupsStay, DivisionsStay, campaignVars, groupVars, targetVars

LEMMA CampaignEndsKeeps ==
    ASSUME CreationInv, CampaignEnds, UNCHANGED targetVars
    PROVE  CreationInv'
<1>1. PICK c \in CampaignIds : cStatus[c] \in {"ACTIVE", "PAUSED"} /\ cStatus' = [cStatus EXCEPT ![c] = "ENDED"]
  BY DEF CampaignEnds
<1>2. CampaignTypes' /\ GroupTypes'
  BY <1>1 DEF CampaignEnds, CreationInv, TypesInv, CampaignTypes, GroupTypes, CampaignStates, Statuses, groupVars, cacheVars,
         historyVars, targetVars
<1>3. \A d \in CampaignIds : \/ cStatus'[d] = cStatus[d]
                             \/ cStatus[d] \in {"ACTIVE", "PAUSED"} /\ cStatus'[d] = "ENDED"
  BY <1>1 DEF CreationInv, TypesInv, CampaignTypes
<1>4. QED  BY <1>2, <1>3, OutsideKeeps DEF CampaignEnds, GroupsStay, DivisionsStay, groupVars, targetVars
-----------------------------------------------------------------------------
LEMMA InvInit ==
    ASSUME CreationInit
    PROVE  CreationInv
<1>1. PICK c \in CampaignIds, s \in {"DRAFT", "ACTIVE", "PAUSED"}, b \in {"DAILY", "CUSTOM"},
           end \in {NoDate, StartDate + 2}, groups \in kSubset(0, AdGroupIds) \cup kSubset(1, AdGroupIds), all \in BOOLEAN :
          /\ b = "CUSTOM" => end # NoDate
          /\ all => s = "DRAFT" /\ groups = {}
          /\ cStatus = [d \in CampaignIds |-> IF d = c \/ all THEN s ELSE "none"]
          /\ cBudget = [d \in CampaignIds |-> IF d = c THEN b ELSE "DAILY"]
          /\ cEnd = [d \in CampaignIds |-> IF d = c THEN end ELSE NoDate]
          /\ cKnown \in SUBSET {c}
          /\ agHome = [g \in AdGroupIds |-> IF g \in groups THEN c ELSE NoOne]
          /\ agBudget = [g \in AdGroupIds |-> b]
          /\ agEnd \in [AdGroupIds -> {NoDate, StartDate + 1}]
          /\ \A g \in AdGroupIds :
                IF g \in groups THEN end # NoDate => agEnd[g] # NoDate ELSE agEnd[g] = NoDate
          /\ agStatus = [g \in AdGroupIds |-> IF g \in groups THEN "DRAFT" ELSE "none"]
  BY Zenon DEF CreationInit
<1>2. /\ SectionInit
      /\ cPo = [d \in CampaignIds |-> [p \in Payers |-> "empty"]]
      /\ cAddresses = [d \in CampaignIds |-> IF cStatus[d] = "none" THEN <<>> ELSE AddressList("CPG")]
      /\ cWriter = [d \in CampaignIds |-> NoOne]
      /\ cFaulty = {} /\ cSummary = {} /\ agKnown = {}
      /\ want = [h \in Handlers |-> NoRequest]
      /\ step = [h \in Handlers |-> "idle"]
      /\ about = [h \in Handlers |-> NoOne]
      /\ seen = [h \in Handlers |-> NoView]
      /\ updated = [h \in Handlers |-> "none"]
      /\ todo = [h \in Handlers |-> {}]
      /\ dNumbered = {} /\ dDetailed = {}
      /\ located = [h \in Handlers |-> {}]
      /\ agTargets = [g \in AdGroupIds |-> NoTargetData]
      /\ disturbed = {} /\ overran = {} /\ torn = {} /\ shortened = {} /\ mistakes = {}
  BY DEF CreationInit
<1>3. HandlerTypes
  BY <1>2 DEF HandlerTypes, SectionInit, Steps
<1>4. CampaignTypes
  <2>1. cStatus \in [CampaignIds -> CampaignStates] /\ cBudget \in [CampaignIds -> UpstreamBudgets]
    BY <1>1 DEF CampaignStates, Statuses, UpstreamBudgets
  <2>2. cEnd \in [CampaignIds -> Nat]
    BY <1>1 DEF NoDate, StartDate
  <2>3. cPo \in [CampaignIds -> [Payers -> PoNumbers]]
    BY <1>2 DEF PoNumbers
  <2>4. DOMAIN cAddresses = CampaignIds /\ cWriter \in [CampaignIds -> Handlers \cup {NoOne}]
    BY <1>2
  <2>5. cFaulty \cup cSummary \cup cLive \cup cKnown \cup torn \cup shortened \subseteq CampaignIds
    BY <1>1, <1>2 DEF CreationInit
  <2>6. QED  BY <2>1, <2>2, <2>3, <2>4, <2>5 DEF CampaignTypes
<1>5. GroupTypes
  <2>1. agEnd \in [AdGroupIds -> Nat]
    BY <1>1 DEF NoDate, StartDate
  <2>2. QED  BY <1>1, <1>2, <2>1 DEF GroupTypes, UpstreamBudgets, GroupStates
<1>6. TypesInv
  BY <1>2, <1>3, <1>4, <1>5 DEF TypesInv, DivisionTypes
<1>7. \A h \in Handlers : step[h] = "idle" /\ about[h] = NoOne /\ ~ New(h) /\ ~ Put(h)
  BY <1>2 DEF New, Put, NoRequest
<1>8. Running = {} /\ inside = {} /\ succeeded = {}
  BY <1>2, <1>7 DEF Running, SectionInit
<1>9. Apart
  BY <1>7, <1>8 DEF Apart
<1>10. ASSUME NEW h \in Handlers
       PROVE  OwnOf(h) /\ PatchedOf(h) /\ ViewOf(h)
  <2>1. PlaceOf(h)
    BY <1>7, <1>8 DEF PlaceOf, Inner
  <2>2. ReadOf(h)
    BY <1>2, <1>7 DEF ReadOf, NoView, ApiBudgets, Patched
  <2>3. StageOf(h) /\ MadeOf(h) /\ TargetsKept(h)
    BY <1>7, <1>8 DEF StageOf, MadeOf, TargetsKept
  <2>4. PatchedOf(h) /\ ViewOf(h)
    BY <1>7 DEF PatchedOf, ViewOf, Patched, Viewing
  <2>5. QED  BY <2>1, <2>2, <2>3, <2>4 DEF OwnOf
<1>11. ASSUME NEW g \in AdGroupIds
       PROVE  HomeOf(g) /\ BudgetOf(g) /\ EndOf(g)
  <2>1. CASE g \in groups
    <3>1. agHome[g] = c /\ agStatus[g] = "DRAFT" /\ agBudget[g] = b /\ cBudget[c] = b /\ cEnd[c] = end /\ cStatus[c] = s
          /\ agEnd[g] \in {NoDate, StartDate + 1} /\ (end # NoDate => agEnd[g] # NoDate)
      BY <1>1, <2>1
    <3>2. ~ (agEnd[g] > end) \/ end = NoDate
      BY <3>1 DEF NoDate, StartDate
    <3>3. QED  BY <3>1, <3>2 DEF HomeOf, BudgetOf, EndOf, Outlives, Statuses
  <2>2. CASE g \notin groups
    BY <1>1, <2>2 DEF HomeOf, BudgetOf, EndOf
  <2>3. QED  BY <2>1, <2>2
<1>12. QED  BY <1>2, <1>6, <1>9, <1>10, <1>11 DEF CreationInv

LEMMA CampaignStepKeeps ==
    ASSUME CreationInv, NEW h \in Handlers, CampaignStep(h), UNCHANGED targetVars
    PROVE  CreationInv'
<1>1. CASE \E r \in Requests : r.op # "post" /\ Begin(h, r)
  BY <1>1, BeginKeeps
<1>2. CASE Fail(h) \/ TakeLock(h) \/ LeaseRunsOut(h)
  BY <1>2, FailKeeps, TakeLockKeeps, LeaseRunsOutKeeps
<1>3. CASE StartCampaign(h) \/ PatchNew(h) \/ PatchContacts(h) \/ SetWorkflow(h) \/ AnswerCampaign(h)
  BY <1>3, StartCampaignKeeps, PatchNewKeeps, PatchContactsKeeps, SetWorkflowKeeps, AnswerCampaignKeeps
<1>4. CASE ReadCampaign(h) \/ ReadGroups(h) \/ Patch(h) \/ Reread(h) \/ Spread(h)
  BY <1>4, ReadCampaignKeeps, ReadGroupsKeeps, PatchKeeps, RereadKeeps, SpreadKeeps
<1>5. CASE CheckActivations(h) \/ CheckValidations(h) \/ Publish(h) \/ Settle(h)
  BY <1>5, CheckActivationsKeeps, CheckValidationsKeeps, PublishKeeps, SettleKeeps
<1>6. CASE Pause(h) \/ AnswerPause(h)
  BY <1>6, PauseKeeps, AnswerPauseKeeps
<1>7. QED  BY <1>1, <1>2, <1>3, <1>4, <1>5, <1>6 DEF CampaignStep

LEMMA InvNext ==
    ASSUME CreationInv, [CreationNext]_allVars
    PROVE  CreationInv'
<1>1. ASSUME NEW h \in Handlers, CampaignStep(h), UNCHANGED targetVars
      PROVE  CreationInv'
  BY <1>1, CampaignStepKeeps
<1>2. ASSUME NEW h \in Handlers, BeginPost(h)
      PROVE  CreationInv'
  BY <1>2, BeginKeeps DEF BeginPost
<1>3. ASSUME NEW h \in Handlers, ReadForGroup(h) \/ NumberDivisions(h) \/ DetailDivisions(h) \/ MakeLocationGroup(h)
      PROVE  CreationInv'
  BY <1>3, ReadForGroupKeeps, NumberDivisionsKeeps, DetailDivisionsKeeps, MakeLocationGroupKeeps
<1>4. ASSUME NEW h \in Handlers, CreateActivation(h) \/ Approve(h) \/ AnswerGroup(h)
      PROVE  CreationInv'
  BY <1>4, CreateActivationKeeps, ApproveKeeps, AnswerGroupKeeps
<1>5. ASSUME NEW c \in CampaignIds, ListAdGroups(c)
      PROVE  CreationInv'
  BY <1>5, ListAdGroupsKeeps
<1>6. CASE UNCHANGED targetVars /\ (LookupFilled \/ CampaignEnds)
  BY <1>6, LookupFilledKeeps, CampaignEndsKeeps
<1>7. CASE UNCHANGED allVars
  <2>1. /\ UNCHANGED <<secVars, requestVars, localVars, located, step, disturbed, overran, historyVars>>
        /\ UNCHANGED <<campaignVars, groupVars, cacheVars, targetVars>>
    BY <1>7 DEF allVars, vars, targetVars
  <2>2. CampaignTypes' /\ GroupTypes'
    BY <2>1 DEF CreationInv, TypesInv, CampaignTypes, GroupTypes, campaignVars, groupVars, cacheVars, historyVars, targetVars
  <2>3. QED  BY <2>1, <2>2, OutsideKeeps DEF GroupsStay, DivisionsStay, campaignVars, groupVars, targetVars
<1>8. QED  BY <1>1, <1>2, <1>3, <1>4, <1>5, <1>6, <1>7 DEF CreationNext

(* Campaigns and ad groups, whatever runs beside them: CreationInv holds.  *)
THEOREM CreationHolds == CreationSpec => []CreationInv
<1>1. CreationInit => CreationInv
  BY InvInit
<1>2. CreationInv /\ [CreationNext]_allVars => CreationInv'
  BY InvNext
<1>3. QED  BY <1>1, <1>2, PTL DEF CreationSpec
-----------------------------------------------------------------------------
(* The state properties.  The types; a request in a campaign's section is  *)
(* a PUT; and a request past its start knows its campaign.                 *)
THEOREM CreationTypeCorrect == CreationSpec => []CampaignTypeOK
<1>1. CreationInv => CampaignTypeOK
  <2> SUFFICES ASSUME CreationInv PROVE CampaignTypeOK
    OBVIOUS
  <2>1. TypesInv /\ \A h \in Handlers : PlaceOf(h)
    BY DEF CreationInv, OwnOf
  <2>2. \A h \in Running : step[h] \notin {"start", "lock"} => about[h] \in CampaignIds
    BY <2>1 DEF PlaceOf, Running
  <2>3. \A h \in inside : want[h].op = "put" /\ h \in Running
    BY <2>1 DEF TypesInv, HandlerTypes, PlaceOf, Running, Inner, Put
  <2>4. HandlerTypes /\ CampaignTypes /\ GroupTypes /\ DivisionTypes
    BY <2>1 DEF TypesInv
  <2>5. QED  BY <2>2, <2>3, <2>4 DEF CampaignTypeOK, HandlerTypes, CampaignTypes, GroupTypes, DivisionTypes
<1>2. QED  BY <1>1, CreationHolds, PTL

(* The address to bill is found again among those of a campaign.           *)
LEMMA BillingComesBack ==
    ASSUME NEW a
    PROVE  BillingAddress(AddressList(a)) = a
<1> DEFINE l == AddressList(a)
<1>1. l # <<>> /\ Len(l) = 2 /\ DOMAIN l = {1, 2} /\ l[1].type = "CORPORATE" /\ l[2] = [type |-> "ALTERNATE", of |-> a]
  BY DEF AddressList
<1>2. {i \in DOMAIN l : l[i].type = "ALTERNATE"} = {2}
  BY <1>1
<1>3. Min({2}) = 2
  BY DEF Min
<1>4. QED  BY <1>1, <1>2, <1>3 DEF BillingAddress

(* A campaign whose creation succeeded, and that nobody wrote to since,    *)
(* reads back as it was asked for.                                         *)
THEOREM CreatedAlwaysReadsBack == CreationSpec => []CreatedReadsBack
<1>1. CreationInv => CreatedReadsBack
  <2> SUFFICES ASSUME CreationInv, NEW h \in succeeded, want[h].op = "create", cWriter[about[h]] = h
               PROVE  /\ about[h] \in cSummary
                      /\ View(about[h]).budget = want[h].budget /\ View(about[h]).end = want[h].end
                      /\ View(about[h]).address = want[h].address
                      /\ BillingOf(want[h]) = "client" => View(about[h]).po = NewPo(want[h])
    BY DEF CreatedReadsBack
  <2>1. h \in Handlers /\ MadeOf(h) /\ PlaceOf(h)
    BY DEF CreationInv, TypesInv, HandlerTypes, OwnOf
  <2>2. Made(h) /\ step[h] = "over"
    BY <2>1 DEF MadeOf, PlaceOf, New
  <2>3. View(about[h]).address = want[h].address
    <3>1. cAddresses[about[h]] = AddressList(want[h].address)
      BY <2>2 DEF Made
    <3>2. QED  BY <3>1, BillingComesBack DEF View
  <2>4. QED  BY <2>2, <2>3 DEF Made, View
<1>2. QED  BY <1>1, CreationHolds, PTL

(* While no lease ran out, nothing was ever published that was a draft, had*)
(* no ad group or had validations.                                         *)
THEOREM AlwaysPublishedProperly == CreationSpec => []PublishedProperly
<1>1. CreationInv => PublishedProperly
  BY DEF CreationInv, PublishedProperly
<1>2. QED  BY <1>1, CreationHolds, PTL

(* With nothing under way, ad groups have their campaign's budget type ... *)
THEOREM BudgetTypeAlwaysSpreads == CreationSpec => []BudgetTypeSpreads
<1>1. CreationInv => BudgetTypeSpreads
  <2> SUFFICES ASSUME CreationInv, Quiet, disturbed = {}, NEW g \in AdGroupIds, agHome[g] \notin torn \cup {NoOne}
               PROVE  ToApi(agBudget[g]) = ToApi(cBudget[agHome[g]])
    BY DEF BudgetTypeSpreads
  <2>1. \A h \in Handlers : ~ Behind(g, h)
    BY DEF Quiet, Running, Behind
  <2>2. QED  BY <2>1 DEF CreationInv, BudgetOf
<1>2. QED  BY <1>1, CreationHolds, PTL

(* ... and do not outlive it, under the conditions the properties state.   *)
THEOREM GroupsAlwaysEndWithin == CreationSpec => []GroupsEndWithin
<1>1. CreationInv => GroupsEndWithin
  BY DEF CreationInv, GroupsEndWithin, EndOf
<1>2. QED  BY <1>1, CreationHolds, PTL

(* Which steps touch the sections and the answers: the others keep them.   *)
Kept == UNCHANGED <<want, about, inside, lapsed, succeeded>>

Touches(h) ==
    \/ \E r \in Requests : Begin(h, r) /\ UNCHANGED targetVars
    \/ StartCampaign(h) /\ UNCHANGED targetVars
    \/ TakeLock(h) /\ UNCHANGED targetVars
    \/ LeaseRunsOut(h) /\ UNCHANGED targetVars
    \/ h \in Running /\ IsOver(h, FALSE)
    \/ step[h] = "answer" /\ IsOver(h, TRUE)
    \/ step[h] = "paused" /\ IsOver(h, NoDelta(want[h], View(about[h])))
    \/ step[h] = "answer group" /\ IsOver(h, todo[h] \subseteq agKnown)

LEMMA GoingKeeps ==
    ASSUME NEW h, NEW s, GoesOn(h, s)
    PROVE  Kept
BY DEF GoesOn, Kept

LEMMA TouchingSteps ==
    ASSUME CreationInv, [CreationNext]_allVars
    PROVE  Kept \/ \E h \in Handlers : Touches(h)
<1>1. TypesInv /\ (\A h \in Handlers : OwnOf(h)) /\ \A h \in Handlers : PlaceOf(h) /\ ReadOf(h)
  BY DEF CreationInv, OwnOf
<1>2. ASSUME NEW h \in Handlers, CampaignStep(h), UNCHANGED targetVars
      PROVE  Kept \/ Touches(h)
  <2>1. CASE (\E r \in Requests : r.op # "post" /\ Begin(h, r)) \/ StartCampaign(h) \/ TakeLock(h) \/ LeaseRunsOut(h)
    BY <1>2, <2>1 DEF Touches
  <2>2. CASE Fail(h)
    BY <1>1, <1>2, <2>2, FailDoes DEF Touches
  <2>3. CASE PatchNew(h) \/ PatchContacts(h) \/ SetWorkflow(h) \/ Patch(h) \/ Pause(h)
    BY <2>3 DEF PatchNew, PatchContacts, SetWorkflow, Patch, Pause, PatchUpstream, Goto, Continue, Kept, requestVars, secVars
  <2>4. CASE AnswerCampaign(h)
    BY <1>1, <1>2, <2>4, AnswerCampaignDoes DEF Touches
  <2>5. CASE ReadCampaign(h)
    <3>1. step[h] = "read" /\ (IsOver(h, FALSE) \/ GoesOn(h, "groups") \/ GoesOn(h, "pause"))
      BY <1>1, <1>2, <2>5, ReadCampaignDoes
    <3>2. QED  BY <3>1, GoingKeeps DEF Touches, Running
  <2>6. CASE ReadGroups(h)
    <3>1. step[h] = "groups" /\ (IsOver(h, FALSE) \/ GoesOn(h, "patch"))
      BY <1>1, <1>2, <2>6, ReadGroupsDoes DEF Passes
    <3>2. QED  BY <3>1, GoingKeeps DEF Touches, Running
  <2>7. CASE Reread(h) \/ Spread(h)
    BY <2>7 DEF Reread, Spread, Continue, Kept, requestVars, secVars
  <2>8. CASE CheckActivations(h) \/ CheckValidations(h) \/ Publish(h) \/ Settle(h)
    BY <2>8 DEF CheckActivations, CheckValidations, Publish, Settle, Goto, Continue, Kept, requestVars, secVars
  <2>9. CASE AnswerPause(h)
    BY <1>1, <1>2, <2>9, AnswerPauseDoes DEF Touches
  <2>10. QED  BY <1>2, <2>1, <2>2, <2>3, <2>4, <2>5, <2>6, <2>7, <2>8, <2>9 DEF CampaignStep
<1>3. ASSUME NEW h \in Handlers, BeginPost(h)
      PROVE  Touches(h)
  BY <1>3 DEF BeginPost, Touches
<1>4. ASSUME NEW h \in Handlers, ReadForGroup(h)
      PROVE  Kept \/ Touches(h)
  <2>1. step[h] = "campaign" /\ (IsOver(h, FALSE) \/ GoesOn(h, "number divisions") \/ GoesOn(h, "location group"))
    BY <1>1, <1>4, ReadForGroupDoes
  <2>2. QED  BY <2>1, GoingKeeps DEF Touches, Running
<1>5. ASSUME NEW h \in Handlers, NumberDivisions(h) \/ DetailDivisions(h) \/ MakeLocationGroup(h) \/ CreateActivation(h)
                                 \/ Approve(h)
      PROVE  Kept
  BY <1>5 DEF NumberDivisions, DetailDivisions, MakeLocationGroup, CreateActivation, Approve, Goto, Continue, Kept,
              requestVars, secVars
<1>6. ASSUME NEW h \in Handlers, AnswerGroup(h)
      PROVE  Touches(h)
  BY <1>1, <1>6, AnswerGroupDoes DEF Touches
<1>7. ASSUME NEW c \in CampaignIds, ListAdGroups(c)
      PROVE  Kept
  BY <1>7 DEF ListAdGroups, Kept, requestVars, secVars
<1>8. CASE LookupFilled \/ CampaignEnds \/ UNCHANGED allVars
  BY <1>8 DEF LookupFilled, CampaignEnds, allVars, vars, Kept, requestVars, secVars
<1>9. QED  BY <1>2, <1>3, <1>4, <1>5, <1>6, <1>7, <1>8 DEF CreationNext

(* A success, if it is one, is that of a last call.                        *)
Wins(h, ok) ==
    ok => \/ step[h] = "answer"
          \/ step[h] = "paused" /\ NoDelta(want[h], View(about[h]))
          \/ step[h] = "answer group"

(* Only the handler whose last call this was is answered as a success.     *)
LEMMA WhoSucceeds ==
    ASSUME CreationInv, [CreationNext]_allVars, NEW k \in succeeded' \ succeeded
    PROVE  /\ k \in Handlers /\ k \in Running
           /\ \/ step[k] = "answer"
              \/ step[k] = "paused" /\ NoDelta(want[k], View(about[k]))
              \/ step[k] = "answer group"
<1>1. PICK h \in Handlers : Touches(h)
  BY TouchingSteps DEF Kept
<1>2. TypesInv
  BY DEF CreationInv
<1>3. ~ ((\E r \in Requests : Begin(h, r)) \/ StartCampaign(h) \/ TakeLock(h) \/ LeaseRunsOut(h))
  BY DEF Begin, StartCampaign, TakeLock, LeaseRunsOut, Goto, Continue, Lapse, secVars
<1>4. PICK ok : IsOver(h, ok) /\ Wins(h, ok)
  <2>1. PICK no \in BOOLEAN, yes \in BOOLEAN : no = FALSE /\ yes = TRUE
    OBVIOUS
  <2>2. CASE IsOver(h, no)
    <3>1. Wins(h, no)
      BY <2>1 DEF Wins
    <3>2. QED  BY <2>2, <3>1, Zenon
  <2>3. CASE step[h] = "answer" /\ IsOver(h, yes)
    <3>1. Wins(h, yes)
      BY <2>3 DEF Wins
    <3>2. QED  BY <2>3, <3>1, Zenon
  <2>4. CASE step[h] = "paused" /\ IsOver(h, NoDelta(want[h], View(about[h])))
    <3>1. Wins(h, NoDelta(want[h], View(about[h])))
      BY <2>4, Zenon DEF Wins
    <3>2. QED  BY <2>4, <3>1, Zenon
  <2>5. CASE step[h] = "answer group" /\ IsOver(h, todo[h] \subseteq agKnown)
    <3>1. Wins(h, todo[h] \subseteq agKnown)
      BY <2>5, Zenon DEF Wins
    <3>2. QED  BY <2>5, <3>1, Zenon
  <2>6. QED  BY <1>1, <1>3, <2>1, <2>2, <2>3, <2>4, <2>5 DEF Touches
<1>5. k = h
  BY <1>4 DEF IsOver, Moves, HandlerTypes, SameOf
<1>6. ok
  BY <1>4, <1>5 DEF IsOver
<1>7. QED  BY <1>4, <1>5, <1>6 DEF Running, Wins

(* A PUT that succeeds did what it asked, while no lease ran out.          *)
THEOREM PutIsAlwaysDone == CreationSpec => PutIsDone
<1> DEFINE A == \A h \in succeeded' \ succeeded : want[h].op = "put" /\ overran = {} =>
          LET r == want[h]
              v == View(about[h])
          IN  /\ v.end = r.end \/ (r.end = NoDate /\ step[h] = "paused")
              /\ v.status \in {Asked(h), "ENDED"}
              /\ r.budget # "same" /\ seen[h].status = "DRAFT" => v.budget = r.budget
              /\ r.name = "new" => cWriter[about[h]] = h
<1>1. CreationInv /\ [CreationNext]_allVars => [A]_allVars
  <2> SUFFICES ASSUME CreationInv, [CreationNext]_allVars, NEW h \in succeeded' \ succeeded, want[h].op = "put", overran = {}
               PROVE  /\ View(about[h]).end = want[h].end \/ (want[h].end = NoDate /\ step[h] = "paused")
                      /\ View(about[h]).status \in {Asked(h), "ENDED"}
                      /\ want[h].budget # "same" /\ seen[h].status = "DRAFT" => View(about[h]).budget = want[h].budget
                      /\ want[h].name = "new" => cWriter[about[h]] = h
    BY DEF A
  <2>1. /\ h \in Handlers /\ h \in Running
        /\ \/ step[h] = "answer"
           \/ step[h] = "paused" /\ NoDelta(want[h], View(about[h]))
           \/ step[h] = "answer group"
    BY WhoSucceeds
  <2>2. PatchedOf(h) /\ PlaceOf(h) /\ TypesInv /\ Put(h)
    BY <2>1 DEF CreationInv, OwnOf, Put
  <2>3. about[h] \in CampaignIds /\ step[h] # "answer group"
    BY <2>1, <2>2 DEF PlaceOf, PostSteps, Put, Post
  <2>4. View(about[h]).status = cStatus[about[h]] /\ View(about[h]).end = cEnd[about[h]]
        /\ View(about[h]).budget = ToApi(cBudget[about[h]])
    BY <2>2, <2>3, ViewHas
  <2>5. CASE step[h] = "answer"
    BY <2>2, <2>4, <2>5 DEF PatchedOf
  <2>6. CASE step[h] = "paused" /\ NoDelta(want[h], View(about[h]))
    <3>1. PICK v : v = View(about[h])
      OBVIOUS
    <3>2. want[h].name = "kept" /\ want[h].end \in {NoDate, v.end} /\ want[h].budget \in {"same", v.budget}
      BY <2>6, <3>1 DEF NoDelta
    <3>3. v.status \in {Asked(h), "ENDED"}
      BY <2>2, <2>4, <2>6, <3>1 DEF PatchedOf
    <3>4. QED  BY <2>6, <3>1, <3>2, <3>3
  <2>7. QED  BY <2>1, <2>3, <2>5, <2>6
<1>2. QED  BY <1>1, CreationHolds, PTL DEF CreationSpec, PutIsDone

(* The targets of a request, and that an ad group shows them.              *)
Shaped(asked) ==
    \A t \in asked : /\ t.type = 1 => t = Placement(t.id)
                     /\ t.type = 2 => t = DivisionTarget(t.id)
                     /\ t.type = 3 => t = Hours(t.values[1], t.values[2])

ComesBack(asked, shown, detailed) ==
    /\ OfType(asked, 2) # {} => shown \subseteq asked
    /\ {t \in asked : t.type \in {1, 3} \/ (t.type = 2 /\ t.id \in detailed)} \subseteq shown

(* Targets come back from an activation: what was asked for and has its    *)
(* details, and nothing else when divisions were asked for.                *)
LEMMA TargetsComeBack ==
    ASSUME NEW asked, NEW detailed, NEW numbered, detailed \subseteq numbered,
           Shaped(asked),
           NEW f, f = FetchTargets(asked),
           NEW p, p = LocationGroup(IF f.divisions = {} THEN Divisions ELSE f.divisions, detailed)
    PROVE  ComesBack(asked, TargetsFromActivation(TargetData(f, p), numbered), detailed)
<1> USE DEF Shaped
<1> DEFINE shown == TargetsFromActivation(TargetData(f, p), numbered)
<1>1. /\ f.placements = {t.id : t \in OfType(asked, 1)} /\ f.divisions = {t.id : t \in OfType(asked, 2)}
      /\ f.dayParting = {t.values : t \in OfType(asked, 3)}
  BY DEF FetchTargets
<1>2. \A x : x \in shown <=> \/ \E q \in f.placements : x = Placement(q)
                             \/ \E d \in p \cap numbered : x = DivisionTarget(d)
                             \/ \E v \in f.dayParting : x = Hours(v[1], v[2])
  BY DEF TargetsFromActivation, TargetData
<1>3. ASSUME NEW t \in asked, t.type \in {1, 3} \/ (t.type = 2 /\ t.id \in detailed)
      PROVE  t \in shown
  <2>1. CASE t.type = 1
    BY <1>1, <1>2, <2>1 DEF OfType
  <2>2. CASE t.type = 3
    BY <1>1, <1>2, <2>2 DEF OfType
  <2>3. CASE t.type = 2
    <3>1. t.id \in f.divisions /\ t.id \in detailed
      BY <1>1, <1>3, <2>3 DEF OfType
    <3>2. t.id \in p \cap numbered /\ t = DivisionTarget(t.id)
      BY <2>3, <3>1 DEF LocationGroup
    <3>3. QED  BY <1>2, <3>2
  <2>4. QED  BY <1>3, <2>1, <2>2, <2>3
<1>4. ASSUME OfType(asked, 2) # {}, NEW x \in shown
      PROVE  x \in asked
  <2>1. CASE \E q \in f.placements : x = Placement(q)
    <3>1. PICK t \in asked : t.type = 1 /\ x = Placement(t.id)
      BY <1>1, <2>1 DEF OfType
    <3>2. QED  BY <3>1
  <2>2. CASE \E d \in p \cap numbered : x = DivisionTarget(d)
    <3>1. p \subseteq f.divisions
      <4>1. PICK t : t \in OfType(asked, 2)
        BY <1>4
      <4>2. t.id \in f.divisions
        BY <1>1, <4>1
      <4>3. QED  BY <4>2 DEF LocationGroup
    <3>2. PICK t \in asked : t.type = 2 /\ x = DivisionTarget(t.id)
      BY <1>1, <2>2, <3>1 DEF OfType
    <3>3. QED  BY <3>2
  <2>3. CASE \E v \in f.dayParting : x = Hours(v[1], v[2])
    <3>1. PICK t \in asked : t.type = 3 /\ x = Hours(t.values[1], t.values[2])
      BY <1>1, <2>3 DEF OfType
    <3>2. QED  BY <3>1
  <2>4. QED  BY <1>2, <1>4, <2>1, <2>2, <2>3
<1>5. QED  BY <1>3, <1>4 DEF ComesBack

(* An ad group whose creation succeeded, and met no other, shows the       *)
(* targets that were asked for.                                            *)
THEOREM GroupAlwaysReadsBack == CreationSpec => GroupReadsBack
<1> DEFINE A == \A h \in succeeded' \ (succeeded \cup disturbed) : want[h].op = "post" =>
          \A g \in todo[h] :
              LET shown == TargetsFromActivation(agTargets[g], dNumbered)
                  asked == want[h].targets
                  known == {t \in asked : t.type \in {1, 3} \/ (t.type = 2 /\ t.id \in dDetailed)}
              IN  /\ OfType(asked, 2) # {} => shown \subseteq asked
                  /\ known \subseteq shown
<1>1. CreationInv /\ [CreationNext]_allVars => [A]_allVars
  <2> SUFFICES ASSUME CreationInv, [CreationNext]_allVars, NEW h \in succeeded' \ (succeeded \cup disturbed),
                      want[h].op = "post", NEW g \in todo[h]
               PROVE  ComesBack(want[h].targets, TargetsFromActivation(agTargets[g], dNumbered), dDetailed)
    BY DEF A, ComesBack
  <2>1. /\ h \in Handlers /\ h \in Running /\ step[h] \in {"answer", "paused", "answer group"}
    BY WhoSucceeds
  <2>2. TargetsKept(h) /\ PlaceOf(h) /\ DivisionTypes /\ Post(h) /\ h \notin disturbed
    BY <2>1 DEF CreationInv, OwnOf, TypesInv, Post
  <2>3. step[h] = "answer group" /\ want[h] \in Requests
    BY <2>1, <2>2 DEF PlaceOf, Inner, New, Put, Post
  <2>4. agTargets[g] = TargetData(TargetsOf(h), PlacesFor(h))
    BY <2>2, <2>3 DEF TargetsKept
  <2>5. PICK asked, f, p : asked = want[h].targets /\ f = FetchTargets(asked)
                           /\ p = LocationGroup(IF f.divisions = {} THEN Divisions ELSE f.divisions, dDetailed)
    OBVIOUS
  <2>6. agTargets[g] = TargetData(f, p)
    BY <2>4, <2>5 DEF TargetsOf, PlacesFor
  <2>7. dDetailed \subseteq dNumbered /\ Shaped(asked)
    BY <2>2, <2>3, <2>5, TargetsAssumption DEF DivisionTypes, Post, Shaped
  <2>8. PICK detailed, numbered : detailed = dDetailed /\ numbered = dNumbered
    OBVIOUS
  <2>9. detailed \subseteq numbered /\ p = LocationGroup(IF f.divisions = {} THEN Divisions ELSE f.divisions, detailed)
    BY <2>5, <2>7, <2>8
  <2>10. ComesBack(asked, TargetsFromActivation(TargetData(f, p), numbered), detailed)
    <3>1. f = FetchTargets(asked)
      BY <2>5
    <3>2. QED  BY <2>7, <2>9, <3>1, TargetsComeBack
  <2>11. QED  BY <2>5, <2>6, <2>8, <2>10
<1>2. QED  BY <1>1, CreationHolds, PTL DEF CreationSpec, GroupReadsBack

(* The lock divides into a section with leases for each campaign: for any  *)
(* campaign, what the requests do is a step of its section or none.        *)
LEMMA SectionSteps ==
    ASSUME CreationInv, [CreationNext]_allVars, NEW c \in CampaignIds
    PROVE  UNCHANGED SectionOf(c)!secVars \/ SectionOf(c)!SectionNext
<1> DEFINE ins == OnCampaign(c, inside)
           lap == OnCampaign(c, lapsed)
           suc == OnCampaign(c, succeeded)
<1>0. /\ TypesInv /\ (\A h \in Handlers : PlaceOf(h)) /\ inside \subseteq Handlers /\ lapsed \subseteq inside
      /\ succeeded \subseteq Handlers /\ DOMAIN want = Handlers
  BY DEF CreationInv, OwnOf, TypesInv, HandlerTypes
<1>1. CASE Kept
  BY <1>1 DEF Kept, SectionOf!secVars, OnCampaign
<1>2. ASSUME NEW h \in Handlers, NEW r \in Requests, Begin(h, r), UNCHANGED targetVars
      PROVE  UNCHANGED <<ins, lap, suc>>
  <2>1. /\ step[h] = "idle" /\ UNCHANGED <<inside, lapsed, succeeded>>
        /\ \A i \in Handlers \ {h} : want'[i] = want[i] /\ about'[i] = about[i]
    BY <1>0, <1>2, BeginDoes DEF Moves, SameOf
  <2>2. h \notin inside /\ h \notin lapsed /\ h \notin succeeded
    BY <1>0, <2>1 DEF PlaceOf, Inner
  <2>3. QED  BY <1>0, <2>1, <2>2 DEF OnCampaign
<1>3. ASSUME NEW h \in Handlers, StartCampaign(h), UNCHANGED targetVars
      PROVE  UNCHANGED <<ins, lap, suc>>
  <2>1. /\ step[h] = "start" /\ UNCHANGED <<inside, lapsed, succeeded>>
        /\ \A i \in Handlers \ {h} : want'[i] = want[i] /\ about'[i] = about[i]
    BY <1>0, <1>3, StartCampaignDoes DEF Moves, SameOf
  <2>2. h \notin inside /\ h \notin lapsed /\ h \notin succeeded
    BY <1>0, <2>1 DEF PlaceOf, Inner
  <2>3. QED  BY <1>0, <2>1, <2>2 DEF OnCampaign
<1>4. ASSUME NEW h \in Handlers, TakeLock(h), UNCHANGED targetVars
      PROVE  UNCHANGED <<ins, lap, suc>> \/ SectionOf(c)!Enter(h)
  <2>1. /\ step[h] = "lock" /\ (\A i \in inside \ lapsed : about[i] # about[h])
        /\ inside' = inside \cup {h} /\ UNCHANGED <<want, about, lapsed, succeeded>>
    BY <1>0, <1>4, TakeLockDoes
  <2>2. Put(h) /\ h \notin inside
    BY <1>0, <2>1 DEF PlaceOf, Inner, Running
  <2>3. CASE about[h] # c
    BY <2>1, <2>3 DEF OnCampaign
  <2>4. CASE about[h] = c
    <3>1. ins' = ins \cup {h} /\ UNCHANGED <<lap, suc>> /\ h \notin ins /\ ins \subseteq lap
      BY <1>0, <2>1, <2>2, <2>4 DEF OnCampaign, Put
    <3>2. QED  BY <3>1 DEF SectionOf!Enter
  <2>5. QED  BY <2>3, <2>4
<1>5. ASSUME NEW h \in Handlers, LeaseRunsOut(h), UNCHANGED targetVars
      PROVE  UNCHANGED <<ins, lap, suc>> \/ SectionOf(c)!Lapse(h)
  <2>1. h \in inside \ lapsed /\ lapsed' = lapsed \cup {h} /\ UNCHANGED <<want, about, inside, succeeded>>
    BY <1>0, <1>5, LeaseRunsOutDoes
  <2>2. CASE about[h] # c \/ ~ Put(h)
    BY <2>1, <2>2 DEF OnCampaign, Put
  <2>3. CASE about[h] = c /\ Put(h)
    <3>1. lap' = lap \cup {h} /\ UNCHANGED <<ins, suc>> /\ h \in ins \ lap
      BY <2>1, <2>3 DEF OnCampaign, Put
    <3>2. QED  BY <3>1 DEF SectionOf!Lapse
  <2>4. QED  BY <2>2, <2>3
<1>6. ASSUME NEW h \in Handlers, NEW ok, h \in Running, IsOver(h, ok), ok => step[h] # "lock"
      PROVE  UNCHANGED <<ins, lap, suc>> \/ \E won \in BOOLEAN : SectionOf(c)!Leave(h, won)
  <2>1. /\ UNCHANGED <<want, about>> /\ h \notin inside' /\ h \notin lapsed' /\ inside' \subseteq Handlers
        /\ h \in succeeded' => h \in succeeded \/ (ok /\ h \notin lapsed)
        /\ lapsed' \subseteq Handlers /\ succeeded' \subseteq Handlers
        /\ \A i \in Handlers \ {h} : /\ i \in inside' <=> i \in inside
                                     /\ i \in lapsed' <=> i \in lapsed
                                     /\ i \in succeeded' <=> i \in succeeded
    BY <1>6 DEF IsOver, Moves, SameOf, HandlerTypes
  <2>2. PlaceOf(h) /\ h \notin succeeded
    BY <1>0, <1>6 DEF PlaceOf, Running
  <2>3. inside' = inside \ {h} /\ lapsed' = lapsed \ {h}
    BY <1>0, <2>1
  <2>4. succeeded' = IF h \in succeeded' THEN succeeded \cup {h} ELSE succeeded
    BY <1>0, <2>1, <2>2
  <2>5. CASE h \notin inside
    <3>1. h \in succeeded' => ~ Put(h)
      <4> SUFFICES ASSUME h \in succeeded', Put(h) PROVE FALSE
        OBVIOUS
      <4>1. step[h] # "lock"
        BY <1>6, <2>1, <2>2
      <4>2. step[h] \notin Inner /\ step[h] # "answer"
        BY <2>2, <2>5 DEF PlaceOf
      <4>3. step[h] \notin NewSteps /\ step[h] \notin PostSteps
        BY <1>6, <2>2 DEF PlaceOf, Put, New, Post
      <4>4. step[h] \in Steps /\ step[h] \notin {"idle", "over"}
        BY <1>0, <1>6 DEF TypesInv, HandlerTypes, Running
      <4>5. QED  BY <4>1, <4>2, <4>3, <4>4 DEF Steps, NewSteps, PostSteps, Inner
    <3>2. inside' = inside /\ lapsed' = lapsed /\ \A i \in succeeded' \ succeeded : ~ Put(i)
      BY <1>0, <2>3, <2>4, <2>5, <3>1
    <3>3. succeeded \subseteq succeeded'
      BY <2>4
    <3>4. suc' = suc
      BY <2>1, <3>2, <3>3 DEF OnCampaign, Put
    <3>5. QED  BY <2>1, <3>2, <3>4 DEF OnCampaign
  <2>6. CASE h \in inside /\ about[h] # c
    BY <2>1, <2>3, <2>4, <2>6 DEF OnCampaign
  <2>7. CASE h \in inside /\ about[h] = c
    <3>1. Put(h)
      BY <2>2, <2>7 DEF PlaceOf, Running, Inner
    <3>2. PICK no \in BOOLEAN, yes \in BOOLEAN : no = FALSE /\ yes = TRUE
      OBVIOUS
    <3>3. ins' = ins \ {h} /\ lap' = lap \ {h} /\ h \in ins
      BY <2>1, <2>3, <2>7, <3>1 DEF OnCampaign, Put
    <3>4. CASE h \in succeeded'
      <4>1. suc' = suc \cup {h} /\ h \notin lap
        BY <2>1, <2>2, <2>4, <2>7, <3>1, <3>4 DEF OnCampaign, Put
      <4>2. SectionOf(c)!Leave(h, yes)
        BY <3>2, <3>3, <4>1 DEF SectionOf!Leave
      <4>3. QED  BY <4>2, Zenon
    <3>5. CASE h \notin succeeded'
      <4>1. suc' = suc
        BY <2>1, <2>2, <2>4, <3>5 DEF OnCampaign
      <4>2. SectionOf(c)!Leave(h, no)
        BY <3>2, <3>3, <4>1 DEF SectionOf!Leave
      <4>3. QED  BY <4>2, Zenon
    <3>6. QED  BY <3>4, <3>5
  <2>8. QED  BY <2>5, <2>6, <2>7
<1>7. ASSUME NEW h \in Handlers, Touches(h)
      PROVE  UNCHANGED <<ins, lap, suc>> \/ SectionOf(c)!SectionNext
  <2>1. PICK no \in BOOLEAN, yes \in BOOLEAN : no = FALSE /\ yes = TRUE
    OBVIOUS
  <2>2. CASE h \in Running /\ IsOver(h, no)
    BY <1>6, <2>1, <2>2 DEF SectionOf!SectionNext
  <2>3. CASE step[h] = "answer" /\ IsOver(h, yes)
    BY <1>6, <2>3 DEF SectionOf!SectionNext, Running
  <2>4. CASE step[h] = "paused" /\ IsOver(h, NoDelta(want[h], View(about[h])))
    BY <1>6, <2>4 DEF SectionOf!SectionNext, Running
  <2>5. CASE step[h] = "answer group" /\ IsOver(h, todo[h] \subseteq agKnown)
    BY <1>6, <2>5 DEF SectionOf!SectionNext, Running
  <2>6. CASE UNCHANGED targetVars /\ ((\E r \in Requests : Begin(h, r)) \/ StartCampaign(h))
    BY <1>2, <1>3, <2>6
  <2>7. CASE UNCHANGED targetVars /\ (TakeLock(h) \/ LeaseRunsOut(h))
    BY <1>4, <1>5, <2>7 DEF SectionOf!SectionNext
  <2>8. QED  BY <1>7, <2>1, <2>2, <2>3, <2>4, <2>5, <2>6, <2>7 DEF Touches
<1>8. QED  BY <1>1, <1>7, TouchingSteps DEF SectionOf!secVars

(* The lock keeps the PUTs on one campaign apart, and only those: every    *)
(* campaign has an exclusive section of its own [harness_locked.py:28].    *)
THEOREM CampaignsAlwaysHaveSections == CreationSpec => CampaignsHaveSections
<1>1. CreationInv /\ [CreationNext]_allVars =>
          [\A c \in CampaignIds : UNCHANGED SectionOf(c)!secVars \/ SectionOf(c)!SectionNext]_allVars
  BY SectionSteps
<1>2. QED  BY <1>1, CreationHolds, PTL DEF CreationSpec, CampaignsHaveSections

(* ... so the PUTs on any one campaign are an implementation of an         *)
(* exclusive section with leases.                                          *)
THEOREM EachCampaignIsASection ==
    ASSUME NEW c \in CampaignIds
    PROVE  CreationSpec => SectionOf(c)!SectionSpec
<1>1. CreationInit => SectionOf(c)!SectionInit
  BY DEF CreationInit, SectionInit, SectionOf!SectionInit, OnCampaign
<1>2. CreationInv /\ [CreationNext]_allVars => [SectionOf(c)!SectionNext]_(SectionOf(c)!secVars)
  BY SectionSteps
<1>3. QED  BY <1>1, <1>2, CreationHolds, PTL DEF CreationSpec, SectionOf!SectionSpec
=============================================================================
