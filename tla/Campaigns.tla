----------------------------- MODULE Campaigns -----------------------------
(***************************************************************************)
(* The requests that change a campaign, call by call:                      *)
(*   "create"  POST /campaigns       create_campaign: start, patch,        *)
(*             contacts and addresses, workflow, read                      *)
(*   "put"     PUT /campaigns/{id}   update_campaign, under the campaign's *)
(*             lock: read, check, patch, read again, write a new budget    *)
(*             type into the ad groups, publish, read                      *)
(* A PUT that pauses or unpauses takes another way and does nothing else.  *)
(* AdGroupCreation adds the requests that create ad groups in a campaign.  *)
(*                                                                         *)
(* Every call may fail and ends the request there; nothing is undone.  The *)
(* campaign service holds the campaigns, the activation service the ad     *)
(* groups, Redis the way from a short id to a long one.  The lock is the   *)
(* section with leases of ExclusiveSection, one for each campaign, which   *)
(* EntityLock implements.                                                  *)
(***************************************************************************)
EXTENDS ExclusiveSection, CampaignPayloads

CONSTANTS
    CampaignIds,    \* the campaigns there may ever be
    AdGroupIds,     \* the ad groups there may ever be
    Requests        \* what a client may ask: see RequestsAssumption

Statuses == {"DRAFT", "SCHEDULED", "ACTIVE", "PAUSED", "ENDED"}
CampaignStates == Statuses \cup {"none", "new"}

ASSUME RequestsAssumption ==
    \A r \in Requests :
        /\ r.op \in {"create", "put", "post"}
        /\ r.status \in Statuses \cup {"same"}
        /\ r.name \in {"kept", "new"}
        /\ r.budget \in ApiBudgets \cup {"same"}
        /\ r.end \in Nat
        /\ r.po \in PoNumbers
        /\ r.user \in Payers
        /\ r.address \in {"CPG", "AGENCY"}
        /\ r.contact \in {"CPG", "AGENCY", "stranger"}
        /\ r.op = "create" => r.status = "DRAFT" /\ r.budget \in ApiBudgets

ASSUME NoOneAssumption == NoOne \notin Handlers \cup CampaignIds

VARIABLES
    \* the campaigns, upstream
    cStatus, cBudget, cEnd, cPo, cAddresses,
    cWriter,    \* the request that patched a campaign last, whose name it has
    cFaulty,    \* the campaigns the service has validations for
    cSummary,   \* those whose workflow is at the summary
    cLive,      \* those published
    \* the ad groups, upstream
    agHome, agBudget, agEnd, agStatus,
    \* Redis: the campaigns and ad groups whose short id leads to the long one
    cKnown, agKnown,
    \* each request
    want, step, about, seen,
    updated,    \* the budget type read again after the patch
    todo,       \* the ad groups it is still to be written into
    \* history
    disturbed,  \* the requests that had company
    overran,    \* those that outlived their lease
    torn,       \* the campaigns a PUT changed and then failed on
    shortened,  \* those whose end date was moved
    mistakes    \* what was ever wrong with a published campaign

campaignVars == <<cStatus, cBudget, cEnd, cPo, cAddresses, cWriter, cFaulty, cSummary, cLive>>
groupVars == <<agHome, agBudget, agEnd, agStatus>>
cacheVars == <<cKnown, agKnown>>
requestVars == <<want, about>>
localVars == <<seen, updated, todo>>
historyVars == <<torn, shortened, mistakes>>
vars == <<secVars, campaignVars, groupVars, cacheVars, requestVars, localVars, step,
          disturbed, overran, historyVars>>

NoRequest == [op |-> "none"]
NoView == [status |-> "none", budget |-> "DAILY", end |-> NoDate, po |-> "empty", address |-> "none"]

Steps == {"idle", "over",
          "start", "details", "contacts", "workflow", "answer",
          "lock", "read", "groups", "patch", "reread", "spread", "activations",
          "validations", "publish", "settle", "pause", "paused",
          "campaign", "number divisions", "detail divisions", "location group", "activation",
          "approve", "answer group"}

Running == {h \in Handlers : step[h] \notin {"idle", "over"}}

GroupsOf(c) == {g \in AdGroupIds : agHome[g] = c}

(* What a GET of the campaign shows.                                       *)
View(c) == [status |-> cStatus[c], budget |-> ToApi(cBudget[c]), end |-> cEnd[c],
            po |-> cPo[c]["client"], address |-> BillingAddress(cAddresses[c])]

(* The status a PUT sends: the one asked for or the one read.              *)
Asked(h) == StatusAsked(want[h], seen[h])
-----------------------------------------------------------------------------
At(h, s) == step[h] = s

(* The handler goes on with call s, with what it has read or not.          *)
Continue(h, s) ==
    /\ step' = [step EXCEPT ![h] = s]
    /\ UNCHANGED <<secVars, disturbed, overran>>

Goto(h, s) == Continue(h, s) /\ UNCHANGED localVars

(* Mutant of Answer: the section is not left.                              *)
AnswerInside(h, ok) ==
    /\ step' = [step EXCEPT ![h] = "over"]
    /\ seen' = [seen EXCEPT ![h] = NoView]
    /\ updated' = [updated EXCEPT ![h] = "none"]
    /\ todo' = [todo EXCEPT ![h] = {}]
    /\ succeeded' = IF ok THEN succeeded \cup {h} ELSE succeeded
    /\ UNCHANGED <<inside, lapsed, disturbed, overran>>

(* The handler returns or raises, and what it had read is gone.  One that  *)
(* outlived its lease is answered as a failure, whatever it did.           *)
Answer(h, ok) ==
    /\ step' = [step EXCEPT ![h] = "over"]
    /\ seen' = [seen EXCEPT ![h] = NoView]
    /\ updated' = [updated EXCEPT ![h] = "none"]
    /\ todo' = [todo EXCEPT ![h] = {}]
    /\ IF h \in inside
       THEN Leave(h, ok /\ h \notin lapsed)
       ELSE /\ succeeded' = IF ok THEN succeeded \cup {h} ELSE succeeded
            /\ UNCHANGED <<inside, lapsed>>
    /\ UNCHANGED <<disturbed, overran>>

(* A request arrives.  A creation is checked before its first call.        *)
Begin(h, r) ==
    /\ At(h, "idle")
    /\ want' = [want EXCEPT ![h] = r]
    /\ about' \in IF r.op = "create" THEN {about}
                  ELSE {[about EXCEPT ![h] = c] : c \in {d \in CampaignIds : cStatus[d] \in Statuses}}
    /\ step' = [step EXCEPT ![h] =
                   CASE r.op = "create" -> IF DatesFitBudget(r) /\ BillingOf(r) # "refused"
                                           THEN "start" ELSE "over"
                     [] r.op = "put"  -> "lock"
                     [] r.op = "post" -> "campaign"]
    /\ disturbed' = disturbed \cup (IF Running = {} THEN {} ELSE Running \cup {h})
    /\ UNCHANGED <<secVars, campaignVars, groupVars, cacheVars, localVars,
                   overran, historyVars>>

(* A call fails, upstream or in Redis, or what the client sent is refused. *)
Fail(h) ==
    /\ h \in Running
    /\ Answer(h, FALSE)
    /\ torn' = IF want[h].op = "put" /\ step[h] \in {"reread", "spread"}
               THEN torn \cup {about[h]} ELSE torn
    /\ UNCHANGED <<campaignVars, groupVars, cacheVars, requestVars, shortened, mistakes>>

(* Mutant of TakeLock: a handler on the campaign does not keep others out. *)
TakeLockAnyway(h) ==
    /\ At(h, "lock")
    /\ inside' = inside \cup {h}
    /\ step' = [step EXCEPT ![h] = "read"]
    /\ UNCHANGED <<lapsed, succeeded, campaignVars, groupVars, cacheVars, requestVars, localVars,
                   disturbed, overran, historyVars>>

(* locked: the lock has the campaign's id in its name, so it is free when  *)
(* all that are inside are on other campaigns or overdue.                  *)
TakeLock(h) ==
    /\ At(h, "lock")
    /\ \A i \in inside \ lapsed : about[i] # about[h]
    /\ inside' = inside \cup {h}
    /\ step' = [step EXCEPT ![h] = "read"]
    /\ UNCHANGED <<lapsed, succeeded, campaignVars, groupVars, cacheVars, requestVars, localVars,
                   disturbed, overran, historyVars>>

LeaseRunsOut(h) ==
    /\ Lapse(h)
    /\ overran' = overran \cup {h}
    /\ UNCHANGED <<campaignVars, groupVars, cacheVars, requestVars, localVars, step, disturbed,
                   historyVars>>
-----------------------------------------------------------------------------
(* _start_campaign: the workflow makes an empty campaign.  From here on a  *)
(* failure leaves it there, and the client has no id for it.               *)
StartCampaign(h) ==
    /\ At(h, "start")
    /\ \E c \in CampaignIds :
          /\ cStatus[c] = "none"
          /\ cStatus' = [cStatus EXCEPT ![c] = "new"]
          /\ about' = [about EXCEPT ![h] = c]
    /\ Goto(h, "details")
    /\ UNCHANGED <<cBudget, cEnd, cPo, cAddresses, cWriter, cFaulty, cSummary, cLive,
                   groupVars, cacheVars, want, historyVars>>

(* The patch of one campaign is accepted, and validated upstream.          *)
PatchUpstream(h, status, budget, end, payer, po) ==
    LET c == about[h]
    IN  /\ cStatus' = [cStatus EXCEPT ![c] = status]
        /\ cBudget' = [cBudget EXCEPT ![c] = budget]
        /\ cEnd' = [cEnd EXCEPT ![c] = end]
        /\ cWriter' = [cWriter EXCEPT ![c] = h]
        /\ cPo' = [cPo EXCEPT ![c][payer] = po]
        /\ cFaulty' \in {cFaulty \cup {c}, cFaulty \ {c}}
        /\ UNCHANGED <<cAddresses, cSummary, cLive, groupVars, cacheVars, requestVars, mistakes>>

(* Mutant of PatchNew: a failed look-up of the Koddi advertiser aside, the *)
(* purchase order always goes to the agency's billing.                     *)
PatchNewForAgency(h) ==
    LET r == want[h]
    IN  /\ At(h, "details")
        /\ PatchUpstream(h, r.status, ToUpstream(r.budget), r.end, "agency", NewPo(r))
        /\ Goto(h, "contacts")
        /\ UNCHANGED <<torn, shortened>>

(* _patch_campaign of a creation, with the Koddi advertiser of its brands: *)
(* build_create_payload.                                                   *)
PatchNew(h) ==
    LET r == want[h]
    IN  /\ At(h, "details")
        /\ PatchUpstream(h, r.status, ToUpstream(r.budget), r.end, BillingOf(r), NewPo(r))
        /\ Goto(h, "contacts")
        /\ UNCHANGED <<torn, shortened>>

(* patch_contacts_and_addresses                                            *)
PatchContacts(h) ==
    /\ At(h, "contacts")
    /\ cAddresses' = [cAddresses EXCEPT ![about[h]] = AddressList(want[h].address)]
    /\ Goto(h, "workflow")
    /\ UNCHANGED <<cStatus, cBudget, cEnd, cPo, cWriter, cFaulty, cSummary, cLive,
                   groupVars, cacheVars, requestVars, historyVars>>

(* _update_workflow_status                                                 *)
SetWorkflow(h) ==
    /\ At(h, "workflow")
    /\ cSummary' = cSummary \cup {about[h]}
    /\ Goto(h, "answer")
    /\ UNCHANGED <<cStatus, cBudget, cEnd, cPo, cAddresses, cWriter, cFaulty, cLive,
                   groupVars, cacheVars, requestVars, historyVars>>

(* The campaign is read once more for the answer: found by its short id in *)
(* Redis or by a search.                                                   *)
AnswerCampaign(h) ==
    /\ At(h, "answer")
    /\ Answer(h, TRUE)
    /\ UNCHANGED <<campaignVars, groupVars, cacheVars, requestVars, historyVars>>
-----------------------------------------------------------------------------
(* update_campaign reads the campaign (searching for it if need be), then  *)
(* looks up the long id in Redis only: a miss goes on as "None", which the *)
(* next call does not find.  A PUT that pauses or unpauses branches off.   *)
ReadCampaign(h) ==
    LET c == about[h]
    IN  /\ At(h, "read")
        /\ IF c \notin cKnown THEN Answer(h, FALSE)
           ELSE /\ seen' = [seen EXCEPT ![h] = View(c)]
                /\ Continue(h, IF AsksPause(want[h], View(c)) \/ AsksUnpause(want[h], View(c))
                               THEN "pause" ELSE "groups")
                /\ UNCHANGED <<updated, todo>>
        /\ UNCHANGED <<campaignVars, groupVars, cacheVars, requestVars, historyVars>>

(* The ad groups, for the end date; the campaign's billing address and the *)
(* contact, from their cached details.                                     *)
ReadGroups(h) ==
    LET ends == {<<agEnd[g], agStatus[g] = "ENDED">> : g \in GroupsOf(about[h])}
    IN  /\ At(h, "groups")
        /\ IF /\ EndDateFits(want[h], seen[h], ends)
              /\ seen[h].address # "none"
              /\ UpdateBillingOf(want[h], seen[h]) # "refused"
           THEN Goto(h, "patch") ELSE Answer(h, FALSE)
        /\ UNCHANGED <<campaignVars, groupVars, cacheVars, requestVars, historyVars>>

(* Mutant of Patch: an end date that is not sent is not removed.           *)
PatchKeepingEnd(h) ==
    LET r == want[h]
        s == seen[h]
        payer == UpdateBillingOf(r, s)
    IN  /\ At(h, "patch")
        /\ PatchUpstream(h, Asked(h), PatchedBudget(r, s), IF r.end = NoDate THEN s.end ELSE r.end,
                         payer, UpdatedPo(r, s, cPo[about[h]][payer]))
        /\ shortened' = shortened
        /\ Goto(h, "reread")
        /\ UNCHANGED torn

(* The patch of an update: build_patch_payload for a draft or another      *)
(* campaign, build_update_payload.  An end date that is not sent is        *)
(* removed; the addresses are not in the payload.                          *)
Patch(h) ==
    LET r == want[h]
        s == seen[h]
        payer == UpdateBillingOf(r, s)
    IN  /\ At(h, "patch")
        /\ PatchUpstream(h, Asked(h), PatchedBudget(r, s), r.end, payer,
                         UpdatedPo(r, s, cPo[about[h]][payer]))
        /\ shortened' = IF s.end # NoDate /\ r.end # NoDate /\ r.end # s.end
                        THEN shortened \cup {about[h]} ELSE shortened
        /\ Goto(h, "reread")
        /\ UNCHANGED torn

(* Mutant of Reread: it compares with the budget type asked for.           *)
RereadAsked(h) ==
    LET c == about[h]
    IN  /\ At(h, "reread")
        /\ agKnown' = agKnown \cup GroupsOf(c)
        /\ updated' = [updated EXCEPT ![h] = View(c).budget]
        /\ IF View(c).budget # want[h].budget /\ want[h].budget # "same" /\ GroupsOf(c) # {}
           THEN /\ todo' = [todo EXCEPT ![h] = GroupsOf(c)]
                /\ Continue(h, "spread")
           ELSE /\ Continue(h, "activations")
                /\ UNCHANGED todo
        /\ UNCHANGED <<campaignVars, groupVars, cKnown, requestVars, seen, historyVars>>

(* _update_campaign reads the campaign again with its ad groups, whose ids *)
(* it saves, and compares the budget type with the one read first.         *)
Reread(h) ==
    LET c == about[h]
    IN  /\ At(h, "reread")
        /\ agKnown' = agKnown \cup GroupsOf(c)
        /\ updated' = [updated EXCEPT ![h] = View(c).budget]
        /\ IF View(c).budget # seen[h].budget /\ GroupsOf(c) # {}
           THEN /\ todo' = [todo EXCEPT ![h] = GroupsOf(c)]
                /\ Continue(h, "spread")
           ELSE /\ Continue(h, "activations")
                /\ UNCHANGED todo
        /\ UNCHANGED <<campaignVars, groupVars, cKnown, requestVars, seen, historyVars>>

(* One ad group after the other gets the new type, as the API writes it.   *)
Spread(h) ==
    /\ At(h, "spread")
    /\ \E g \in todo[h] :
          /\ agBudget' = [agBudget EXCEPT ![g] = updated[h]]
          /\ todo' = [todo EXCEPT ![h] = @ \ {g}]
          /\ Continue(h, IF todo[h] = {g} THEN "activations" ELSE "spread")
    /\ UNCHANGED <<campaignVars, agHome, agEnd, agStatus, cacheVars, requestVars, seen,
                   updated, historyVars>>

(* Mutant of CheckActivations: drafts are published too.                   *)
CheckActivationsOnly(h) ==
    /\ At(h, "activations")
    /\ Goto(h, IF GroupsOf(about[h]) # {} THEN "validations" ELSE "answer")
    /\ UNCHANGED <<campaignVars, groupVars, cacheVars, requestVars, historyVars>>

(* _handle_activation: a campaign that is no draft and has ad groups goes  *)
(* on to its publication.                                                  *)
CheckActivations(h) ==
    /\ At(h, "activations")
    /\ Goto(h, IF Asked(h) # "DRAFT" /\ GroupsOf(about[h]) # {} THEN "validations" ELSE "answer")
    /\ UNCHANGED <<campaignVars, groupVars, cacheVars, requestVars, historyVars>>

(* publish_campaign reads the campaign; with validations it does nothing,  *)
(* and the request goes on to its answer all the same.                     *)
CheckValidations(h) ==
    /\ At(h, "validations")
    /\ Goto(h, IF about[h] \in cFaulty THEN "answer" ELSE "publish")
    /\ UNCHANGED <<campaignVars, groupVars, cacheVars, requestVars, historyVars>>

(* The publication is accepted, or answered without a status: FAILED,      *)
(* which nobody looks at.                                                  *)
Publish(h) ==
    LET c == about[h]
    IN  /\ At(h, "publish")
        /\ \/ /\ cLive' = cLive \cup {c}
              /\ mistakes' = mistakes
                    \cup (IF cStatus[c] = "DRAFT" THEN {"draft"} ELSE {})
                    \cup (IF GroupsOf(c) = {} THEN {"no ad groups"} ELSE {})
                    \cup (IF c \in cFaulty THEN {"validations"} ELSE {})
              /\ Goto(h, "settle")
           \/ Goto(h, "answer") /\ UNCHANGED <<cLive, mistakes>>
        /\ UNCHANGED <<cStatus, cBudget, cEnd, cPo, cAddresses, cWriter, cFaulty, cSummary,
                       groupVars, cacheVars, requestVars, torn, shortened>>

(* wait_for_campaign_publication_status_to_settle; giving up is a Fail.    *)
Settle(h) ==
    /\ At(h, "settle")
    /\ Goto(h, "answer")
    /\ UNCHANGED <<campaignVars, groupVars, cacheVars, requestVars, historyVars>>

(* _pause_or_unpause_campaign, and the wait for it to settle.              *)
Pause(h) ==
    LET c == about[h]
    IN  /\ At(h, "pause")
        /\ cStatus[c] = seen[h].status
        /\ cStatus' = [cStatus EXCEPT ![c] = IF AsksPause(want[h], seen[h]) THEN "PAUSED" ELSE "ACTIVE"]
        /\ Goto(h, "paused")
        /\ UNCHANGED <<cBudget, cEnd, cPo, cAddresses, cWriter, cFaulty, cSummary, cLive,
                       groupVars, cacheVars, requestVars, historyVars>>

(* _handle_pause_request: with anything else asked it returns None, no     *)
(* campaign, which the route answers as an error though the campaign was   *)
(* paused; nothing else that was asked is done.                            *)
AnswerPause(h) ==
    /\ At(h, "paused")
    /\ Answer(h, NoDelta(want[h], View(about[h])))
    /\ UNCHANGED <<campaignVars, groupVars, cacheVars, requestVars, historyVars>>
-----------------------------------------------------------------------------
(* The look-up of campaigns is only written by others.                     *)
LookupFilled ==
    /\ \E c \in CampaignIds \ cKnown : cStatus[c] # "none" /\ cKnown' = cKnown \cup {c}
    /\ UNCHANGED <<secVars, campaignVars, groupVars, agKnown, requestVars, localVars, step, disturbed,
                   overran, historyVars>>

(* Upstream, a campaign ends at its date.                                  *)
CampaignEnds ==
    /\ \E c \in CampaignIds :
          /\ cStatus[c] \in {"ACTIVE", "PAUSED"} /\ cEnd[c] # NoDate
          /\ cStatus' = [cStatus EXCEPT ![c] = "ENDED"]
    /\ UNCHANGED <<secVars, cBudget, cEnd, cPo, cAddresses, cWriter, cFaulty, cSummary, cLive,
                   groupVars, cacheVars, requestVars, localVars, step, disturbed, overran, historyVars>>

CampaignStep(h) ==
    \/ \E r \in Requests : r.op # "post" /\ Begin(h, r)
    \/ Fail(h)
    \/ TakeLock(h)
    \/ LeaseRunsOut(h)
    \/ StartCampaign(h)
    \/ PatchNew(h)
    \/ PatchContacts(h)
    \/ SetWorkflow(h)
    \/ AnswerCampaign(h)
    \/ ReadCampaign(h)
    \/ ReadGroups(h)
    \/ Patch(h)
    \/ Reread(h)
    \/ Spread(h)
    \/ CheckActivations(h)
    \/ CheckValidations(h)
    \/ Publish(h)
    \/ Settle(h)
    \/ Pause(h)
    \/ AnswerPause(h)
=============================================================================
