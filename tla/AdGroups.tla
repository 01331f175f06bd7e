------------------------------ MODULE AdGroups ------------------------------
(***************************************************************************)
(* The requests that update one ad group, inside the lock of EntityLock:   *)
(*   "put"       PUT /ad_groups/{id}            update_ad_group            *)
(*   "patch"     PATCH /ad_groups/{id}/entities update_entities            *)
(*   "post"      POST /ad_groups/{id}/entities  update_entities            *)
(*   "keywords"  PATCH /ad_groups/{id}/keywords                            *)
(*                          update_ad_group_keyword_bid_modifiers          *)
(*   "campaign"  PUT /campaigns/{id} that changes the budget type: it      *)
(*               writes it into the ad groups under the campaign's lock,   *)
(*               not under theirs (_update_campaign)                       *)
(*                                                                         *)
(* The ad group is an activation of the upstream activation service.  A    *)
(* request reads it, computes the new value here, makes sure that it is    *)
(* not locked upstream, patches it, and may approve, pause, unpause and    *)
(* publish it: each of these is a call of its own, none of them carries a  *)
(* version, and a failure leaves what was done so far.                     *)
(*                                                                         *)
(* Bids and keyword modifiers live in groups that are never changed: a     *)
(* patch refers to a new group.  A group is modelled by its members.       *)
(***************************************************************************)
EXTENDS EntityLock

CONSTANTS
    Items,      \* entities or keywords
    Unfit,      \* entities without product details in the cache, keywords
                \* that are not eligible: they are left out of every new group
    Requests    \* what a client may ask: see RequestsAssumption

PutFields == {"name", "amount"}
Fields == PutFields \cup {"budgetType"}
Parts == {"entities", "keywords"}
Statuses == {"DRAFT", "SCHEDULED", "ACTIVE", "PAUSED", "UNDER REVIEW", "ENDED"}
Ops == {"put", "patch", "post", "keywords", "campaign"}

ASSUME UnfitAssumption == Unfit \subseteq Items

(* A put may set one field, a status ("same": not sent) and keywords; the  *)
(* campaign sets the budget type; the others add and remove items.         *)
ASSUME RequestsAssumption ==
    \A r \in Requests :
        /\ r.op \in Ops
        /\ r.field \in Fields \cup {"no field"}
        /\ r.op = "campaign" => r.field = "budgetType"
        /\ r.ask \in Statuses \cup {"same"}
        /\ r.add \subseteq Items /\ r.del \subseteq Items /\ r.add \cap r.del = {}

VARIABLES
    \* the activation, upstream
    setting,    \* setting[f]: the request whose value field f has
    content,    \* content[p]: the members of the group it refers to
    status,
    approved,   \* metadata.approved
    faulty,     \* the service reports warnings or errors for it
    locked,     \* metadata.is_locked: a publication is under way
    \* each request
    want,       \* what its client asked
    step,       \* the next call of its handler
    seen,       \* the ad group as it read it
    reply,      \* of the upstream response it decides on: status, approved, faulty
    \* history
    disturbed,  \* the requests that had company inside
    published   \* what was ever wrong with what was published

activation == <<setting, content, status, approved, faulty, locked>>
bodyVars == <<want, step, seen, reply>>
adGroupVars == <<lockVars, activation, bodyVars, disturbed, published>>

NoRequest == [op |-> "none", field |-> "no field", ask |-> "same", add |-> {}, del |-> {}]
NoReply == [status |-> "DRAFT", approved |-> FALSE, faulty |-> FALSE]

Unread ==
    [setting |-> [f \in Fields |-> NoOne], content |-> [p \in Parts |-> {}], status |-> "DRAFT"]

Steps == {"read", "check", "patch", "act", "publishable", "check publish", "publish", "settle"}

(* ALLOWED_AD_GROUP_TRANSITIONS_MAP; an ENDED ad group is refused before.  *)
AllowedFrom(s) ==
    CASE s = "DRAFT"     -> {"DRAFT", "SCHEDULED", "ACTIVE"}
      [] s = "SCHEDULED" -> {"SCHEDULED", "ACTIVE", "PAUSED"}
      [] s = "PAUSED"    -> {"PAUSED", "ACTIVE"}
      [] s = "ACTIVE"    -> {"ACTIVE", "PAUSED"}
      [] OTHER           -> {"UNDER REVIEW"} \cap {s}

(* The requests that run their handlers now, or are about to release.      *)
Inside == {h \in Handlers : stage[h] \in {"inside", "leaving"}}

(* The status that a put ends with: the one asked for or the one read.     *)
Asked(h) == IF want[h].ask = "same" THEN seen[h].status ELSE want[h].ask

(* merge_entities, merge_keywords: what is named replaces what was there,  *)
(* what is named as deleted goes.                                          *)
MergeItems(old, r) == (old \ r.del) \cup r.add

(* The members of the group that is created of it.                         *)
NewGroup(old, r) == MergeItems(old, r) \ Unfit

(* create_bids_from_entities refuses entities of which none is fit.        *)
OffersBids(old, r) == MergeItems(old, r) = {} \/ NewGroup(old, r) # {}
-----------------------------------------------------------------------------
AdGroupInit ==
    /\ LockInit
    /\ setting = [f \in Fields |-> NoOne]
    /\ content \in [Parts -> SUBSET Items]
    /\ status \in {"DRAFT", "ACTIVE", "PAUSED", "UNDER REVIEW"}
    /\ approved = (status \in {"ACTIVE", "PAUSED"})
    /\ faulty = FALSE
    /\ locked = FALSE
    /\ want = [h \in Handlers |-> NoRequest]
    /\ step = [h \in Handlers |-> "read"]
    /\ seen = [h \in Handlers |-> Unread]
    /\ reply = [h \in Handlers |-> NoReply]
    /\ disturbed = {}
    /\ published = {}

(* Every step that lets a request in notes who has company.                *)
NoteCompany ==
    disturbed' = disturbed \cup {h \in Inside' : Inside' # {h}}

(* What a handler knows ends with it.                                      *)
Forget(h) ==
    /\ step' = [step EXCEPT ![h] = "read"]
    /\ seen' = [seen EXCEPT ![h] = Unread]
    /\ reply' = [reply EXCEPT ![h] = NoReply]

(* The steps of the lock that are not the end of a handler.                *)
LockStep ==
    /\ \/ /\ \/ \E h \in Handlers :
                   \/ \E on \in BOOLEAN : FetchFlag(h, on)
                   \/ Acquire(h)
                   \/ AcquireFails(h)
                   \/ Release(h)
                   \/ ReleaseFails(h)
             \/ Expire
          /\ UNCHANGED bodyVars
       \/ \E h \in Handlers : Crash(h) /\ Forget(h) /\ UNCHANGED want
    /\ NoteCompany
    /\ UNCHANGED <<activation, published>>

At(h, s) == stage[h] = "inside" /\ step[h] = s

(* The handler ends here with r.                                           *)
End(h, r) ==
    /\ Finish(h, r)
    /\ Forget(h)
    /\ UNCHANGED <<disturbed, published>>

(* The handler goes on with call s, on what it has read.                   *)
Continue(h, s) ==
    /\ step' = [step EXCEPT ![h] = s]
    /\ UNCHANGED <<lockVars, disturbed>>

(* Mutant of Accepted: a post does not look for entities.                  *)
AcceptedAnyPost(r, s) ==
    CASE r.op = "put" -> (IF r.ask = "same" THEN s.status ELSE r.ask) \in AllowedFrom(s.status)
      [] r.op \in {"patch", "post"} -> s.status # "ENDED" /\ OffersBids(s.content["entities"], r)
      [] r.op = "campaign" -> TRUE
      [] OTHER             -> s.status # "ENDED"

(* May a request that read the ad group as `s` go on?  A put is validated, *)
(* entities are only posted to an ad group without any, there must be bids *)
(* to make, and no ended ad group is updated.  The campaign does not look. *)
Accepted(r, s) ==
    CASE r.op = "put" -> (IF r.ask = "same" THEN s.status ELSE r.ask) \in AllowedFrom(s.status)
      [] r.op \in {"patch", "post"} ->
            /\ r.op = "post" => s.content["entities"] = {}
            /\ s.status # "ENDED"
            /\ OffersBids(s.content["entities"], r)
      [] r.op = "campaign" -> TRUE
      [] OTHER             -> s.status # "ENDED"

(* has_changes of a put.                                                   *)
Changes(r, s) ==
    \/ r.field # "no field"
    \/ r.ask \notin {"same", s.status}
    \/ r.add \cup r.del # {}

(* GET of the activation, and what the handler computes from it alone.     *)
Read(h, r) ==
    /\ At(h, "read")
    /\ r.op = "campaign" => h \notin guarded
    /\ want' = [want EXCEPT ![h] = r]
    /\ LET s == [setting |-> setting, content |-> content, status |-> status]
       IN  CASE r.op = "put" /\ ~Changes(r, s) -> End(h, "ok")
             [] ~Accepted(r, s)                -> End(h, "error")
             [] OTHER -> /\ Continue(h, "check")
                         /\ seen' = [seen EXCEPT ![h] = s]
                         /\ UNCHANGED <<reply, published>>
    /\ UNCHANGED activation

(* Any other call fails, or what the client sent is not valid.             *)
Fail(h) ==
    /\ stage[h] = "inside"
    /\ step[h] # "read"
    /\ End(h, "error")
    /\ UNCHANGED <<activation, want>>

(* Mutant of CheckUnlocked: the patch does not look at is_locked.          *)
CheckPublishOnly(h) ==
    /\ At(h, "check") \/ At(h, "check publish")
    /\ step[h] = "check publish" => ~locked
    /\ Continue(h, IF step[h] = "check" THEN "patch" ELSE "publish")
    /\ UNCHANGED <<activation, want, seen, reply, published>>

(* __get_activation_and_check_unlocked before a patch or a publish.  With  *)
(* the activation locked it is fetched again, until the retries are spent. *)
CheckUnlocked(h) ==
    /\ At(h, "check") \/ At(h, "check publish")
    /\ ~locked
    /\ Continue(h, IF step[h] = "check" THEN "patch" ELSE "publish")
    /\ UNCHANGED <<activation, want, seen, reply, published>>

(* The channel_data of a patch.  A put sends the whole ad group as it was  *)
(* read, with what it changes; the others send their part only.            *)
PatchedSetting(h) ==
    CASE want[h].op = "put" ->
            [f \in Fields |-> IF f = want[h].field THEN h ELSE seen[h].setting[f]]
      [] want[h].op = "campaign" -> [setting EXCEPT !["budgetType"] = h]
      [] OTHER -> setting

(* The groups after a patch.  An empty group of entities is sent as [],    *)
(* an empty group of keywords as None, which is dropped from the payload.  *)
PatchedContent(h) ==
    LET r == want[h]
        entities == NewGroup(seen[h].content["entities"], r)
        keywords == NewGroup(seen[h].content["keywords"], r)
    IN  CASE r.op \in {"patch", "post"} -> [content EXCEPT !["entities"] = entities]
          [] r.op \in {"put", "keywords"} /\ r.add \cup r.del # {} /\ keywords # {} ->
                [content EXCEPT !["keywords"] = keywords]
          [] OTHER -> content

(* The patch of the activation goes through; the service validates it and  *)
(* says so in its reply.                                                   *)
ApplyPatch(h, newSetting, newContent) ==
    /\ At(h, "patch")
    /\ setting' = newSetting
    /\ content' = newContent
    /\ faulty' \in BOOLEAN
    /\ UNCHANGED <<status, approved, locked, want>>
    /\ IF want[h].op = "campaign" THEN End(h, "ok")
       ELSE /\ Continue(h, IF want[h].op = "put" THEN "act" ELSE "publishable")
            /\ reply' = [reply EXCEPT ![h] = [status |-> status, approved |-> approved,
                                             faulty |-> faulty']]
            /\ UNCHANGED <<seen, published>>

(* Mutant of Patch: the new entities replace the ones of the ad group.     *)
PatchReplacing(h) ==
    ApplyPatch(h, PatchedSetting(h),
               IF want[h].op = "patch" THEN [content EXCEPT !["entities"] = want[h].add]
                                       ELSE PatchedContent(h))

(* update_activation: PATCH of the activation.                             *)
Patch(h) == ApplyPatch(h, PatchedSetting(h), PatchedContent(h))

(* MAP_PATCH_ACTIONS, and the special case of an activation of a paused ad *)
(* group.  There is no action for an ad group under review.                *)
PatchAction(asked, current) ==
    IF asked = "ACTIVE" /\ current = "PAUSED" THEN "unpause"
    ELSE CASE asked \in {"DRAFT", "SCHEDULED", "ACTIVE"} -> "approve"
           [] asked = "PAUSED"                           -> "pause"
           [] OTHER                                      -> "none"

(* What the activation service makes of an action.  Its reply carries the  *)
(* activation only, never warnings or errors.                              *)
ActUpstream(h, action) ==
    /\ \/ /\ action = "approve"
          /\ status' \in IF status = "DRAFT" THEN {"ACTIVE", "UNDER REVIEW"} ELSE {status}
          /\ approved' = (status' # "UNDER REVIEW")
       \/ /\ action = "pause" /\ status \in {"SCHEDULED", "ACTIVE", "PAUSED"}
          /\ status' = "PAUSED"
          /\ UNCHANGED approved
       \/ /\ action = "unpause" /\ status = "PAUSED"
          /\ status' = "ACTIVE"
          /\ UNCHANGED approved
    /\ reply' = [reply EXCEPT ![h] = [status |-> status', approved |-> approved',
                                     faulty |-> FALSE]]
    /\ UNCHANGED <<setting, content, faulty, locked>>

(* __apply_triggered_action                                                *)
ApplyAction(h, action) ==
    /\ At(h, "act")
    /\ IF action = "none" THEN End(h, "error") /\ UNCHANGED activation
       ELSE /\ Continue(h, "publishable")
            /\ IF action = "approve" /\ reply[h].faulty
               THEN UNCHANGED <<activation, reply>>
               ELSE ActUpstream(h, action)
            /\ UNCHANGED <<seen, published>>
    /\ UNCHANGED want

(* Mutant of Act: without the special case.                                *)
ActByMap(h) == ApplyAction(h, PatchAction(Asked(h), "DRAFT"))

(* __approve_and_publish_ad_group of a put, up to the publication.         *)
Act(h) == ApplyAction(h, PatchAction(Asked(h), reply[h].status))

(* The handler publishes if it may, or ends well without.                  *)
PublishIf(h, publishable) ==
    /\ At(h, "publishable")
    /\ \/ publishable /\ Continue(h, "check publish") /\ UNCHANGED <<seen, reply, published>>
       \/ End(h, "ok")
    /\ UNCHANGED <<activation, want>>

(* Mutant of DecidePublication: it publishes what is not approved.         *)
DecideByFaults(h) == PublishIf(h, ~reply[h].faulty)

(* Mutant of DecidePublication: warnings and errors are not looked at.      *)
DecideByApproval(h) == PublishIf(h, reply[h].approved)

(* activation_is_publishable: no warnings or errors in the reply, approved *)
(* and, for a video, its creatives ready.                                  *)
DecidePublication(h) == PublishIf(h, ~reply[h].faulty /\ reply[h].approved)

(* publish_activation, accepted: a publication begins.                     *)
Publish(h) ==
    /\ At(h, "publish")
    /\ locked' = TRUE
    /\ published' = published \cup (IF faulty THEN {"faulty"} ELSE {})
                               \cup (IF approved THEN {} ELSE {"not approved"})
    /\ Continue(h, "settle")
    /\ UNCHANGED <<setting, content, status, approved, faulty, want, seen, reply>>

(* wait_for_adgroup_publication_status_to_settle: it ends well when the    *)
(* publication has ended, when the service reports errors, or at once with *)
(* its flag off.                                                           *)
Settled(h) ==
    /\ At(h, "settle")
    /\ End(h, "ok")
    /\ UNCHANGED <<activation, want>>

(* Upstream, a publication ends.                                           *)
PublicationEnds ==
    /\ locked
    /\ locked' = FALSE
    /\ UNCHANGED <<lockVars, setting, content, status, approved, faulty,
                   bodyVars, disturbed, published>>

(* Upstream, the ad group ends at its date, or passes its review.          *)
Advance ==
    /\ \/ status \in {"ACTIVE", "PAUSED"} /\ status' = "ENDED" /\ UNCHANGED approved
       \/ status = "UNDER REVIEW" /\ status' = "ACTIVE" /\ approved' = TRUE
    /\ UNCHANGED <<lockVars, setting, content, faulty, locked, bodyVars,
                   disturbed, published>>

AdGroupNext ==
    \/ LockStep
    \/ \E h \in Handlers :
          \/ \E r \in Requests : Read(h, r)
          \/ Fail(h)
          \/ CheckUnlocked(h)
          \/ Patch(h)
          \/ Act(h)
          \/ DecidePublication(h)
          \/ Publish(h)
          \/ Settled(h)
    \/ PublicationEnds
    \/ Advance

AdGroupSpec == AdGroupInit /\ [][AdGroupNext]_adGroupVars
-----------------------------------------------------------------------------
(* The types of the activation, the requests and the history; no request   *)
(* is on its way to a publication on a reply with warnings or errors.      *)
AdGroupTypeOK ==
    /\ LockTypeOK
    /\ setting \in [Fields -> Handlers \cup {NoOne}]
    /\ content \in [Parts -> SUBSET Items]
    /\ status \in Statuses
    /\ {approved, faulty, locked} \subseteq BOOLEAN
    /\ want \in [Handlers -> Requests \cup {NoRequest}]
    /\ step \in [Handlers -> Steps]
    /\ \A h \in Handlers :
          /\ reply[h].status \in Statuses
          /\ At(h, "publish") \/ At(h, "settle") => ~reply[h].faulty
    /\ disturbed \subseteq Handlers

(* With the lock on for every request of the ad group and no lease run     *)
(* out, no request has company: neither worker deaths nor failed releases  *)
(* let a second one in.                                                    *)
LockKeepsCompanyOut ==
    (expired = {} /\ \A h \in Handlers : stage[h] # "idle" => h \in guarded)
        => disturbed = {}

(* No lost update: what a request without company patches in changes the   *)
(* field it asked for and no other, though a put writes back every field   *)
(* it read; its entities are merged into those of the ad group, and of its *)
(* keywords none goes that it did not delete or that is unfit, though both *)
(* are computed from what it read calls ago.                               *)
NoLostUpdate ==
    [][\A h \in Handlers \ disturbed' : At(h, "patch") /\ ~At(h, "patch")' =>
          /\ \A f \in Fields \ {want[h].field} : setting'[f] = setting[f]
          /\ content'["entities"] =
                IF want[h].op \in {"patch", "post"} /\ At(h, "publishable")'
                THEN NewGroup(content["entities"], want[h])
                ELSE content["entities"]
          /\ content["keywords"] \ (want[h].del \cup Unfit) \subseteq content'["keywords"]
          /\ content'["keywords"] \subseteq content["keywords"] \cup want[h].add]_adGroupVars

(* A put that asked for PAUSED or for ACTIVE and is about to be answered   *)
(* as a success left the ad group so (or it ended meanwhile): the action   *)
(* chosen from the status of the patch reply was the right one.            *)
StatusIsHonoured ==
    \A h \in Handlers \ disturbed :
        (stage[h] = "leaving" /\ result[h] = "ok" /\ want[h].op = "put") =>
            /\ want[h].ask = "PAUSED" => status \in {"PAUSED", "ENDED"}
            /\ want[h].ask = "ACTIVE" => status # "PAUSED"

(* What is published is approved at the moment of the publication, though  *)
(* the decision was taken on an older reply, when nobody had company.      *)
PublishedWasApproved ==
    disturbed = {} => "not approved" \notin published

(* No patch of the API changes an ad group while a publication is under    *)
(* way, although is_locked is read in a call before the patch.             *)
NoPatchIntoPublication ==
    [][disturbed' = {} /\ locked => UNCHANGED <<setting, content>>]_adGroupVars

(* Entities are only posted to an ad group that has none at that moment.   *)
PostFillsEmpty ==
    [][\A h \in Handlers \ disturbed' :
          want[h].op = "post" /\ At(h, "patch") /\ At(h, "publishable")'
              => content["entities"] = {}]_adGroupVars

(* The field `deleted` of a keyword says "Whether this keyword is          *)
(* deleted.", and the answer is "the full ad group including the modified  *)
(* keywords": when a request on keywords without company is about to be    *)
(* answered as a success, the keywords it deleted are gone.                *)
DeletedKeywordIsGone ==
    \A h \in Handlers \ disturbed :
        (stage[h] = "leaving" /\ result[h] = "ok" /\ want[h].op = "keywords") =>
            content["keywords"] \cap want[h].del = {}

(* activation_is_publishable logs, "Activation %s has validation warnings. *)
(* Publication cannot be attempted.": nothing is published that the        *)
(* activation service has warnings or errors for.                          *)
NoFaultyPublication ==
    disturbed = {} => "faulty" \notin published
=============================================================================
