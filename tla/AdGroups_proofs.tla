--------------------------- MODULE AdGroups_proofs ---------------------------
(***************************************************************************)
(* AdGroups runs behind the lock of EntityLock: every step of a request on *)
(* an ad group is a step of the lock or leaves it alone, so what is proved *)
(* of the lock holds of the ad group, and the lock keeps company out.      *)
(* What a request without company has read is then still so when it        *)
(* patches, acts and publishes: it loses no update, honours the status it  *)
(* was asked for, and publishes only what is approved.                     *)
(* For any requests, items and ad groups.                                  *)
(***************************************************************************)
EXTENDS AdGroups, EntityLock_proofs

(* A step of a handler ends in Finish, or does not touch the lock.         *)
LEMMA HandlerStepsLock ==
    ASSUME NEW h \in Handlers,
           \/ \E r \in Requests : Read(h, r)
           \/ Fail(h) \/ CheckUnlocked(h) \/ Patch(h) \/ Act(h)
           \/ DecidePublication(h) \/ Publish(h) \/ Settled(h)
    PROVE  /\ disturbed' = disturbed
           /\ (\E r \in {"ok", "error"} : Finish(h, r)) \/ UNCHANGED lockVars
<1>1. CASE \E r \in Requests : Read(h, r)
  <2>1. PICK r \in Requests : Read(h, r)
    BY <1>1
  <2>2. \/ End(h, "ok") \/ End(h, "error")
        \/ Continue(h, "check")
    BY <2>1 DEF Read
  <2>3. QED  BY <2>2 DEF End, Continue
<1>2. CASE Fail(h)
  BY <1>2 DEF Fail, End
<1>3. CASE CheckUnlocked(h)
  <2>1. Continue(h, IF step[h] = "check" THEN "patch" ELSE "publish")
    BY <1>3 DEF CheckUnlocked
  <2>2. QED  BY <2>1 DEF Continue
<1>4. CASE Patch(h)
  <2>1. \/ End(h, "ok")
        \/ Continue(h, IF want[h].op = "put" THEN "act" ELSE "publishable")
    BY <1>4 DEF Patch, ApplyPatch
  <2>2. QED  BY <2>1 DEF End, Continue
<1>5. CASE Act(h)
  <2>1. End(h, "error") \/ Continue(h, "publishable")
    BY <1>5 DEF Act, ApplyAction
  <2>2. QED  BY <2>1 DEF End, Continue
<1>6. CASE DecidePublication(h)
  <2>1. End(h, "ok") \/ Continue(h, "check publish")
    BY <1>6 DEF DecidePublication, PublishIf
  <2>2. QED  BY <2>1 DEF End, Continue
<1>7. CASE Publish(h)
  BY <1>7 DEF Publish, Continue
<1>8. CASE Settled(h)
  BY <1>8 DEF Settled, End
<1>9. QED  BY <1>1, <1>2, <1>3, <1>4, <1>5, <1>6, <1>7, <1>8

(* Every step is one of the lock or leaves it alone; only the former may   *)
(* note company.                                                           *)
LEMMA StepsOfTheLock ==
    ASSUME [AdGroupNext]_adGroupVars
    PROVE  /\ [LockNext]_lockVars
           /\ disturbed' = disturbed \/ NoteCompany
<1>1. CASE UNCHANGED adGroupVars
  BY <1>1 DEF adGroupVars
<1>2. CASE LockStep
  BY <1>2 DEF LockStep, LockNext
<1>3. ASSUME NEW h \in Handlers,
             \/ \E r \in Requests : Read(h, r)
             \/ Fail(h) \/ CheckUnlocked(h) \/ Patch(h) \/ Act(h)
             \/ DecidePublication(h) \/ Publish(h) \/ Settled(h)
      PROVE  /\ [LockNext]_lockVars
             /\ disturbed' = disturbed \/ NoteCompany
  BY <1>3, HandlerStepsLock DEF LockNext
<1>4. CASE PublicationEnds \/ Advance
  BY <1>4 DEF PublicationEnds, Advance
<1>5. QED  BY <1>1, <1>2, <1>3, <1>4 DEF AdGroupNext

(* The ad group's requests use the lock as EntityLock says they may.       *)
THEOREM AdGroupsRunLocked == AdGroupSpec => LockSpec
<1>1. AdGroupInit => LockInit
  BY DEF AdGroupInit
<1>2. [AdGroupNext]_adGroupVars => [LockNext]_lockVars
  BY StepsOfTheLock
<1>3. QED  BY <1>1, <1>2, PTL DEF AdGroupSpec, LockSpec

(* At most one request with an unexpired lease is inside the ad group.     *)
THEOREM AdGroupsAreExclusive == AdGroupSpec => []Exclusive
BY AdGroupsRunLocked, LockIsExclusive, PTL

(* The requests on an ad group implement the section: those that found the *)
(* lock on enter one at a time, and only one whose lease never ran out is  *)
(* answered as a success.                                                  *)
THEOREM AdGroupsImplementSection == AdGroupSpec => ImplementsSection
BY AdGroupsRunLocked, LockImplementsSection, PTL

(* The lock is on for every request, and no lease has run out.             *)
AllLocked == expired = {} /\ \A h \in Handlers : stage[h] # "idle" => h \in guarded

(* Once a lease has run out, or a request went in without the lock, it     *)
(* stays so.                                                               *)
LEMMA AllLockedBefore ==
    ASSUME LockTypeOK, [LockNext]_lockVars, AllLocked'
    PROVE  AllLocked
<1>1. expired \subseteq expired'
  BY DEF LockNext, lockVars, FetchFlag, Acquire, AcquireFails, Finish, Release, ReleaseFails, Crash, Expire
<1>2. \A h \in Handlers : stage[h] # "idle" =>
          stage'[h] # "idle" /\ (h \in guarded' => h \in guarded)
  <2>1. SUFFICES ASSUME NEW g \in Handlers, stage[g] # "idle"
                 PROVE  stage'[g] # "idle" /\ (g \in guarded' => g \in guarded)
    OBVIOUS
  <2>2. CASE UNCHANGED lockVars \/ Expire
    BY <2>1, <2>2 DEF lockVars, Expire
  <2>3. ASSUME NEW h \in Handlers, NEW on \in BOOLEAN, FetchFlag(h, on)
        PROVE  stage'[g] # "idle" /\ (g \in guarded' => g \in guarded)
    BY <2>1, <2>3 DEF FetchFlag, LockTypeOK
  <2>4. ASSUME NEW h \in Handlers,
               \/ Acquire(h) \/ AcquireFails(h) \/ Release(h) \/ ReleaseFails(h) \/ Crash(h)
               \/ \E r \in {"ok", "error"} : Finish(h, r)
        PROVE  stage'[g] # "idle" /\ (g \in guarded' => g \in guarded)
    BY <2>1, <2>4 DEF LockTypeOK, Acquire, AcquireFails, Release, ReleaseFails, Crash, Finish
  <2>5. QED  BY <2>2, <2>3, <2>4 DEF LockNext
<1>3. QED  BY <1>1, <1>2 DEF AllLocked

(* With the lock on for every request and no lease run out, no request has *)
(* company inside, whatever times out, fails to release or dies.           *)
THEOREM LockKeepsOut == AdGroupSpec => []LockKeepsCompanyOut
<1>1. AdGroupInit => LockKeepsCompanyOut
  BY DEF AdGroupInit, LockKeepsCompanyOut
<1>2. /\ LockKeepsCompanyOut /\ [AdGroupNext]_adGroupVars
      /\ LockTypeOK /\ Exclusive'
      => LockKeepsCompanyOut'
  <2> SUFFICES ASSUME LockKeepsCompanyOut, [AdGroupNext]_adGroupVars,
                      LockTypeOK, Exclusive', AllLocked'
               PROVE  disturbed' = {}
    BY DEF LockKeepsCompanyOut, AllLocked
  <2>1. [LockNext]_lockVars /\ (disturbed' = disturbed \/ NoteCompany)
    BY StepsOfTheLock
  <2>2. disturbed = {}
    BY <2>1, AllLockedBefore DEF LockKeepsCompanyOut, AllLocked
  <2>3. \A h \in Inside' : Inside' = {h}
    <3>1. Inside' \subseteq Guarded' \ Overrun'
      BY DEF Inside, AllLocked, Guarded, Overrun
    <3>2. QED  BY <3>1 DEF Exclusive
  <2>4. QED  BY <2>1, <2>2, <2>3 DEF NoteCompany
<1>3. AdGroupSpec => []LockTypeOK
  BY AdGroupsRunLocked, LockTypeCorrect, PTL
<1>4. QED  BY <1>1, <1>2, <1>3, AdGroupsAreExclusive, PTL DEF AdGroupSpec
-----------------------------------------------------------------------------
(* The inductive invariant of what the requests do inside: the shape of    *)
(* the variables, ...                                                      *)
ReadStates ==
    [setting : [Fields -> Handlers \cup {NoOne}], content : [Parts -> SUBSET Items], status : Statuses]

ReplyStates == [status : Statuses, approved : BOOLEAN, faulty : BOOLEAN]

ActivationShape ==
    /\ setting \in [Fields -> Handlers \cup {NoOne}]
    /\ content \in [Parts -> SUBSET Items]
    /\ status \in Statuses
    /\ approved \in BOOLEAN /\ faulty \in BOOLEAN /\ locked \in BOOLEAN
    /\ want \in [Handlers -> Requests \cup {NoRequest}]

HandlerShape ==
    /\ step \in [Handlers -> Steps]
    /\ seen \in [Handlers -> ReadStates]
    /\ reply \in [Handlers -> ReplyStates]
    /\ disturbed \subseteq Handlers

(* ... a request that is alone inside has no company noted, ...            *)
CompanyInv == \A g, h \in Inside : g # h => g \in disturbed

(* ... one outside its handler knows nothing, and nobody publishes on a    *)
(* reply with warnings or errors, ...                                      *)
Publishing == {"check publish", "publish", "settle"}

KnowsOf(h) ==
    /\ stage[h] # "inside" => step[h] = "read" /\ reply[h] = NoReply
    /\ step[h] = "read" => reply[h] = NoReply
    /\ step[h] \in Publishing => ~ reply[h].faulty

(* ... and what one that has had no company has read is so still, up to    *)
(* what the service does of its own accord, from the read to the patch, to *)
(* the action, and to the publication.                                     *)
Honoured(h) ==
    want[h].op = "put" =>
        /\ want[h].ask = "PAUSED" => status \in {"PAUSED", "ENDED"}
        /\ want[h].ask = "ACTIVE" => status # "PAUSED"

OwnOf(h) ==
    /\ step[h] \in {"check", "patch"} =>
          /\ seen[h].setting = setting /\ seen[h].content = content
          /\ want[h].op = "post" => content["entities"] = {}
    /\ step[h] = "patch" => ~ locked
    /\ step[h] = "act" /\ status = "PAUSED" => reply[h].status = "PAUSED"
    /\ reply[h].approved => approved
    /\ step[h] \in {"check publish", "publish"} => reply[h].approved
    /\ step[h] \in {"publishable"} \cup Publishing => Honoured(h)

AloneOf(h) ==
    h \notin disturbed =>
        /\ stage[h] = "inside" => OwnOf(h)
        /\ stage[h] = "leaving" /\ result[h] = "ok" => Honoured(h)

AdGroupInv ==
    /\ ActivationShape /\ HandlerShape /\ CompanyInv
    /\ \A h \in Handlers : KnowsOf(h) /\ AloneOf(h)
    /\ PublishedWasApproved

(* Nobody else is alone when one is inside.                                *)
LEMMA OnlyOneAlone ==
    ASSUME CompanyInv, NEW h \in Handlers, stage[h] = "inside",
           NEW g \in Handlers \ {h}, stage[g] \in {"inside", "leaving"}
    PROVE  g \in disturbed
BY DEF CompanyInv, Inside

(* A handler makes a call, or ends.                                        *)
LEMMA ContinueKeeps ==
    ASSUME AdGroupInv, LockTypeOK, NEW h \in Handlers, stage[h] = "inside",
           NEW s \in Steps, Continue(h, s), ActivationShape',
           seen' \in [Handlers -> ReadStates], reply' \in [Handlers -> ReplyStates],
           \A g \in Handlers \ {h} : reply'[g] = reply[g],
           KnowsOf(h)', h \notin disturbed => OwnOf(h)', PublishedWasApproved'
    PROVE  AdGroupInv'
<1>1. /\ step' = [step EXCEPT ![h] = s] /\ disturbed' = disturbed
      /\ UNCHANGED <<stage, guarded, result>>
  BY DEF Continue, lockVars
<1>2. HandlerShape'
  BY <1>1 DEF AdGroupInv, HandlerShape
<1>3. CompanyInv'
  BY <1>1 DEF AdGroupInv, CompanyInv, Inside
<1>4. \A g \in Handlers \ {h} : KnowsOf(g)'
  BY <1>1 DEF AdGroupInv, HandlerShape, KnowsOf
<1>5. \A g \in Handlers \ {h} : AloneOf(g)'
  BY <1>1, OnlyOneAlone DEF AdGroupInv, AloneOf
<1>6. AloneOf(h)'
  BY <1>1 DEF AloneOf
<1>7. QED  BY <1>2, <1>3, <1>4, <1>5, <1>6 DEF AdGroupInv

LEMMA ForgetKeepsShape ==
    ASSUME HandlerShape, NEW h \in Handlers, Forget(h), disturbed' \subseteq Handlers
    PROVE  /\ HandlerShape'
           /\ step'[h] = "read" /\ reply'[h] = NoReply
           /\ \A g \in Handlers \ {h} : step'[g] = step[g] /\ reply'[g] = reply[g]
<1>1. Unread \in ReadStates /\ NoReply \in ReplyStates /\ "read" \in Steps
  BY DEF Unread, ReadStates, NoReply, ReplyStates, Steps, Statuses
<1>2. QED  BY <1>1 DEF HandlerShape, Forget

LEMMA EndKeeps ==
    ASSUME AdGroupInv, LockTypeOK, NEW h \in Handlers, NEW r \in {"ok", "error"}, End(h, r),
           ActivationShape', h \notin disturbed /\ r = "ok" => Honoured(h)'
    PROVE  AdGroupInv'
<1>1. /\ stage[h] = "inside" /\ Forget(h) /\ UNCHANGED <<disturbed, published>>
      /\ result' = [result EXCEPT ![h] = r]
      /\ stage' = [stage EXCEPT ![h] = "leaving"] \/ stage' = [stage EXCEPT ![h] = "over"]
  BY DEF End, Finish
<1>2. /\ stage'[h] \in {"leaving", "over"} /\ result'[h] = r
      /\ \A g \in Handlers \ {h} : stage'[g] = stage[g] /\ result'[g] = result[g]
  BY <1>1 DEF LockTypeOK
<1>3. /\ HandlerShape' /\ step'[h] = "read" /\ reply'[h] = NoReply
      /\ \A g \in Handlers \ {h} : step'[g] = step[g] /\ reply'[g] = reply[g]
  BY <1>1, ForgetKeepsShape DEF AdGroupInv, HandlerShape
<1>4. CompanyInv'
  BY <1>1, <1>2 DEF AdGroupInv, CompanyInv, Inside
<1>5. \A g \in Handlers \ {h} : KnowsOf(g)'
  BY <1>2, <1>3 DEF AdGroupInv, KnowsOf
<1>6. KnowsOf(h)'
  BY <1>2, <1>3 DEF KnowsOf, Publishing
<1>7. \A g \in Handlers \ {h} : AloneOf(g)'
  BY <1>1, <1>2, OnlyOneAlone DEF AdGroupInv, AloneOf
<1>8. AloneOf(h)'
  BY <1>1, <1>2 DEF AloneOf
<1>9. PublishedWasApproved'
  BY <1>1 DEF AdGroupInv, PublishedWasApproved
<1>10. QED  BY <1>3, <1>4, <1>5, <1>6, <1>7, <1>8, <1>9 DEF AdGroupInv

(* What is made of the members of a group is one.                          *)
LEMMA GroupsOfItems ==
    ASSUME NEW old \in SUBSET Items, NEW r \in Requests \cup {NoRequest}
    PROVE  NewGroup(old, r) \in SUBSET Items
<1>1. r.add \subseteq Items
  <2>1. CASE r \in Requests
    BY <2>1, RequestsAssumption DEF RequestsAssumption
  <2>2. CASE r = NoRequest
    BY <2>2 DEF NoRequest
  <2>3. QED  BY <2>1, <2>2
<1>2. QED  BY <1>1 DEF NewGroup, MergeItems

LEMMA ReadKeeps ==
    ASSUME AdGroupInv, LockTypeOK, NEW h \in Handlers, NEW r \in Requests, Read(h, r)
    PROVE  AdGroupInv'
<1> DEFINE s == [setting |-> setting, content |-> content, status |-> status]
<1>1. /\ stage[h] = "inside" /\ step[h] = "read" /\ want' = [want EXCEPT ![h] = r]
      /\ UNCHANGED activation
  BY DEF Read, At
<1>2. ActivationShape' /\ want'[h] = r
  BY <1>1 DEF AdGroupInv, ActivationShape, activation
<1>3. CASE r.op = "put" /\ ~ Changes(r, s) /\ End(h, "ok")
  <2>1. r.ask \in {"same", status}
    BY <1>3 DEF Changes
  <2>2. Honoured(h)'
    BY <1>1, <1>2, <2>1 DEF Honoured, activation
  <2>3. QED  BY <1>2, <1>3, <2>2, EndKeeps
<1>4. CASE End(h, "error")
  BY <1>2, <1>4, EndKeeps
<1>5. CASE /\ Accepted(r, s) /\ Continue(h, "check") /\ seen' = [seen EXCEPT ![h] = s]
           /\ UNCHANGED <<reply, published>>
  <2>1. s \in ReadStates
    BY DEF AdGroupInv, ActivationShape, ReadStates
  <2>2. s.setting = setting /\ s.content = content
    OBVIOUS
  <2> HIDE DEF s
  <2>3. /\ seen' \in [Handlers -> ReadStates] /\ seen'[h] = s
        /\ step'[h] = "check" /\ UNCHANGED <<disturbed, stage>>
    BY <1>5, <2>1 DEF AdGroupInv, HandlerShape, Continue, lockVars
  <2>4. reply[h] = NoReply /\ reply \in [Handlers -> ReplyStates]
    BY <1>1 DEF AdGroupInv, HandlerShape, KnowsOf
  <2>5. KnowsOf(h)'
    BY <1>1, <1>5, <2>3 DEF KnowsOf, Publishing
  <2>6. r.op = "post" => content["entities"] = {}
    BY <1>5, <2>2 DEF Accepted
  <2>7. OwnOf(h)'
    BY <1>1, <1>2, <1>5, <2>2, <2>3, <2>4, <2>6 DEF OwnOf, NoReply, Publishing, activation
  <2>8. PublishedWasApproved'
    BY <1>5, <2>3 DEF AdGroupInv, PublishedWasApproved
  <2>9. "check" \in Steps
    BY DEF Steps
  <2>10. QED  BY <1>1, <1>2, <1>5, <2>3, <2>4, <2>5, <2>7, <2>8, <2>9, ContinueKeeps
<1>6. QED  BY <1>3, <1>4, <1>5 DEF Read

LEMMA CheckKeeps ==
    ASSUME AdGroupInv, LockTypeOK, NEW h \in Handlers, CheckUnlocked(h)
    PROVE  AdGroupInv'
<1>1. PICK s : s = IF step[h] = "check" THEN "patch" ELSE "publish"
  OBVIOUS
<1>2. /\ stage[h] = "inside" /\ step[h] \in {"check", "check publish"} /\ ~ locked
      /\ Continue(h, s) /\ UNCHANGED <<want, seen, reply, published>> /\ UNCHANGED activation
  BY <1>1 DEF CheckUnlocked, At
<1>3. ActivationShape' /\ s \in Steps /\ step'[h] = s /\ UNCHANGED <<disturbed, stage>>
  BY <1>1, <1>2 DEF AdGroupInv, ActivationShape, HandlerShape, activation, Steps, Continue, lockVars
<1>4. KnowsOf(h)'
  BY <1>1, <1>2, <1>3 DEF AdGroupInv, KnowsOf, Publishing
<1>5. h \notin disturbed => OwnOf(h)'
  <2>1. h \notin disturbed => OwnOf(h)
    BY <1>2 DEF AdGroupInv, AloneOf
  <2>2. CASE step[h] = "check"
    BY <1>1, <1>2, <1>3, <2>1, <2>2 DEF OwnOf, Publishing, activation
  <2>3. CASE step[h] = "check publish"
    BY <1>1, <1>2, <1>3, <2>1, <2>3 DEF OwnOf, Publishing, Honoured, activation
  <2>4. QED  BY <1>2, <2>2, <2>3
<1>6. PublishedWasApproved'
  BY <1>2, <1>3 DEF AdGroupInv, PublishedWasApproved
<1>7. seen' \in [Handlers -> ReadStates] /\ reply' \in [Handlers -> ReplyStates]
  BY <1>2 DEF AdGroupInv, HandlerShape
<1>8. QED  BY <1>2, <1>3, <1>4, <1>5, <1>6, <1>7, ContinueKeeps

LEMMA PatchKeeps ==
    ASSUME AdGroupInv, LockTypeOK, NEW h \in Handlers, Patch(h)
    PROVE  AdGroupInv'
<1>1. /\ stage[h] = "inside" /\ step[h] = "patch"
      /\ setting' = PatchedSetting(h) /\ content' = PatchedContent(h) /\ faulty' \in BOOLEAN
      /\ UNCHANGED <<status, approved, locked, want>>
  BY DEF Patch, ApplyPatch, At
<1>2. PatchedSetting(h) \in [Fields -> Handlers \cup {NoOne}]
  <2>1. setting \in [Fields -> Handlers \cup {NoOne}]
        /\ seen[h].setting \in [Fields -> Handlers \cup {NoOne}]
    BY DEF AdGroupInv, ActivationShape, HandlerShape, ReadStates
  <2>2. QED  BY <2>1 DEF PatchedSetting
<1>3. PatchedContent(h) \in [Parts -> SUBSET Items]
  <2>1. /\ content \in [Parts -> SUBSET Items] /\ seen[h].content \in [Parts -> SUBSET Items]
        /\ want[h] \in Requests \cup {NoRequest}
    BY DEF AdGroupInv, ActivationShape, HandlerShape, ReadStates
  <2>2. /\ NewGroup(seen[h].content["entities"], want[h]) \in SUBSET Items
        /\ NewGroup(seen[h].content["keywords"], want[h]) \in SUBSET Items
    BY <2>1, GroupsOfItems DEF Parts
  <2>3. QED  BY <2>1, <2>2 DEF PatchedContent
<1>4. ActivationShape'
  BY <1>1, <1>2, <1>3 DEF AdGroupInv, ActivationShape
<1>5. CASE End(h, "ok") /\ want[h].op = "campaign"
  <2>1. Honoured(h)'
    BY <1>1, <1>5 DEF Honoured
  <2>2. QED  BY <1>4, <1>5, <2>1, EndKeeps
<1>6. CASE /\ Continue(h, IF want[h].op = "put" THEN "act" ELSE "publishable")
           /\ reply' = [reply EXCEPT ![h] = [status |-> status, approved |-> approved,
                                            faulty |-> faulty']]
           /\ UNCHANGED <<seen, published>>
  <2>1. PICK s : s = IF want[h].op = "put" THEN "act" ELSE "publishable"
    OBVIOUS
  <2>2. PICK told : told = [status |-> status, approved |-> approved, faulty |-> faulty']
    OBVIOUS
  <2>3. told \in ReplyStates /\ told.status = status /\ told.approved = approved
    BY <1>1, <2>2 DEF ReplyStates, AdGroupInv, ActivationShape
  <2>4. /\ s \in Steps /\ s \in {"act", "publishable"} /\ step'[h] = s /\ UNCHANGED <<disturbed, stage>>
        /\ reply' = [reply EXCEPT ![h] = told]
    BY <1>6, <2>1, <2>2 DEF Steps, AdGroupInv, HandlerShape, Continue, lockVars
  <2>5. /\ seen' \in [Handlers -> ReadStates] /\ reply' \in [Handlers -> ReplyStates]
        /\ reply'[h] = told
    BY <1>6, <2>3, <2>4 DEF AdGroupInv, HandlerShape
  <2>6. KnowsOf(h)'
    BY <1>1, <2>4 DEF KnowsOf, Publishing
  <2>7. OwnOf(h)'
    BY <1>1, <2>1, <2>3, <2>4, <2>5 DEF OwnOf, Publishing, Honoured
  <2>8. PublishedWasApproved'
    BY <1>6, <2>4 DEF AdGroupInv, PublishedWasApproved
  <2>9. \A g \in Handlers \ {h} : reply'[g] = reply[g]
    BY <2>4 DEF AdGroupInv, HandlerShape
  <2>10. QED  BY <1>1, <1>4, <1>6, <2>1, <2>4, <2>5, <2>6, <2>7, <2>8, <2>9, ContinueKeeps
<1>7. QED  BY <1>5, <1>6 DEF Patch, ApplyPatch

(* The action for the two statuses a client may wait for.                  *)
LEMMA ActionsChosen ==
    ASSUME NEW current
    PROVE  /\ PatchAction("PAUSED", current) = "pause"
           /\ PatchAction("ACTIVE", current) = IF current = "PAUSED" THEN "unpause" ELSE "approve"
<1>1. PatchAction("PAUSED", current) = "pause"
  BY DEF PatchAction
<1>2. CASE current = "PAUSED"
  BY <1>1, <1>2 DEF PatchAction
<1>3. CASE current # "PAUSED"
  BY <1>1, <1>3 DEF PatchAction
<1>4. QED  BY <1>2, <1>3

LEMMA ActKeeps ==
    ASSUME AdGroupInv, LockTypeOK, NEW h \in Handlers, Act(h)
    PROVE  AdGroupInv'
<1>1. PICK action : action = PatchAction(Asked(h), reply[h].status)
  OBVIOUS
<1>2. /\ stage[h] = "inside" /\ step[h] = "act" /\ want' = want
      /\ ActivationShape /\ HandlerShape /\ reply[h] \in ReplyStates
  BY DEF Act, ApplyAction, At, AdGroupInv, HandlerShape
<1>3. CASE End(h, "error") /\ UNCHANGED activation
  <2>1. ActivationShape'
    BY <1>2, <1>3 DEF ActivationShape, activation
  <2>2. QED  BY <1>3, <2>1, EndKeeps
<1>4. CASE /\ Continue(h, "publishable") /\ UNCHANGED <<seen, published>>
           /\ IF action = "approve" /\ reply[h].faulty
              THEN UNCHANGED <<activation, reply>>
              ELSE ActUpstream(h, action)
  <2>1. UNCHANGED <<setting, content, faulty, locked>>
    BY <1>4 DEF ActUpstream, activation
  <2>2. status' \in Statuses /\ approved' \in BOOLEAN
    <3>1. CASE UNCHANGED activation
      BY <1>2, <3>1 DEF activation, ActivationShape
    <3>2. CASE ActUpstream(h, action)
      BY <1>2, <3>2 DEF ActUpstream, ActivationShape, Statuses
    <3>3. QED  BY <1>4, <3>1, <3>2
  <2>3. ActivationShape'
    BY <1>2, <2>1, <2>2 DEF ActivationShape
  <2>4. /\ reply' \in [Handlers -> ReplyStates]
        /\ \A g \in Handlers \ {h} : reply'[g] = reply[g]
        /\ reply'[h].approved \in {reply[h].approved, approved'}
        /\ reply'[h].approved = reply[h].approved => approved' = approved \/ reply'[h].approved = approved'
    <3>1. CASE UNCHANGED <<activation, reply>>
      BY <1>2, <3>1 DEF HandlerShape, activation
    <3>2. CASE ActUpstream(h, action)
      <4>1. PICK told : told = [status |-> status', approved |-> approved', faulty |-> FALSE]
        OBVIOUS
      <4>2. told \in ReplyStates /\ told.approved = approved' /\ reply' = [reply EXCEPT ![h] = told]
        BY <2>2, <3>2, <4>1 DEF ReplyStates, ActUpstream
      <4>3. QED  BY <1>2, <4>2 DEF HandlerShape
    <3>3. QED  BY <1>4, <3>1, <3>2
  <2>5. "publishable" \in Steps /\ step'[h] = "publishable" /\ UNCHANGED <<disturbed, stage>>
    BY <1>2, <1>4 DEF Steps, HandlerShape, Continue, lockVars
  <2>6. KnowsOf(h)'
    BY <1>2, <2>5 DEF KnowsOf, Publishing
  <2>7. ASSUME h \notin disturbed
        PROVE  OwnOf(h)'
    <3>1. /\ reply[h].approved => approved
          /\ status = "PAUSED" => reply[h].status = "PAUSED"
      BY <1>2, <2>7 DEF AdGroupInv, AloneOf, OwnOf
    <3>2. reply'[h].approved => approved'
      BY <2>4, <3>1
    <3>3. ASSUME want[h].op = "put", want[h].ask = "PAUSED"
          PROVE  status' = "PAUSED"
      <4>1. action = "pause"
        BY <1>1, <3>3, ActionsChosen DEF Asked
      <4>2. QED  BY <1>4, <4>1 DEF ActUpstream
    <3>4. ASSUME want[h].op = "put", want[h].ask = "ACTIVE"
          PROVE  status' # "PAUSED"
      <4>1. action = IF reply[h].status = "PAUSED" THEN "unpause" ELSE "approve"
        BY <1>1, <3>4, ActionsChosen DEF Asked
      <4>2. CASE action = "unpause"
        BY <1>4, <4>2 DEF ActUpstream
      <4>3. CASE action = "approve"
        <5>1. status # "PAUSED"
          BY <3>1, <4>1, <4>3
        <5>2. QED  BY <1>4, <4>3, <5>1 DEF ActUpstream, activation
      <4>4. QED  BY <4>1, <4>2, <4>3
    <3>5. Honoured(h)'
      BY <1>2, <3>3, <3>4 DEF Honoured
    <3>6. QED  BY <2>5, <3>2, <3>5 DEF OwnOf, Publishing
  <2>8. PublishedWasApproved'
    BY <1>4, <2>5 DEF AdGroupInv, PublishedWasApproved
  <2>9. seen' \in [Handlers -> ReadStates]
    BY <1>2, <1>4 DEF HandlerShape
  <2>10. QED  BY <1>2, <1>4, <2>3, <2>4, <2>5, <2>6, <2>7, <2>8, <2>9, ContinueKeeps
<1>5. QED  BY <1>1, <1>3, <1>4 DEF Act, ApplyAction

LEMMA DecideKeeps ==
    ASSUME AdGroupInv, LockTypeOK, NEW h \in Handlers, DecidePublication(h)
    PROVE  AdGroupInv'
<1>1. /\ stage[h] = "inside" /\ step[h] = "publishable" /\ UNCHANGED <<activation, want>>
      /\ ActivationShape'
  BY DEF DecidePublication, PublishIf, At, AdGroupInv, ActivationShape, activation
<1>2. h \notin disturbed => OwnOf(h)
  BY <1>1 DEF AdGroupInv, AloneOf
<1>3. CASE End(h, "ok")
  BY <1>1, <1>2, <1>3, EndKeeps DEF OwnOf, Honoured, activation
<1>4. CASE /\ ~ reply[h].faulty /\ reply[h].approved /\ Continue(h, "check publish")
           /\ UNCHANGED <<seen, reply, published>>
  <2>1. /\ "check publish" \in Steps /\ step'[h] = "check publish" /\ UNCHANGED <<disturbed, stage>>
        /\ seen' \in [Handlers -> ReadStates] /\ reply' \in [Handlers -> ReplyStates]
    BY <1>4 DEF Steps, AdGroupInv, HandlerShape, Continue, lockVars
  <2>2. KnowsOf(h)'
    BY <1>1, <1>4, <2>1 DEF KnowsOf
  <2>3. h \notin disturbed => OwnOf(h)'
    BY <1>1, <1>2, <1>4, <2>1 DEF OwnOf, Publishing, Honoured, activation
  <2>4. PublishedWasApproved'
    BY <1>4, <2>1 DEF AdGroupInv, PublishedWasApproved
  <2>5. QED  BY <1>1, <1>4, <2>1, <2>2, <2>3, <2>4, ContinueKeeps
<1>5. QED  BY <1>3, <1>4 DEF DecidePublication, PublishIf

LEMMA PublishKeeps ==
    ASSUME AdGroupInv, LockTypeOK, NEW h \in Handlers, Publish(h)
    PROVE  AdGroupInv'
<1>1. /\ stage[h] = "inside" /\ step[h] = "publish" /\ locked' = TRUE /\ Continue(h, "settle")
      /\ UNCHANGED <<setting, content, status, approved, faulty, want, seen, reply>>
      /\ approved => ("not approved" \in published' => "not approved" \in published)
  BY DEF Publish, At
<1>2. /\ "settle" \in Steps /\ step'[h] = "settle" /\ UNCHANGED <<disturbed, stage>>
      /\ seen' \in [Handlers -> ReadStates] /\ reply' \in [Handlers -> ReplyStates]
      /\ ActivationShape'
  BY <1>1 DEF Steps, AdGroupInv, ActivationShape, HandlerShape, Continue, lockVars
<1>3. KnowsOf(h)'
  BY <1>1, <1>2 DEF AdGroupInv, KnowsOf, Publishing
<1>4. h \notin disturbed => OwnOf(h) /\ approved
  BY <1>1 DEF AdGroupInv, AloneOf, OwnOf
<1>5. h \notin disturbed => OwnOf(h)'
  BY <1>1, <1>2, <1>4 DEF OwnOf, Publishing, Honoured
<1>6. PublishedWasApproved'
  BY <1>1, <1>2, <1>4 DEF AdGroupInv, PublishedWasApproved
<1>7. QED  BY <1>1, <1>2, <1>3, <1>5, <1>6, ContinueKeeps

LEMMA HandlerKeeps ==
    ASSUME AdGroupInv, LockTypeOK, NEW h \in Handlers,
           \/ \E r \in Requests : Read(h, r)
           \/ Fail(h) \/ CheckUnlocked(h) \/ Patch(h) \/ Act(h)
           \/ DecidePublication(h) \/ Publish(h) \/ Settled(h)
    PROVE  AdGroupInv'
<1>1. ASSUME Fail(h)
      PROVE  AdGroupInv'
  <2>1. End(h, "error") /\ ActivationShape'
    BY <1>1 DEF Fail, AdGroupInv, ActivationShape, activation
  <2>2. QED  BY <2>1, EndKeeps
<1>2. ASSUME Settled(h)
      PROVE  AdGroupInv'
  <2>1. /\ stage[h] = "inside" /\ step[h] = "settle" /\ End(h, "ok") /\ ActivationShape'
        /\ UNCHANGED <<activation, want>>
    BY <1>2 DEF Settled, At, AdGroupInv, ActivationShape, activation
  <2>2. h \notin disturbed => Honoured(h)'
    BY <2>1 DEF AdGroupInv, AloneOf, OwnOf, Publishing, Honoured, activation
  <2>3. QED  BY <2>1, <2>2, EndKeeps
<1>3. QED
  BY <1>1, <1>2, ReadKeeps, CheckKeeps, PatchKeeps, ActKeeps, DecideKeeps, PublishKeeps
-----------------------------------------------------------------------------
(* A request whose part nothing touches.                                   *)
LEMMA LeftAlone ==
    ASSUME NEW h \in Handlers, KnowsOf(h), AloneOf(h), disturbed \subseteq disturbed',
           UNCHANGED <<activation, want>>,
           stage'[h] = stage[h], result'[h] = result[h],
           step'[h] = step[h], seen'[h] = seen[h], reply'[h] = reply[h]
    PROVE  KnowsOf(h)' /\ AloneOf(h)'
<1>1. KnowsOf(h)'
  BY DEF KnowsOf
<1>2. OwnOf(h) => OwnOf(h)'
  BY DEF OwnOf, Honoured, activation
<1>3. Honoured(h) => Honoured(h)'
  BY DEF Honoured, activation
<1>4. QED  BY <1>1, <1>2, <1>3 DEF AloneOf

(* One that comes in knows nothing, one that leaves its handler keeps no   *)
(* more than its result.                                                   *)
LEMMA ComesOrGoes ==
    ASSUME NEW h \in Handlers, KnowsOf(h), UNCHANGED activation,
           step'[h] = "read", reply'[h] = NoReply, stage'[h] # "leaving"
    PROVE  KnowsOf(h)' /\ AloneOf(h)'
<1>1. KnowsOf(h)'
  BY DEF KnowsOf, Publishing
<1>2. ~ reply'[h].approved
  BY DEF NoReply
<1>3. OwnOf(h)'
  BY <1>2 DEF OwnOf, Publishing
<1>4. QED  BY <1>1, <1>3 DEF AloneOf

LEMMA LockStepKeeps ==
    ASSUME AdGroupInv, LockTypeOK, LockStep
    PROVE  AdGroupInv'
<1>1. /\ UNCHANGED <<activation, published, want>> /\ NoteCompany
      /\ disturbed' = disturbed \cup {h \in Inside' : Inside' # {h}}
      /\ Inside' \subseteq Handlers
  BY DEF LockStep, NoteCompany, bodyVars, Inside
<1>2. ActivationShape' /\ disturbed' \subseteq Handlers /\ disturbed \subseteq disturbed'
  BY <1>1 DEF AdGroupInv, ActivationShape, HandlerShape, activation
<1>3. CompanyInv'
  BY <1>1 DEF CompanyInv
<1>4. PublishedWasApproved'
  BY <1>1, <1>2 DEF AdGroupInv, PublishedWasApproved
<1>5. ASSUME NEW h \in Handlers, Crash(h), Forget(h)
      PROVE  HandlerShape' /\ \A g \in Handlers : KnowsOf(g)' /\ AloneOf(g)'
  <2>1. /\ HandlerShape' /\ step'[h] = "read" /\ reply'[h] = NoReply
        /\ \A g \in Handlers \ {h} : step'[g] = step[g] /\ reply'[g] = reply[g]
    BY <1>2, <1>5, ForgetKeepsShape DEF AdGroupInv
  <2>2. /\ stage'[h] = "over"
        /\ \A g \in Handlers \ {h} : stage'[g] = stage[g] /\ result'[g] = result[g] /\ seen'[g] = seen[g]
    BY <1>5 DEF Crash, Forget, LockTypeOK, AdGroupInv, HandlerShape
  <2>3. KnowsOf(h)' /\ AloneOf(h)'
    BY <1>1, <2>1, <2>2, ComesOrGoes DEF AdGroupInv
  <2>4. \A g \in Handlers \ {h} : KnowsOf(g)' /\ AloneOf(g)'
    BY <1>1, <1>2, <2>1, <2>2, LeftAlone DEF AdGroupInv
  <2>5. QED  BY <2>1, <2>3, <2>4
<1>6. CASE UNCHANGED bodyVars
  <2>1. HandlerShape' /\ UNCHANGED <<step, seen, reply>>
    BY <1>2, <1>6 DEF bodyVars, AdGroupInv, HandlerShape
  <2>2. ASSUME NEW g \in Handlers, stage'[g] = stage[g], result'[g] = result[g]
        PROVE  KnowsOf(g)' /\ AloneOf(g)'
    BY <1>1, <1>2, <2>1, <2>2, LeftAlone DEF AdGroupInv
  <2>3. ASSUME NEW g \in Handlers, stage[g] # "inside", stage'[g] # "leaving"
        PROVE  KnowsOf(g)' /\ AloneOf(g)'
    BY <1>1, <2>1, <2>3, ComesOrGoes DEF AdGroupInv, KnowsOf
  <2>4. CASE \E h \in Handlers :
                \/ \E on \in BOOLEAN : FetchFlag(h, on)
                \/ Acquire(h) \/ AcquireFails(h) \/ Release(h) \/ ReleaseFails(h)
    <3>1. PICK h \in Handlers :
                \/ \E on \in BOOLEAN : FetchFlag(h, on)
                \/ Acquire(h) \/ AcquireFails(h) \/ Release(h) \/ ReleaseFails(h)
      BY <2>4
    <3>2. /\ stage[h] # "inside" /\ stage'[h] # "leaving"
          /\ \A g \in Handlers \ {h} : stage'[g] = stage[g] /\ result'[g] = result[g]
      BY <3>1 DEF FetchFlag, Acquire, AcquireFails, Release, ReleaseFails, LockTypeOK
    <3>3. \A g \in Handlers : KnowsOf(g)' /\ AloneOf(g)'
      BY <2>2, <2>3, <3>2
    <3>4. QED  BY <1>2, <1>3, <1>4, <2>1, <3>3 DEF AdGroupInv
  <2>5. CASE Expire
    <3>1. \A g \in Handlers : KnowsOf(g)' /\ AloneOf(g)'
      BY <2>2, <2>5 DEF Expire
    <3>2. QED  BY <1>2, <1>3, <1>4, <2>1, <3>1 DEF AdGroupInv
  <2>6. CASE \E h \in Handlers : Crash(h) /\ Forget(h)
    BY <1>2, <1>3, <1>4, <1>5, <2>6 DEF AdGroupInv
  <2>7. QED  BY <2>4, <2>5, <2>6 DEF LockStep
<1>7. CASE \E h \in Handlers : Crash(h) /\ Forget(h)
  BY <1>2, <1>3, <1>4, <1>5, <1>7 DEF AdGroupInv
<1>8. QED  BY <1>6, <1>7 DEF LockStep

(* What the service does of its own accord: a publication ends, the ad     *)
(* group ends or passes its review.                                        *)
LEMMA UpstreamKeeps ==
    ASSUME AdGroupInv, PublicationEnds \/ Advance
    PROVE  AdGroupInv'
<1>1. /\ UNCHANGED <<stage, guarded, result, setting, content, faulty, want, step, seen, reply>>
      /\ UNCHANGED <<disturbed, published>>
      /\ locked' \in {locked, FALSE}
      /\ \/ UNCHANGED <<status, approved>>
         \/ status' = "ENDED" /\ approved' = approved
         \/ status # "PAUSED" /\ status' = "ACTIVE" /\ approved' = TRUE /\ status = "UNDER REVIEW"
  BY DEF PublicationEnds, Advance, lockVars, bodyVars
<1>2. ActivationShape'
  BY <1>1 DEF AdGroupInv, ActivationShape, Statuses
<1>3. HandlerShape' /\ CompanyInv' /\ PublishedWasApproved'
  BY <1>1 DEF AdGroupInv, HandlerShape, CompanyInv, Inside, PublishedWasApproved
<1>4. ASSUME NEW h \in Handlers
      PROVE  KnowsOf(h)' /\ AloneOf(h)'
  <2>1. KnowsOf(h) /\ AloneOf(h) /\ locked \in BOOLEAN
    BY DEF AdGroupInv, ActivationShape
  <2>2. KnowsOf(h)'
    BY <1>1, <2>1 DEF KnowsOf
  <2>3. Honoured(h) => Honoured(h)'
    BY <1>1 DEF Honoured
  <2>4. locked' => locked
    BY <1>1
  <2>5. approved => approved'
    BY <1>1
  <2>6. status' = "PAUSED" => status = "PAUSED"
    BY <1>1
  <2>7. OwnOf(h) => OwnOf(h)'
    BY <1>1, <2>3, <2>4, <2>5, <2>6 DEF OwnOf
  <2>8. QED  BY <1>1, <2>1, <2>2, <2>3, <2>7 DEF AloneOf
<1>5. QED  BY <1>2, <1>3, <1>4 DEF AdGroupInv

LEMMA InitialAdGroup == AdGroupInit => AdGroupInv
<1> SUFFICES ASSUME AdGroupInit
             PROVE  AdGroupInv
  OBVIOUS
<1>1. /\ stage = [h \in Handlers |-> "idle"] /\ disturbed = {} /\ published = {}
      /\ want = [h \in Handlers |-> NoRequest] /\ step = [h \in Handlers |-> "read"]
      /\ seen = [h \in Handlers |-> Unread] /\ reply = [h \in Handlers |-> NoReply]
  BY DEF AdGroupInit, LockInit
<1>2. ActivationShape
  <2>1. /\ setting \in [Fields -> Handlers \cup {NoOne}] /\ content \in [Parts -> SUBSET Items]
        /\ want \in [Handlers -> Requests \cup {NoRequest}]
    BY <1>1 DEF AdGroupInit
  <2>2. status \in Statuses
    BY DEF AdGroupInit, Statuses
  <2>3. approved \in BOOLEAN
    <3>1. approved = (status \in {"ACTIVE", "PAUSED"})
      BY DEF AdGroupInit
    <3>2. CASE status \in {"ACTIVE", "PAUSED"}
      BY <3>1, <3>2
    <3>3. CASE status \notin {"ACTIVE", "PAUSED"}
      BY <3>1, <3>3
    <3>4. QED  BY <3>2, <3>3
  <2>4. faulty \in BOOLEAN /\ locked \in BOOLEAN
    BY DEF AdGroupInit
  <2>5. QED  BY <2>1, <2>2, <2>3, <2>4 DEF ActivationShape
<1>3. HandlerShape
  <2>1. Unread \in ReadStates /\ NoReply \in ReplyStates /\ "read" \in Steps
    BY DEF Unread, ReadStates, NoReply, ReplyStates, Steps, Statuses
  <2>2. QED  BY <1>1, <2>1 DEF HandlerShape
<1>4. CompanyInv /\ PublishedWasApproved
  BY <1>1 DEF CompanyInv, Inside, PublishedWasApproved
<1>5. \A h \in Handlers : KnowsOf(h) /\ AloneOf(h)
  BY <1>1 DEF KnowsOf, AloneOf, Publishing
<1>6. QED  BY <1>2, <1>3, <1>4, <1>5 DEF AdGroupInv

LEMMA AdGroupSteps == AdGroupInv /\ LockTypeOK /\ [AdGroupNext]_adGroupVars => AdGroupInv'
<1> SUFFICES ASSUME AdGroupInv, LockTypeOK, [AdGroupNext]_adGroupVars
             PROVE  AdGroupInv'
  OBVIOUS
<1>1. CASE UNCHANGED adGroupVars
  <2>1. UNCHANGED <<activation, want, step, seen, reply, disturbed, published, stage, result>>
    BY <1>1 DEF adGroupVars, bodyVars, lockVars
  <2>2. ActivationShape' /\ HandlerShape' /\ CompanyInv' /\ PublishedWasApproved'
    BY <2>1 DEF AdGroupInv, ActivationShape, HandlerShape, CompanyInv, Inside, PublishedWasApproved, activation
  <2>3. \A h \in Handlers : KnowsOf(h)' /\ AloneOf(h)'
    BY <2>1, LeftAlone DEF AdGroupInv
  <2>4. QED  BY <2>2, <2>3 DEF AdGroupInv
<1>2. CASE LockStep
  BY <1>2, LockStepKeeps
<1>3. CASE PublicationEnds \/ Advance
  BY <1>3, UpstreamKeeps
<1>4. QED  BY <1>1, <1>2, <1>3, HandlerKeeps DEF AdGroupNext

(* The invariant of the requests on an ad group holds throughout.          *)
THEOREM AdGroupInvHolds == AdGroupSpec => []AdGroupInv
<1>1. AdGroupSpec => []LockTypeOK
  BY AdGroupsRunLocked, LockTypeCorrect, PTL
<1>2. QED  BY <1>1, InitialAdGroup, AdGroupSteps, PTL DEF AdGroupSpec

(* For any requests, items and ad groups: the types, and nobody on the way *)
(* to a publication has a reply with warnings or errors.                   *)
THEOREM AdGroupTypes == AdGroupSpec => []AdGroupTypeOK
<1>1. AdGroupInv /\ LockTypeOK => AdGroupTypeOK
  <2> SUFFICES ASSUME AdGroupInv, LockTypeOK
               PROVE  AdGroupTypeOK
    OBVIOUS
  <2>1. ActivationShape /\ HandlerShape
    BY DEF AdGroupInv
  <2>2. \A h \in Handlers : reply[h].status \in Statuses
    BY <2>1 DEF HandlerShape, ReplyStates
  <2>3. \A h \in Handlers : At(h, "publish") \/ At(h, "settle") => ~ reply[h].faulty
    BY DEF AdGroupInv, KnowsOf, Publishing, At
  <2>4. {approved, faulty, locked} \subseteq BOOLEAN
    BY <2>1 DEF ActivationShape
  <2>5. QED  BY <2>1, <2>2, <2>3, <2>4 DEF AdGroupTypeOK, ActivationShape, HandlerShape
<1>2. AdGroupSpec => []LockTypeOK
  BY AdGroupsRunLocked, LockTypeCorrect, PTL
<1>3. QED  BY <1>1, <1>2, AdGroupInvHolds, PTL

(* For any of them: a put without company that is about to be answered as  *)
(* a success left the ad group in the status it asked for.                 *)
THEOREM StatusesAreHonoured == AdGroupSpec => []StatusIsHonoured
<1>1. AdGroupInv => StatusIsHonoured
  BY DEF AdGroupInv, AloneOf, Honoured, StatusIsHonoured
<1>2. QED  BY <1>1, AdGroupInvHolds, PTL

(* For any of them: while nobody has company, what is published is         *)
(* approved at that moment.                                                *)
THEOREM OnlyApprovedIsPublished == AdGroupSpec => []PublishedWasApproved
<1>1. AdGroupInv => PublishedWasApproved
  BY DEF AdGroupInv
<1>2. QED  BY <1>1, AdGroupInvHolds, PTL
-----------------------------------------------------------------------------
(* The promises about a patch.                                             *)

(* Company that was noted stays so.                                        *)
LEMMA CompanyStays ==
    ASSUME [AdGroupNext]_adGroupVars
    PROVE  disturbed \subseteq disturbed'
BY StepsOfTheLock DEF NoteCompany

(* Only a patch changes what is patched.                                   *)
LEMMA OnlyPatches ==
    ASSUME [AdGroupNext]_adGroupVars
    PROVE  \/ UNCHANGED <<setting, content>>
           \/ \E h \in Handlers : Patch(h)
<1>1. CASE UNCHANGED adGroupVars
  BY <1>1 DEF adGroupVars, activation
<1>2. CASE LockStep \/ PublicationEnds \/ Advance
  BY <1>2 DEF LockStep, activation, PublicationEnds, Advance
<1>3. ASSUME NEW h \in Handlers,
             \/ \E r \in Requests : Read(h, r)
             \/ Fail(h) \/ CheckUnlocked(h) \/ Act(h)
             \/ DecidePublication(h) \/ Publish(h) \/ Settled(h)
      PROVE  UNCHANGED <<setting, content>>
  BY <1>3 DEF Read, Fail, CheckUnlocked, Act, ApplyAction, ActUpstream, DecidePublication, PublishIf,
     Publish, Settled, activation
<1>4. QED  BY <1>1, <1>2, <1>3 DEF AdGroupNext

(* A request that leaves its patch behind made it, or ended or died there, *)
(* and nobody else did anything.                                           *)
LEMMA LeavesPatch ==
    ASSUME AdGroupInv, LockTypeOK, [AdGroupNext]_adGroupVars,
           NEW h \in Handlers \ disturbed', At(h, "patch"), ~ At(h, "patch")'
    PROVE  \/ Patch(h)
           \/ UNCHANGED <<setting, content>> /\ ~ At(h, "publishable")'
<1>1. stage[h] = "inside" /\ step[h] = "patch" /\ h \notin disturbed
  BY CompanyStays DEF At
<1>2. CASE UNCHANGED adGroupVars
  BY <1>2 DEF adGroupVars, activation, bodyVars, lockVars, At
<1>3. CASE PublicationEnds \/ Advance
  BY <1>3 DEF PublicationEnds, Advance, lockVars, bodyVars, At
<1>4. CASE LockStep
  <2>1. UNCHANGED <<setting, content>>
    BY <1>4 DEF LockStep, activation
  <2>2. step' = step \/ \E g \in Handlers : Forget(g)
    BY <1>4 DEF LockStep, bodyVars
  <2>3. step'[h] # "publishable"
    BY <1>1, <2>2 DEF Forget, AdGroupInv, HandlerShape
  <2>4. QED  BY <2>1, <2>3 DEF At
<1>5. ASSUME NEW g \in Handlers,
             \/ \E r \in Requests : Read(g, r)
             \/ Fail(g) \/ CheckUnlocked(g) \/ Patch(g) \/ Act(g)
             \/ DecidePublication(g) \/ Publish(g) \/ Settled(g)
      PROVE  \/ Patch(h)
             \/ UNCHANGED <<setting, content>> /\ ~ At(h, "publishable")'
  <2>1. stage[g] = "inside"
    BY <1>5 DEF Read, Fail, CheckUnlocked, Patch, ApplyPatch, Act, ApplyAction, DecidePublication,
       PublishIf, Publish, Settled, At
  <2>2. g = h
    BY <1>1, <2>1 DEF AdGroupInv, CompanyInv, Inside
  <2>3. CASE Patch(g)
    BY <2>2, <2>3
  <2>4. CASE Fail(g)
    <3>1. UNCHANGED <<setting, content>> /\ Forget(h)
      BY <2>2, <2>4 DEF Fail, End, activation
    <3>2. step'[h] = "read"
      BY <3>1 DEF Forget, AdGroupInv, HandlerShape
    <3>3. QED  BY <3>1, <3>2 DEF At
  <2>5. ~ (\E r \in Requests : Read(g, r)) /\ ~ CheckUnlocked(g) /\ ~ Act(g)
        /\ ~ DecidePublication(g) /\ ~ Publish(g) /\ ~ Settled(g)
    BY <1>1, <2>2 DEF Read, CheckUnlocked, Act, ApplyAction, DecidePublication, PublishIf, Publish,
       Settled, At
  <2>6. QED  BY <1>5, <2>3, <2>4, <2>5
<1>6. QED  BY <1>2, <1>3, <1>4, <1>5 DEF AdGroupNext

(* What a patch without company does to the ad group.                      *)
LEMMA PatchWithoutCompany ==
    ASSUME AdGroupInv, NEW h \in Handlers \ disturbed, Patch(h)
    PROVE  /\ \A f \in Fields \ {want[h].field} : setting'[f] = setting[f]
           /\ content'["entities"] = IF want[h].op \in {"patch", "post"}
                                     THEN NewGroup(content["entities"], want[h])
                                     ELSE content["entities"]
           /\ content'["keywords"] \in {content["keywords"], NewGroup(content["keywords"], want[h])}
           /\ want[h].op = "post" => content["entities"] = {}
           /\ ~ locked
           /\ want[h].op \in {"patch", "post"} => At(h, "publishable")'
<1>1. /\ stage[h] = "inside" /\ step[h] = "patch"
      /\ setting' = PatchedSetting(h) /\ content' = PatchedContent(h)
  BY DEF Patch, ApplyPatch, At
<1>2. /\ seen[h].setting = setting /\ seen[h].content = content /\ ~ locked
      /\ want[h].op = "post" => content["entities"] = {}
  BY <1>1 DEF AdGroupInv, AloneOf, OwnOf
<1>3. setting \in [Fields -> Handlers \cup {NoOne}] /\ content \in [Parts -> SUBSET Items]
  BY DEF AdGroupInv, ActivationShape
<1>4. \A f \in Fields \ {want[h].field} : setting'[f] = setting[f]
  <2>1. CASE want[h].op = "put"
    BY <1>1, <1>2, <1>3, <2>1 DEF PatchedSetting
  <2>2. CASE want[h].op = "campaign"
    <3>1. setting' = [setting EXCEPT !["budgetType"] = h]
      BY <1>1, <2>2 DEF PatchedSetting
    <3>2. want[h].field = "budgetType"
      <4>1. want[h] \in Requests \cup {NoRequest}
        BY DEF AdGroupInv, ActivationShape
      <4>2. NoRequest.op # "campaign"
        BY DEF NoRequest
      <4>3. QED  BY <2>2, <4>1, <4>2, RequestsAssumption
    <3>3. QED  BY <1>3, <3>1, <3>2
  <2>3. CASE want[h].op \notin {"put", "campaign"}
    BY <1>1, <2>3 DEF PatchedSetting
  <2>4. QED  BY <2>1, <2>2, <2>3
<1>5. /\ content'["entities"] = IF want[h].op \in {"patch", "post"}
                                THEN NewGroup(content["entities"], want[h])
                                ELSE content["entities"]
      /\ content'["keywords"] \in {content["keywords"], NewGroup(content["keywords"], want[h])}
  <2> DEFINE entities == NewGroup(content["entities"], want[h])
             keywords == NewGroup(content["keywords"], want[h])
  <2>1. "entities" \in Parts /\ "keywords" \in Parts
    BY DEF Parts
  <2>2. CASE want[h].op \in {"patch", "post"}
    <3>1. content' = [content EXCEPT !["entities"] = entities]
      BY <1>1, <1>2, <2>2 DEF PatchedContent
    <3>2. QED  BY <1>3, <2>1, <2>2, <3>1
  <2>3. CASE want[h].op \notin {"patch", "post"}
    <3>1. content' = [content EXCEPT !["keywords"] = keywords] \/ content' = content
      BY <1>1, <1>2, <2>3 DEF PatchedContent
    <3>2. content'["entities"] = content["entities"]
      BY <1>3, <2>1, <3>1
    <3>3. content'["keywords"] \in {content["keywords"], keywords}
      BY <1>3, <2>1, <3>1
    <3>4. QED  BY <2>3, <3>2, <3>3
  <2>4. QED  BY <2>2, <2>3
<1>6. want[h].op \in {"patch", "post"} => At(h, "publishable")'
  <2> SUFFICES ASSUME want[h].op \in {"patch", "post"}
               PROVE  At(h, "publishable")'
    OBVIOUS
  <2>1. Continue(h, "publishable")
    BY DEF Patch, ApplyPatch
  <2>2. stage' = stage /\ step'[h] = "publishable"
    BY <2>1 DEF Continue, lockVars, AdGroupInv, HandlerShape
  <2>3. QED  BY <1>1, <2>2 DEF At
<1>7. QED  BY <1>2, <1>4, <1>5, <1>6

(* A group of keywords that is merged keeps what was not deleted and is    *)
(* fit, and gains what was added at most.                                  *)
LEMMA MergedGroup ==
    ASSUME NEW old, NEW r
    PROVE  /\ old \ (r.del \cup Unfit) \subseteq NewGroup(old, r)
           /\ NewGroup(old, r) \subseteq old \cup r.add
BY DEF NewGroup, MergeItems

(* No lost update: a request without company changes what it asked for and *)
(* nothing else, whatever it read calls ago.                               *)
THEOREM UpdatesAreNotLost == AdGroupSpec => NoLostUpdate
<1> DEFINE Kept(h) ==
        /\ \A f \in Fields \ {want[h].field} : setting'[f] = setting[f]
        /\ content'["entities"] =
              IF want[h].op \in {"patch", "post"} /\ At(h, "publishable")'
              THEN NewGroup(content["entities"], want[h])
              ELSE content["entities"]
        /\ content["keywords"] \ (want[h].del \cup Unfit) \subseteq content'["keywords"]
        /\ content'["keywords"] \subseteq content["keywords"] \cup want[h].add
<1>1. ASSUME AdGroupInv, LockTypeOK, [AdGroupNext]_adGroupVars,
             NEW h \in Handlers \ disturbed', At(h, "patch"), ~ At(h, "patch")'
      PROVE  Kept(h)
  <2>1. h \in Handlers \ disturbed
    BY <1>1, CompanyStays
  <2>2. CASE UNCHANGED <<setting, content>> /\ ~ At(h, "publishable")'
    BY <2>2
  <2>3. CASE Patch(h)
    <3>1. content'["keywords"] \in {content["keywords"], NewGroup(content["keywords"], want[h])}
      BY <1>1, <2>1, <2>3, PatchWithoutCompany
    <3>2. /\ content["keywords"] \ (want[h].del \cup Unfit) \subseteq content'["keywords"]
          /\ content'["keywords"] \subseteq content["keywords"] \cup want[h].add
      BY <3>1, MergedGroup
    <3>3. /\ \A f \in Fields \ {want[h].field} : setting'[f] = setting[f]
          /\ content'["entities"] =
                IF want[h].op \in {"patch", "post"} /\ At(h, "publishable")'
                THEN NewGroup(content["entities"], want[h])
                ELSE content["entities"]
      BY <1>1, <2>1, <2>3, PatchWithoutCompany
    <3>4. QED  BY <3>2, <3>3
  <2>4. QED  BY <1>1, <2>2, <2>3, LeavesPatch
<1>2. AdGroupInv /\ LockTypeOK /\ [AdGroupNext]_adGroupVars
      => [\A h \in Handlers \ disturbed' : At(h, "patch") /\ ~ At(h, "patch")' => Kept(h)]_adGroupVars
  BY <1>1
<1>3. AdGroupSpec => []LockTypeOK
  BY AdGroupsRunLocked, LockTypeCorrect, PTL
<1>4. QED  BY <1>2, <1>3, AdGroupInvHolds, PTL DEF AdGroupSpec, NoLostUpdate

(* While nobody has company, nothing is patched into a publication that is *)
(* under way.                                                              *)
THEOREM PublicationsAreLeftAlone == AdGroupSpec => NoPatchIntoPublication
<1>1. ASSUME AdGroupInv, [AdGroupNext]_adGroupVars, disturbed' = {}, locked
      PROVE  UNCHANGED <<setting, content>>
  <2>1. \A h \in Handlers : ~ Patch(h)
    BY <1>1, CompanyStays, PatchWithoutCompany
  <2>2. QED  BY <1>1, <2>1, OnlyPatches
<1>2. AdGroupInv /\ [AdGroupNext]_adGroupVars
      => [disturbed' = {} /\ locked => UNCHANGED <<setting, content>>]_adGroupVars
  BY <1>1
<1>3. QED  BY <1>2, AdGroupInvHolds, PTL DEF AdGroupSpec, NoPatchIntoPublication

(* A post without company that goes through finds the ad group without     *)
(* entities at that moment.                                                *)
THEOREM PostsFillTheEmpty == AdGroupSpec => PostFillsEmpty
<1>1. ASSUME AdGroupInv, LockTypeOK, [AdGroupNext]_adGroupVars,
             NEW h \in Handlers \ disturbed', want[h].op = "post",
             At(h, "patch"), At(h, "publishable")'
      PROVE  content["entities"] = {}
  <2>1. h \in Handlers \ disturbed /\ ~ At(h, "patch")'
    BY <1>1, CompanyStays DEF At
  <2>2. Patch(h)
    BY <1>1, <2>1, LeavesPatch
  <2>3. QED  BY <1>1, <2>1, <2>2, PatchWithoutCompany
<1>2. AdGroupInv /\ LockTypeOK /\ [AdGroupNext]_adGroupVars
      => [\A h \in Handlers \ disturbed' :
             want[h].op = "post" /\ At(h, "patch") /\ At(h, "publishable")'
                 => content["entities"] = {}]_adGroupVars
  BY <1>1
<1>3. AdGroupSpec => []LockTypeOK
  BY AdGroupsRunLocked, LockTypeCorrect, PTL
<1>4. QED  BY <1>2, <1>3, AdGroupInvHolds, PTL DEF AdGroupSpec, PostFillsEmpty
=============================================================================
