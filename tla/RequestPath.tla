----------------------------- MODULE RequestPath -----------------------------
(***************************************************************************)
(* A request from its header to its answer: the user of its token, as the  *)
(* enterprise client service knows them (get_user, validate_user), the     *)
(* limit or the roles of the endpoint, the calls its handler makes, and    *)
(* the status the client is told.  Answers of that service are kept in a   *)
(* cache under keys made of the name in the token and, for the lists of an *)
(* account, of the path and the parameters of the request.                 *)
(*                                                                         *)
(* The handlers stand for the calls they make through the HTTP clients;    *)
(* what they do with the answers is in Directory, Reports and Campaigns.   *)
(***************************************************************************)
EXTENDS RateLimit

CONSTANTS
    Mixes,          \* sets of requests to run, those already at the limit, the
                    \* flags, the faults it cannot have, the keys before
    Users,
    Profile,        \* Profile[u]: [name, active, consumer] of GET /me
    AccessBefore,   \* AccessBefore[u]: [internal, agency, accounts] of GET /apiAccess,
                    \* the brands among the accounts
    Revocable,      \* the users who may lose their accounts
    RolesOf,        \* RolesOf[u]: their roles
    Colleagues,     \* the users with an address of 8451.com
    MaxTokenTries   \* max_retries of the fetch of Koddi's token

(* The requests of a mix are of known clients, and only one that has a     *)
(* limit, and whose user validate_user has let pass, waits at it.          *)
ASSUME MixesAssumption ==
    \A mix \in Mixes :
        /\ mix.faults \in 0 .. MaxFaults
        /\ mix.before.count \in Nat /\ mix.before.ttl \in Lives
        /\ \A r \in Requests : ContextClient(mix.ask[r]) \in Clients
        /\ \A r \in mix.waiting : mix.ask[r].kind \in Handlers /\ ContextUser(mix.ask[r]) \in Users

(* External: what the enterprise client service has of its users, no one's *)
(* profile naming another.                                                 *)
ASSUME UsersAssumption ==
    /\ Revocable \subseteq Users
    /\ \A u, v \in Users : Profile[u].name = v => u = v
    /\ DOMAIN AccessBefore = Users
    /\ \A u \in Users : DOMAIN AccessBefore[u] = {"internal", "agency", "accounts"}

Required == {"ADVERTISER_API"}

VARIABLES
    access,     \* access[u]: what GET /apiAccess answers
    cache,      \* the answers kept, by key
    phase,      \* phase[r]: call, keep or use the answer of the stage it is at
    held,       \* held[r]: the answers it has, by stage
    tokenTries, \* attempts at Koddi's token
    ever,       \* ever[u]: every access u has had
    since,      \* since[r]: every access its user has had since it began
    spoilt      \* requests that were given a reply that was no success

pathVars == <<access, cache, phase, held, tokenTries, ever, since, spoilt>>
vars == <<rateVars, pathVars>>

Nothing == << >>

Stages == {"me", "access", "roles", "cpg", "agency", "token", "post", "search"}
User(r) == ContextUser(ask[r])

(* conditional_cache, and the cache of the roles, which no flag turns off. *)
Kept(stage) ==
    \/ stage = "roles"
    \/ stage \in {"me", "access", "cpg", "agency"} /\ flags.cache

(* Mutant of CacheKey: an entry for everybody.                             *)
SharedKey(r, stage) == IF stage \in {"cpg", "agency"} THEN <<ask[r].kind, ask[r].account>> ELSE <<stage>>

(* The key builders.  That of a list has the account of the request in it  *)
(* and not the account the list is of.                                     *)
CacheKey(r, stage) ==
    IF stage \in {"cpg", "agency"}
    THEN <<ask[r].kind, ask[r].account, User(r)>>
    ELSE <<stage, User(r)>>

(* External: what a service answers the token with.                        *)
Worth(r, stage) ==
    CASE stage = "me"     -> Profile[User(r)]
      [] stage = "access" -> access[User(r)]
      [] stage = "roles"  -> RolesOf[User(r)]
      [] stage = "cpg"    -> ask[r].account
      [] stage = "agency" -> held[r].access.agency
      [] OTHER -> None

(* What the caller of a stage makes of the reply.                          *)
OutcomeOf(stage, reply) ==
    CASE stage \in {"me", "access", "roles", "cpg", "agency"} -> HandledAnswer(reply, "json", TRUE)
      [] stage = "token" ->
            LET raw == HandledAnswer(reply, None, FALSE)
            IN  IF raw = Returned THEN TokenAnswer(reply) ELSE raw
      [] stage = "post" ->
            LET body == HandledAnswer(reply, "json", FALSE)
            IN  IF body = Returned /\ ~ reply.data THEN Http(500) ELSE body
      [] OTHER ->
            LET raw == HandledAnswer(reply, None, FALSE)
            IN  IF raw = Returned THEN HandlerAnswer(CampaignSearchHandler, reply) ELSE raw

Reply(code, json, data) == [code |-> code, json |-> json, data |-> data]
Well == Reply(200, TRUE, TRUE)
Replies == {Well, Reply(200, FALSE, FALSE), Reply(200, TRUE, FALSE), Reply(302, FALSE, FALSE),
            Reply(404, TRUE, FALSE), Reply(500, FALSE, FALSE), Reply(0, FALSE, FALSE)}
Refusal == Reply(401, TRUE, FALSE)

(* The token of the request goes with every call; one that is no user's is *)
(* refused.                                                                *)
Given(r) == IF User(r) \in Users THEN Replies ELSE {Refusal}

(* The replies a stage can do with: a token is any body, and a search that *)
(* finds nothing is answered 404.                                          *)
Fine(stage, reply) ==
    \/ reply = Well
    \/ stage = "token" /\ IsSuccess(reply.code)
    \/ stage = "search" /\ reply.code = 404

(* koddi_token_fetch_failed_503, ...                                       *)
TokenFailed(outcome) == outcome = Http(503)

(* ... and conditionally_retry around the fetch of Koddi's token.          *)
TokenRetried(r, outcome) ==
    /\ at[r] = "token" /\ flags.tokenRetry
    /\ TokenFailed(outcome) /\ tokenTries[r] < MaxTokenTries
-----------------------------------------------------------------------------
Stage(r, stage) == Goto(r, stage) /\ phase' = [phase EXCEPT ![r] = "call"]

(* Mutant of Cleared: the contexts stay.                                   *)
Uncleared(r) == phase' = [phase EXCEPT ![r] = "call"] /\ UNCHANGED <<held, since>>

(* The end of a request: its contexts are cleared.                         *)
Cleared(r) ==
    /\ phase' = [phase EXCEPT ![r] = "call"]
    /\ held' = [held EXCEPT ![r] = Nothing]
    /\ since' = [since EXCEPT ![r] = {}]

(* What a handler raises passes its decorators.                            *)
Raises(r, outcome) == IF ran[r] > 0 THEN RaisedInside(r, outcome) ELSE Answered(r, outcome)

End(r, outcome) ==
    /\ Raises(r, outcome) /\ Cleared(r)
    /\ UNCHANGED <<access, cache, tokenTries, ever, spoilt>>

rest == <<ask, flags, count, ttl, ran, alone>>

(* The middleware, and oauth2_scheme, which refuses a request without an   *)
(* Authorization header.                                                   *)
Begin(r) ==
    /\ at[r] = "idle"
    /\ UNCHANGED <<rest, faults>>
    /\ IF ask[r].header = "none"
       THEN End(r, Http(401))
       ELSE /\ Stage(r, "me")
            /\ since' = [since EXCEPT ![r] = IF User(r) \in Users THEN {access[User(r)]} ELSE {}]
            /\ UNCHANGED <<answer, seen, tries, pause, met,
                           access, cache, held, tokenTries, ever, spoilt>>

(* Without a name there is no key.                                         *)
KeyFails(r) ==
    /\ at[r] \in Stages /\ phase[r] = "call" /\ Kept(at[r]) /\ User(r) = None
    /\ End(r, Http(503))
    /\ UNCHANGED <<rest, faults>>

(* The answers so far, of a request or in the cache, and one more.         *)
Having(known, key, value) ==
    [k \in DOMAIN known \cup {key} |-> IF k = key THEN value ELSE known[k]]

(* An entry of the cache.                                                  *)
Look(r) ==
    /\ at[r] \in Stages /\ phase[r] = "call" /\ Kept(at[r]) /\ User(r) # None
    /\ CacheKey(r, at[r]) \in DOMAIN cache
    /\ held' = [held EXCEPT ![r] = Having(@, at[r], cache[CacheKey(r, at[r])])]
    /\ phase' = [phase EXCEPT ![r] = "use"]
    /\ UNCHANGED <<rateVars, access, cache, tokenTries, ever, since, spoilt>>

(* A call, when nothing is kept, or what was kept has lapsed or cannot be  *)
(* read.  The service may fail, and GET /me may answer with the profile of *)
(* another: the mismatch __user_identity_check is there for.               *)
Ask(r) ==
    /\ at[r] \in Stages /\ phase[r] = "call"
    /\ Kept(at[r]) => User(r) # None
    /\ \E reply \in Given(r), whose \in Users \cup {None} :
          LET mixed == whose # None
              fault == mixed \/ reply \notin {Well, Refusal}
              outcome == OutcomeOf(at[r], reply)
              again == TokenRetried(r, outcome)
          IN  /\ mixed => at[r] = "me" /\ reply = Well /\ whose # User(r)
              /\ faults' = faults + (IF fault THEN 1 ELSE 0)
              /\ faults' <= MaxFaults
              /\ spoilt' = IF again \/ Fine(at[r], reply) THEN spoilt ELSE spoilt \cup {r}
              /\ tokenTries' = [tokenTries EXCEPT ![r] = IF again THEN @ + 1 ELSE @]
              /\ UNCHANGED <<rest, access, cache, ever>>
              /\ CASE again -> UNCHANGED <<at, answer, seen, tries, pause, met, phase, held, since>>
                   [] ~ again /\ outcome = Returned ->
                        /\ held' = [held EXCEPT ![r] =
                                Having(@, at[r], IF mixed THEN Profile[whose] ELSE Worth(r, at[r]))]
                        /\ phase' = [phase EXCEPT ![r] = IF Kept(at[r]) THEN "keep" ELSE "use"]
                        /\ UNCHANGED <<at, answer, seen, tries, pause, met, since>>
                   [] OTHER ->
                        /\ Raises(r, outcome) /\ Cleared(r)

(* The answer is kept; a cache that cannot be written is passed over.      *)
Keep(r) ==
    /\ phase[r] = "keep"
    /\ cache' = Having(cache, CacheKey(r, at[r]), held[r][at[r]])
    /\ phase' = [phase EXCEPT ![r] = "use"]
    /\ UNCHANGED <<rateVars, access, held, tokenTries, ever, since, spoilt>>
-----------------------------------------------------------------------------
(* __api_user_check.                                                       *)
Consumer(me) == flags.consumers /\ me.consumer

(* __internal_user: with a flag, three addresses of the company will do.   *)
InternalUser(names) == flags.skipInternal /\ names \subseteq Colleagues

(* __user_identity_check: the token, the profile and the context must name *)
(* the same user.                                                          *)
IdentityCheck(r, me) ==
    LET names == {ParsedUsername(ask[r].token), me.name, User(r)}
    IN  CASE ~ flags.identity -> Returned
          [] flags.identity /\ None \in names -> Http(500)
          [] flags.identity /\ None \notin names ->
                IF InternalUser(names) \/ names = {me.name}
                THEN Returned ELSE Http(503)

Using(r, stage) == at[r] = stage /\ phase[r] = "use" /\ UNCHANGED <<rest, faults>>

(* Where one answer leads to the next call.                                *)
GoOn(r, stage) ==
    /\ Stage(r, stage)
    /\ UNCHANGED <<answer, seen, tries, pause, met,
                   access, cache, held, tokenTries, ever, since, spoilt>>

(* get_user.                                                               *)
UseMe(r) ==
    /\ Using(r, "me")
    /\ LET me == held[r].me
           checked == IF Consumer(me) THEN Returned ELSE IdentityCheck(r, me)
       IN  CASE checked # Returned -> End(r, checked)
             [] checked = Returned /\ (me.active \/ Consumer(me)) -> GoOn(r, "access")
             [] OTHER -> End(r, Http(401))

(* validate_user checks the same profile once more; then the body, and the *)
(* decorators of the endpoint.                                             *)
UseAccess(r) ==
    /\ Using(r, "access")
    /\ LET me == held[r].me
           checked == IF Consumer(me) THEN Returned ELSE IdentityCheck(r, me)
       IN  CASE checked # Returned -> End(r, checked)
             [] checked = Returned /\ ~ ask[r].valid -> End(r, Raise("RequestValidationError"))
             [] OTHER -> GoOn(r, IF Limited(r) THEN "get" ELSE "roles")

(* validate_account and validate_advertiser: the account, or the brand, of *)
(* the request.                                                            *)
Allowed(rights, account) == rights.internal \/ account \in rights.accounts

(* requires_all_roles, which is inside the limit when there is one, then   *)
(* the handler.                                                            *)
UseRoles(r) ==
    /\ Using(r, "roles")
    /\ IF Required \subseteq held[r].roles /\ Allowed(held[r].access, ask[r].account)
       THEN GoOn(r, IF Limited(r) THEN "search" ELSE "cpg")
       ELSE End(r, Http(403))

(* get_contacts_common and get_addresses_common: the account's list, and   *)
(* that of the agency a user works for.                                    *)
UseList(r) ==
    /\ Using(r, "cpg")
    /\ IF held[r].access.agency # None THEN GoOn(r, "agency") ELSE End(r, Returned)

UseAgencyList(r) == Using(r, "agency") /\ End(r, Returned)

(* Koddi's token, with which the report is asked for.                      *)
UseToken(r) == Using(r, "token") /\ GoOn(r, "post")

UseReport(r) == Using(r, "post") /\ End(r, Returned)

UseCampaigns(r) == Using(r, "search") /\ End(r, Returned)

(* External: a user loses the accounts they had.                           *)
Revoke(u) ==
    /\ access[u].accounts # {}
    /\ access' = [access EXCEPT ![u].accounts = {}]
    /\ ever' = [ever EXCEPT ![u] = @ \cup {access'[u]}]
    /\ since' = [r \in Requests |->
                    IF since[r] # {} /\ User(r) = u THEN since[r] \cup {access'[u]} ELSE since[r]]
    /\ UNCHANGED <<rateVars, cache, phase, held, tokenTries, spoilt>>
-----------------------------------------------------------------------------
Init ==
    /\ \E mix \in Mixes :
          /\ ask = mix.ask /\ flags = mix.flags /\ faults = mix.faults
          /\ count = [k \in Limits |-> mix.before.count]
          /\ ttl = [k \in Limits |-> mix.before.ttl]
          /\ at = [r \in Requests |-> IF ask[r].kind = "none" THEN "answered"
                                    ELSE IF r \in mix.waiting THEN "get" ELSE "idle"]
    /\ answer = [r \in Requests |-> 0]
    /\ seen = [r \in Requests |-> 0]
    /\ tries = [r \in Requests |-> 1]
    /\ pause = [r \in Requests |-> 0]
    /\ ran = [r \in Requests |-> 0]
    /\ met = {}
    /\ alone = [k \in Limits |-> 0]
    /\ access = AccessBefore
    /\ cache = Nothing
    /\ phase = [r \in Requests |-> "call"]
    /\ held = [r \in Requests |-> IF at[r] = "get"
                                  THEN [me |-> Profile[User(r)], access |-> AccessBefore[User(r)]]
                                  ELSE Nothing]
    /\ tokenTries = [r \in Requests |-> 1]
    /\ ever = [u \in Users |-> {AccessBefore[u]}]
    /\ since = [r \in Requests |-> IF at[r] = "get" THEN {AccessBefore[User(r)]} ELSE {}]
    /\ spoilt = {}

Limiting(r) ==
    \/ Unlimited(r) \/ LimitGet(r) \/ LimitOpen(r) \/ LimitTtl(r) \/ LimitRepair(r)
    \/ LimitTrim(r) \/ LimitPass(r) \/ LimitRefuse(r) \/ Again(r) \/ LimitFails(r)

(* A request that is refused or fails in the limiter is cleared too.       *)
LimitStep(r) ==
    /\ Limiting(r)
    /\ IF at'[r] = "answered" THEN Cleared(r) ELSE UNCHANGED <<phase, held, since>>
    /\ UNCHANGED <<access, cache, tokenTries, ever, spoilt>>

PathStep(r) ==
    \/ Begin(r) \/ KeyFails(r) \/ Look(r) \/ Ask(r) \/ Keep(r)
    \/ UseMe(r) \/ UseAccess(r) \/ UseRoles(r) \/ UseList(r) \/ UseAgencyList(r)
    \/ UseToken(r) \/ UseReport(r) \/ UseCampaigns(r)

TimePasses == Tick /\ UNCHANGED pathVars

Next ==
    \/ \E r \in Requests : LimitStep(r) \/ PathStep(r)
    \/ \E u \in Revocable : Revoke(u)
    \/ TimePasses

(* The event loop runs what is ready, and time passes.                     *)
Spec == Init /\ [][Next]_vars /\ WF_vars(Next)
-----------------------------------------------------------------------------
AtValues == {"idle", "paused", "answered"} \cup Counting \cup Stages
Statuses == {0, 200, 400, 401, 403, 404, 429, 500, 503, 504}

(* Type invariant.                                                         *)
RequestTypeOK ==
    /\ at \in [Requests -> AtValues]
    /\ answer \in [Requests -> Statuses]
    /\ faults \in 0 .. MaxFaults
    /\ \A k \in Limits : count[k] \in Nat /\ ttl[k] \in Lives
    /\ \A r \in Requests : /\ tries[r] \in 1 .. MaxAttempts
                           /\ pause[r] \in 0 .. Pause
                           /\ phase[r] \in {"call", "keep", "use"}
                           /\ DOMAIN held[r] \subseteq Stages
                           /\ (answer[r] # 0) <=> (at[r] = "answered" /\ ask[r].kind # "none")
                           /\ at[r] \in {"idle", "answered"} => held[r] = Nothing /\ since[r] = {}

(* A window lets no more requests in than the limit, apart from those that *)
(* were between the GET and the INCR together: whatever the key went       *)
(* through between two commands, its count never falls behind what the     *)
(* window has let in, unless it is divided.  [cid_rate_limited.py:31]      *)
WindowHolds == \A k \in Limits : alone[k] <= Limit

(* While a client has few enough requests under way, one that waits for    *)
(* the limit gets in before its attempts are over, even when the key was   *)
(* left without an end or with a life that is too long: nobody is shut out *)
(* for good.  [cid_rate_limited.py:41, backoff_wait_rate_limited.py:35]    *)
WaitersGetIn ==
    \A r \in Requests :
        (at[r] = "get" /\ flags.limit /\ flags.backoff) ~> (ran[r] > 0 \/ answer[r] = 500)

(* A request past validate_user is of the user of its token, by the        *)
(* profile too unless the check of it is off, or the user is an API        *)
(* consumer or the company's own, ...                                      *)
OwnProfile(r) ==
    /\ User(r) \in Users
    /\ \/ ~ flags.identity
       \/ held[r].me = Profile[User(r)]
       \/ Consumer(held[r].me)
       \/ flags.skipInternal /\ {User(r), held[r].me.name} \subseteq Colleagues

(* ... with rights and roles that user has had, and without the cache has  *)
(* had since the request began, ...                                        *)
OwnRights(r) ==
    /\ held[r].access \in ever[User(r)]
    /\ ~ flags.cache => held[r].access \in since[r]
    /\ at[r] \in {"cpg", "agency", "search"} =>
          Required \subseteq RolesOf[User(r)] /\ Allowed(held[r].access, ask[r].account)

(* ... and its lists are those of its account, which the cache of a user   *)
(* who works for an agency does not tell from the agency's.                *)
OwnLists(r) ==
    \/ flags.cache /\ held[r].access.agency # None
    \/ /\ "cpg" \in DOMAIN held[r] => held[r].cpg = ask[r].account
       /\ "agency" \in DOMAIN held[r] => held[r].agency = held[r].access.agency

(* Nobody is served on what the service said of another: neither through   *)
(* the cache nor through an answer that was mixed up.                      *)
(* [jwt.py:149, key_builders.py:171, requires_all_roles.py:39]             *)
EntitledOnly ==
    \A r \in Requests :
        at[r] \in Counting \cup {"paused"} \cup (Stages \ {"me", "access"}) =>
            OwnProfile(r) /\ OwnRights(r) /\ OwnLists(r)

(* A handler under the retry runs once, whatever it raises; a request told *)
(* to come back later has not run; and one that is told 200 was given      *)
(* nothing but good replies, an attempt for Koddi's token and an empty     *)
(* search apart.  [backoff_wait_rate_limited.py:41, http_response.py:48]   *)
RunsOnce ==
    \A r \in Requests :
        /\ ran[r] <= 1
        /\ answer[r] = 429 => ran[r] = 0
        /\ answer[r] = 200 => r \notin spoilt /\ (Limited(r) => ran[r] = 1)
=============================================================================
