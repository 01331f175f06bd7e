# A TLA+ model of the Kroger Ad Platform API

The API is a FastAPI service in front of half a dozen upstream services. It has
no database: what outlives a request is in those services (campaigns,
activations, bids, keyword groups) and in Redis (the short ids its clients see,
the look-ups between ids, locks, rate-limit counters). Several workers run it.
What is hard about it is therefore not in one function but between two calls
of two requests, and that is what the modules here are about.

## 1. The system

| part | state | operations | how it interacts |
|---|---|---|---|
| Redis client `common/database/async_client.py` | keys `<entity>:id` (counter), `<entity>:<key>` | get, mget, set, mset, `assign_numeric_id[_batch]` | every service below; each command atomic, sequences of them not |
| Look-ups `common/services/lookup_service.py` | long id ↔ short id ↔ details, Koddi ids | ~60 readers and writers | the only user of the Redis client's keys |
| Accounts `account_service.py` | the two account keys | list, get-or-create, look up by short id | called by campaigns, metadata |
| Products, bids `product_service.py`, `bid_manager_service.py` | id and details keys of UPCs; bid groups upstream | list a page, bind bids to ids, make bids of ids, merge, validate | called by ad groups, metadata |
| Keywords `keyword_service.py` | keyword groups upstream | merge, validate, create | called by ad groups |
| Locks `decorators/harness_locked.py`, `decorators/locked.py` | one key per entity | around the handlers that update one ad group or campaign, around Koddi advertisers and the configuration | flag service decides whether and with which lease |
| Ad groups `v2/services/ad_group_service.py`, `gateways/activation_gateway.py` | activations upstream | create; PUT; PATCH and POST of entities; PATCH of keywords; publish | inside the lock; reads, patches, acts and publishes in separate calls |
| Campaigns `v2/services/campaign.py`, `campaign_validator.py`, `campaign_translations.py`, `workflow_gateway.py` | campaigns upstream, look-ups | create, update, pause, unpause, list | under its own lock; writes budget types into ad groups; ad groups are created in it without the lock |
| Targets and divisions `target_translation.py`, `division_service.py` | division ids and details in Redis, location groups upstream | translate to an activation and back | called by the creation and the reads of ad groups |
| Addresses, contacts, advertisers, placements | ids and details in Redis | get-or-create of a list | read again by campaigns and reports under the short ids |
| Koddi advertisers `koddi_sso_gateway.py` | advertisers at Koddi, their ids in Redis | get-or-create under a lock | called by reports and campaigns |
| Reports `report_service.py`, `report_translation.py` | look-ups in Redis | query Koddi, translate ids both ways | reads and writes the Koddi look-ups |
| Rate limit `cid_rate_limited.py`, `backoff_wait_rate_limited.py`; retries `decorators.py` | a counter with a TTL per client and handler | get in, be refused, wait and try again | around the handlers of reports and of the list of campaigns |
| Users `token_tools.py`, `jwt.py`, `requires_all_roles.py`, middleware, response cache `key_builders.py` | context variables of a request; answers of the enterprise client service in the cache | user of a token, rights, roles | before every handler |
| HTTP clients `async_http_client_service.py`, `http_response.py`, `response_handler.py`, `exceptions.py` | none | a reply becomes a value or an exception, an exception a status | under everything |

What makes each part correct, and what is hard about it:

* **ids**: an id names one thing for ever, although drawing a range is two
  commands, storing it a third, and a request may die between any of them; an
  id a client was given can be used; what is stored under it stays the details
  of the thing it was given for.
* **lock**: one handler at a time, although commands time out after they took
  effect, leases run out and workers die; a lock that was lost is noticed.
* **ad groups**: what a handler read is still true when it patches, chooses an
  action and publishes, several calls later; nothing is published that must
  not be; what the client asked for happened when it is told so.
* **campaigns and creation**: a chain of upstream calls, any of which may fail,
  leaves a campaign and its ad groups in agreement, and a success means that
  what was asked for reads back.
* **reports**: a report is asked for all the campaigns named and no others, and
  its rows go under the ids of the things they are about, although the look-ups
  are filled by other requests, in any order, and only in part.
* **requests**: nobody is served on another's rights; a window holds and does
  not shut a client out; what ran once does not run again.

The full list of hazards, at their lines, is in `PROJECT.json`.

## 2. The modules

```
IdRegister (abstract)             ExclusiveSection (abstract)
     ▲ refinement                        ▲ refinement
NumericIds ── ProductIds            EntityLock ── AdGroups
     │    └── AccountIds                 └── EntityLock_proofs
     └── NumericIds_proofs                      └── AdGroups_proofs
           ├── ProductIds_proofs
           └── AccountIds_proofs

CampaignPayloads ── Campaigns ──┐     Lookups ── Directory ── Reports ── Reports_proofs
     AdGroupTargets ────────────┴── AdGroupCreation ── AdGroupCreation_proofs

Identity ──────┐
HttpAnswers ───┴── RateLimit ── RequestPath
                                     └── RequestPath_proofs
```

A module of proofs extends the module it is about and the proofs it cites.

**NumericIds.** `assign_numeric_id` and `assign_numeric_id_batch`, one action per
Redis command: `Incr`/`IncrOne`, `IncrBy`, `Store` (SET or MSET), `Return`, and
`Lost` for a timeout or a death before any of them. `counter` and `short` are
the Redis keys, `pc`, `keys`, `first`, `last` the local variables of each call.
`overlap` is a history variable: which calls drew between the INCR and the
INCRBY of another. It is what the property on shared ids is stated with,
because in the code ids *are* shared then.

**IdRegister** is what the numbering promises while no two batches draw at once
(`Serial`): a call is given new ids for its keys in one step, above all given
before, and enters them in the book. `Register` in NumericIds is the refinement
mapping: a call's ids are given when it has drawn its range (`Given`), and the
book is `short`. With overlapping batches it does not hold; that the rest of
the interleavings, and deaths anywhere, are no exception is what is checked and
proved.

**ProductIds** extends it with the two requests that fill the product cache
(`page`: `__get_cached_product_ids_batch`; `bind`: `bind_bids_to_entity_ids`
with `bind_missing_entity_ids` and `bind_missing_products`) and the one that
uses it (`CreateBids`: `build_pla_create_bids_request_from_entities`). Each
request has one call of NumericIds, started by `AssignMissing`.

**AccountIds** extends it with the listing of accounts (`parse_accounts_data`,
`__save_uncached_accounts`), `get_or_create_cached_account_id` and
`get_account_by_numeric_id`.

**ExclusiveSection** states what the decorator `locked` promises: a section for
one handler with an unexpired lease, in which a handler that lost its lease
cannot end in success.

**EntityLock** is the decorator with the Redis lock of redis-py it uses (from
how the code uses it; its release script and its LockNotOwnedError are the
library's): the flag (`FetchFlag`), SET NX PX (`Acquire`, `AcquireFails` for the
503/504 whose SET may have taken effect), the handler (`Finish`), the release
script (`Release`, with the uncaught LockNotOwnedError; `ReleaseFails`), `Crash`
and `Expire`. `Section` is the refinement mapping: in the section are the
requests that found the flag on and are inside or about to release; lapsed are
those that were inside when their key expired.

**AdGroups** extends EntityLock with what the handlers do inside: `Read`,
`CheckUnlocked`, `Patch`, `Act`, `DecidePublication`, `Publish`, `Settled`, one
action per upstream call or decision, and `Fail` for an error of any of them.
The activation is `setting` (per field, the request whose value it has),
`content` (the members of the entity and keyword groups it refers to: the
groups are immutable upstream), `status`, `approved`, `faulty` (warnings or
errors) and `locked`. What the handler keeps between calls is `seen` and
`reply`. `Advance` and `PublicationEnds` are the activation service on its own.
`disturbed` and `published` are history: which requests had company inside,
and what was wrong with what was published. Items in `Unfit` are entities
without product details in the cache and keywords that are not eligible; every
new group leaves them out.

**CampaignPayloads** is what the requests on campaigns compute: dates, budget
types (CUSTOM upstream is LIFETIME in the API), who pays, the payload of a patch.
**Campaigns** makes the calls: `create` (start, patch, contacts and addresses,
workflow, read) and `put` (read, check, patch, read again, a loop over the ad
groups, publish, read), with the way a pause or unpause takes instead. The lock
is ExclusiveSection's, one for each campaign (its name has the id in it), so that
EntityLock need not be run inside. `c...` are
the campaigns of the campaign service, `ag...` the ad groups of the activation
service; `seen`, `todo`, `updated` are a handler's local variables; `disturbed`,
`overran`, `torn`, `shortened`, `mistakes` are history. **AdGroupTargets** takes
targets to an activation and back, and **AdGroupCreation** adds `create_ad_group`
and the divisions it needs: the next-state relation of both and their properties
are there.

**Lookups** has the keys of Redis as LookupService builds them, types and compound
keys included, over one partial function. **Directory** is the get-or-create of
contacts, addresses, advertisers and placements and of the advertisers of Koddi
under their lock. **Reports** adds POST /report: brands to Koddi advertisers, the
filter's campaigns to Koddi's, the call, and the rows back, each look-up and
each write of one a step. A filter and rows name campaigns; an `Upstream` entity
has its long, short and Koddi id, and some of them coincide, because their
keys do.

**Identity** is who a token is from. **HttpAnswers** says what a reply becomes
and what status an exception is answered with. **RateLimit** is
`cid_rate_limited` command by command (GET, SET, TTL, the repairs, INCR) inside
`backoff_wait_rate_limited`. **RequestPath** runs requests: the middleware's contexts,
`get_user`, `validate_user`, the limit or the roles, the calls of the handler
(a list of an account and of the agency, Koddi's token and the report, the
search of campaigns), with the response cache before the calls that have it and
any reply a service may give: malformed, 302, 404, 500, none, or the profile of
another user. `ever`, `since` and `spoilt` are history.

Abstractions common to all: an upstream call or a Redis command happens at
once or not at all, and what a dead worker had sent has arrived or never does;
values are opaque; lookups that only read are left out; definitions headed
"Mutant of ..." are deliberate bugs that show that a property can fail, and
are used by no specification.

## 3. What is checked

| run | bounds | what it shows |
|---|---|---|
| product_ids | 3 requests of 2 UPCs, at most two at a time | an unshared id names the product it was shown for, ids that were answered resolve, bids go on the selected product, with failures everywhere |
| product_ids_bound (violated) | same | the docstring of `bind_bids_to_entity_ids` does not hold for ids that two batches share |
| account_ids | 3 requests, 3 accounts, lists of 1 to 3 | the counter is ahead of every id in use; ids are shared only by calls whose INCR and INCRBY interleave, and without such calls the numbering is a register; a stored id is backed by a reserved range; an unshared id leads to its own account or to 404; an id assigned by a listing always resolves |
| account_ids_listed (violated) | same | a listed id may be answered with 404 for good |
| entity_lock | 3 requests, both kinds of flag | the lock implements ExclusiveSection; waiting ends when leases expire |
| ad_groups | 2 requests of 9 kinds, 3 items, 1 unfit, until both have had company | no lost update, the right action, approved publications, no patch into a publication, POST only into an empty ad group, for requests without company; with the lock on and no lease run out nobody has company |
| ad_groups_keywords (violated) | as ad_groups | deleting the last keywords is answered as a success and does nothing |
| ad_groups_faulty (violated) | as ad_groups | pause and unpause publish an ad group with warnings |
| campaigns | 2 requests of 6 kinds (creations, PUTs), 2 campaigns, 1 ad group | each campaign has an exclusive section of its own, what a success says was asked for is there, publications are proper when they are made |
| ad_group_creation | 2 requests of 5 kinds (PUTs, creations of ad groups), 2 campaigns, 2 ad groups | a new budget type reaches every ad group, no ad group outlives its campaign, a new ad group reads back with its targets |
| reports | 12 mixes of up to 3 requests, 2 accounts, 2 brands, 3 campaigns, 1 ad group; any call may fail | details under a short id are those of its owner, accounts are not lost, one advertiser per brand and agency, a filter is covered and rows go under their own ids |
| requests | 15 mixes of up to 3 requests, 5 users, limit 2, one fault | nobody served on another's rights; at most 2 in a window but for those that read the count together; who waits gets in; a handler runs once |

Why the bounds are enough to be interesting: three calls are needed for two
interleaved batches and a third that comes after; lists of two show a shifted
zip, lists of three with two orders the middle of a range. Two accounts
and two products make "another's"; two pages or bindings run at a time; a third finds what
they left. Three requests let one overrun, one follow and
one be harmed by the release of the first. Two requests inside one ad group
show every pair of handlers, and the second finds what the first left; three
items are needed for one that stays, one that goes and an unfit one. Once both have had
company the run of `ad_groups` goes no further, because its properties are
about a request that had none, and company is never forgotten.
Requests run once, so no counter grows; when all are over only `Finished`
stutters, and deadlock is checked everywhere. In `MCAdGroups` an ad group is a
draft or paused at the start (the other statuses are reached) and leases
expire. Symmetry is over requests, campaigns
and ad groups, which nothing distinguishes; the run with
liveness uses none.

In `campaigns` two requests, one after the other or interleaved, show a creation
and the update of what it created, and two updates; its one ad group is the
fewest that a status of ACTIVE needs, the loop over several is
`ad_group_creation`'s, with a creation of an ad group beside an update of its
campaign. Two dates tell apart what an end date moves past. In `reports` the mixes are the requests that share keys: the third request
of a mix finds what two that interleaved left. The Koddi id of one campaign is
the short id of another. In `requests` a tick is half a minute: a key lives 2
ticks, is repaired to 2 (35 to 57 s) or shed to 1 (5 to 23 s) or trimmed to 1 or
2 (15 to 45 s); a pause of 15 s is rounded up to 1, and `MaxAttempts = 8` ticks is
the time 15 attempts of 15 s take. Three requests at a limit of two are the
fewest of which one must wait; starting them at the limiter rather than at
their tokens is what keeps the run small, and other mixes go all the way. In the
mixes about the limit, a request that was let in goes through its handler before
anything else happens (`LetIn`): the limiter looks at it no more.
Mixes marked `Faultless` have had their fault before.

What the properties leave out, because the code does not keep it: requests that
had company or overran a lease where no lock protects them (`disturbed`,
`overran`), a PUT that failed between its patch and the end of its loop over the
ad groups (`torn`: the next PUT finds the type changed already and repairs
nothing, `campaign.py:607`), end dates moved below those of the ad groups
(`shortened`; `campaign_validator.py:77` compares only when there is no end
date), campaigns whose short id is another's Koddi id (`Confused`: both look-ups
use the key `CAMPAIGN:KODDI:<number>`, `lookup_service.py:533`), contacts whose
listings met (`met`: `contact_service.py:106` reads, extends and writes back),
attempts that were at a key of the limit together (`alone` counts the others),
and, with the response cache on, the lists of a user who works for an agency
(`key_builders.py:86` has no account in the key, so the second list of a request is
the first). Each is stated in the comment of the property it is taken out of.

**Fairness.** `entity_lock` has `WaitingEnds`. It assumes
that Redis drops expired keys (`WF(Expire)`) and that a waiting request goes on
polling (`blocking=True` and no `blocking_timeout` in `harness_locked.py:34`;
`WF(Acquire)`). It does *not* assume that a handler ever finishes, since
upstream calls have no timeout (`async_http_client_service.py:36`). Requests
are finitely many in the model: under an endless stream of others a request
that polls may starve, and nothing in the code prevents that. Without
`expire` in the flag the property is not claimed: nobody deletes the lock of a
dead worker.

`requests` has `WaitersGetIn`, under `WF(Next)` (of `MCNext`, which lets those go first
that were let in) alone: the event loop runs some
coroutine that is ready or time passes. Fairness towards one request is not
needed, since requests are finitely many and each ends. The property says that
a request at the limit gets in, unless Redis fails under it. It needs the
attempts to span the lives a key can have one after the other: a count that was
read before its key expired and written back afterwards
(`cid_rate_limited.py:54`) delays a waiting request by one more life, and with
too few attempts it is refused although nobody is inside.

## 4. What is proved

For every set of calls, keys and lists (`NumericIds_proofs`): type correctness,
`IdsBelowCounter`, `SerialCallsDisjoint` and `StoredIdsAreOwned`. The inductive
invariant `AssignInv` adds what each phase of a call knows (`CallShape`: its
first id and its range are at most the counter) and, for two calls that have
drawn, that the earlier one's range ends below the later one's first id or
the later one is in its overlap (`Apart`): INCRBY adds exactly the rest of the
range to a counter that may have moved, so a range ends at most at the counter,
and only a draw in between can fall inside it. `SerialCallsDisjoint` is not
inductive without it. The only assumption is `RequestsAssumption`: lists are
not empty and have no duplicates.

From the same invariant the refinement of IdRegister, as far as the code goes:
a step after which still no call has drawn into another is `Give`, `Enter` or
a stutter (`SerialStep`), so `SerialIsRegister` holds, calls that are never drawn
into implement the register (`AssignSpec /\ []Serial => Register!RegisterSpec`),
and until then no two keys lead to one short id. A call may be lost at any
point: one that is lost after its draw was given ids it never enters. What
makes `Give` true is that the range of a call ends at the counter
(`CallShape`) and that what others were given is not above it, and that a call that was
not drawn into has a range nobody else has (`SerialShareNothing`).

The two findings about ids are thereby accounted for. The requests on products and
accounts keep registers as well, and while `Serial` is true
`bind_bids_to_entity_ids` does what it says of itself and no bid goes on another
product (`SerialBidsAreBound`), and the short id of an account leads to it or to
404 (`SerialAccountsAreNamed`): interleaved batches are the only cause of finding 1.
And where only listings run, and none fails, every listed id resolves, also where
they interleave (`ListingsAloneResolve`, with the invariant `KeptIds`): that
`get_or_create_cached_account_id` stores one direction is the only cause of finding 2.

For every set of requests (`EntityLock_proofs`): type correctness, `Exclusive`,
that nobody overruns without `expire`, and the refinement
`LockSpec => Section!SectionSpec`. The invariant `LockInv` adds that a request
in the section holds the key unless it was noted when the key expired
(`KeyOwned`); from it, Acquire maps to Enter (the key was absent, so all inside
have lapsed), Expire to Lapse, Release, ReleaseFails and the death of a worker
inside to Leave, and every other step to a stutter. The assumption is
`NoOneAssumption`.

For any requests on accounts, any accounts and listings (`AccountIds_proofs`), and
for any pages and bindings of UPCs (`ProductIds_proofs`): `AccountSpec` and
`ProductSpec` imply `AssignSpec`, since a request makes the calls of one batch and
otherwise leaves the counter and the ids alone; so the theorems on the batches
are theorems on the requests. From them all properties of the two modules:
`AccountIdNamesItsAccount`, `FreshlyListedIdResolves`, `GrantedIdNamesItsProduct`,
`GrantedIdResolves`, `BidsOnSelectedProduct`, and the types (those of AccountIds,
`AccountTypeCorrect`, are proved and in no run). The invariants
`AccountInv` and `ProductInv` say of every place an id is kept (in a request, on the
way back, over details, in a bid) that it was drawn *for* the key it is kept
with (`DrawnFor`: some call reserved it for that key), and of every stage of a
request which keys it has an id for and what it has saved. Nothing is said there
of ids two batches share; that comes at the end: an id that is not shared has one
owner, so one key, so what is kept with it can only be that key's. An id that a
binding leaves in place has details since before its read, and details are
never dropped (the code stores them without a life). The assumptions are
`RequestsAssumption`, `ListingsAssumption` and `PagesAssumption` (what is listed or
paged are keys) and `NotFoundAssumption` (404 is no key). Where a page has a UPC
twice, the last one wins, as in the dict the code builds; that there is a last one
is a lemma, from the well-foundedness of `<` (`GreatestIndex`).

For any ad group and requests (`AdGroups_proofs`): `AdGroupSpec => LockSpec`, since
each action of a handler either ends with Finish or leaves the lock's variables
alone; hence `Exclusive` for ad groups and the refinement of ExclusiveSection
(`AdGroupsImplementSection`), and from it `LockKeepsCompanyOut`: that
all requests are guarded and none has expired can only become false, and while
it is true everybody inside is in the lock's section, which holds one. This
is the premise of the other properties of AdGroups, which are about requests
without company, and which are proved as well, for any number of other requests:
`NoLostUpdate`, `NoPatchIntoPublication` and `PostFillsEmpty` (of steps),
`StatusIsHonoured` and `PublishedWasApproved`. The inductive invariant is
`AdGroupInv`. Its core, `CompanyInv`, says that of two requests inside both are
noted, so one that is not is the only one, and the steps of anybody else cannot
touch what it has read (`OnlyOneAlone`). `OwnOf` then says per step what is still
so of what it read: to the patch, the fields and groups it read are the ad
group's and it is not locked; to the action, a paused ad group was paused in the
reply too, so the action chosen is the right one; to the publication, what was
approved in the reply is approved. The service may end the ad group or pass its review
on its own at any time, and the invariant allows for it. The assumptions are
`NoOneAssumption`, `UnfitAssumption` and `RequestsAssumption` (the requests have the
shape the endpoints accept; the campaign's is on the budget type).

For any requests on campaigns and ad groups, any number of handlers, campaigns, ad
groups and divisions (`AdGroupCreation_proofs`): all eight properties of
AdGroupCreation. The inductive invariant `CreationInv` has three layers, by what
they rest on. Without any condition: the types, where a request is and what it is
about (`PlaceOf`), that what it has read is of the kinds upstream has (`ReadOf`), that
no two requests made one campaign and no two inside with their leases have one
campaign (`Apart`), and what a creation left upstream as long as nobody else patched
its campaign (`MadeOf`; `cWriter` is who did last). This is `CreatedReadsBack`, and it
is why the lock is not needed there: nobody knows of a campaign that is being made.
While no lease ran out (`PatchedOf`): from the patch of a PUT to its answer its end
date, status and budget type are the campaign's, past the check of the ad groups
there is one (ad groups do not go away), past that of the validations there are none;
no other step can undo these, because PUTs on the campaign are out and the other
requests do not patch it. This is `PutIsDone` and `PublishedProperly`. While no requests
met: what a request has read of its campaign is still so (`ViewOf`), an ad group has
the budget type of its campaign or somebody is about to give it (`BudgetOf`,
`Behind`), and ends within it (`EndOf`). `BudgetTypeSpreads` is not inductive without the
loop in it: after the read of the campaign every ad group with the old type is of it,
and in the loop every one is among those left. `GroupReadsBack` needs, per step,
which divisions its location group has (`TargetsKept`), and a lemma about the
operators: what `FetchTargets`, `LocationGroup` and `TargetData` make of the targets
comes back from `TargetsFromActivation` (`TargetsComeBack`). `CampaignsHaveSections`
is the lock of one campaign as a step of ExclusiveSection, and from it follows the
refinement: for each campaign, `CreationSpec => SectionOf(c)!SectionSpec`. The
assumptions are `NoOneAssumption`, `RequestsAssumption` (the shapes the endpoints accept:
a creation has a budget type and makes a draft) and `TargetsAssumption` (a target
has the form of its type).

For any users, rights, flags and requests (also `RequestPath_proofs`): `EntitledOnly`. It
is about what a request *has*, and what it has may come from the cache, where
somebody else put it. `EntitledInv` therefore says of both, whose they are
(`Due`): an access is one its user has had, roles are the user's, a list is the
account's, unless the user works for an agency; only a profile may be anybody's,
because the service may mix it up before anyone checks. Two requests with one key
are of one user, and for lists of one account (`OneKeyOneOwner`), so what one put
there is due to the other. To this comes that a request past a check has what
the check looked at (`PassedOf`), that accesses are only taken away and remembered
(`AccessInv`), and that without the cache an access is one the user had while the
request ran. With the identity check off by its flag, a request may go on with
another's profile, which is taken out; its rights are still its own user's. The
assumptions are `UsersAssumption` (every user has an access, of one agency or none;
no profile names another user; only users are revoked) and `MixesAssumption`.

For any clients, users, limits, lives of a key and requests
(`RequestPath_proofs`): `WindowHolds`, `RunsOnce` and `RequestTypeOK`. First, what a
stage makes of any of the modelled replies is `Safe`: never taken for a refusal of
the limit, and 200 only for a reply the stage can do with (`OutcomesAreSafe`).
From it every step of the path stays, goes on to the next stage or ends
(`PathSteps`), and the three invariants need only these kinds. `WindowInv` is what
`WindowHolds` needs to be inductive: what the window has let in is at most the
count in Redis *and* the count every request between GET and INCR has read, of
which one that met no other is the only one. So whether that request finds the
key, repairs it or makes it again, what it writes is not behind. `RunsInv` says for
each stage whether the handler has been entered; `HeldInv` and `AnswerInv` are the
rest of the types. What a client is told is proved beyond the modelled replies, for
every code and body: `UpstreamRepliesAreTold` (200 only for a whole body, a refusal
as it is, 503 for trouble upstream, 504 for no reply, and no other code of an
upstream from 500 on), and `SearchHandlersAreOrdered` (which of the handlers of the
campaign search a code gets, the first that fits: 404 is the one refusal that
does not reach the client). The assumptions are `LimitAssumption` (lives, shares and
attempts are positive) and `MixesAssumption` (the requests are of known clients).

For any requests, lists and things upstream (`Reports_proofs`): all six properties of
Directory and Reports, and one that no run has, `DetailsAreForGood`: the details a
short id once has are of the same thing for good, whatever is listed again, written
half-way or fails (a write only adds keys, `KeysStay`, and puts under a key what
`Names` allows there). First
`DetailsNameTheirEntity` and `OneAdvertiserEach`, under all the interleavings, failures and look-ups of the
directory and of the reports. The invariant `DirectoryInv` says `Names(t, i, x)`
(id i of type t was given to x) of every way there is: from a long id in Redis to
its short id, from a short id to its details, and from each thing of a request's
list to the id the request holds for it, read or assigned. That an id is never
given twice makes these the same at any later step (`NamesStay`), so what a
request has read may be old but not wrong. For the rest the invariant follows
each kind of request through its calls (`WorkOf`): past its assignments a request
has an id for every thing of its list, at a placement the ones left are of the
fixed list, and so on. What is written is one lemma (`RedisGains`); what a request
goes on with another (`GoOnKeeps`, `EndKeeps`, `WorkKeeps`). The assumptions are
`ListsAssumption` (long ids are no numbers, and neither accounts' ids nor
placements' names, all of which share keys with them) and `MixesAssumption`. Lists
are cut down with `Sift`, whose definition picks the places in order; that there
is such a list of places is a lemma, from the well-foundedness of `<`
(`PlacesExist`), and with it what the result contains (`SiftProps`).

`OneAdvertiserEach` needs a second invariant, `KoddiInv`: an advertiser a request
holds or Redis keeps fits the brands and agency it is kept for; between its
look-up and its creation a request has met the creator of every advertiser that
would fit (`KoddiOf`), because the look-up saw those there were, and whoever
creates one since is still running, and running requests have met (`MetInv`). So
a creation that makes a second one like it adds a pair that has met (`TwinsMet`).
The lock is in none of this: it orders the creations and prevents none. Its
assumption is `KoddiAssumption` (no two advertisers alike before the requests).

`RowsNameTheirOwn` and `FilterCovers` rest on a third, `RowsInv`. A report finds the
short id of a row in two look-ups, Koddi id to long id and long id to short id, fetches
what is missing and keeps it in two writes; other requests write the same keys in
between, and any of them may stop after the first. The invariant says what a key may
lead to (`Leads`), whoever wrote it: under `CAMPAIGN:KODDI:<number>` the long id of the
campaign with that Koddi id *or* the Koddi id of the campaign with that short id, and
under `CAMPAIGN` likewise. So what the first look-up of a campaign found may be a Koddi id
and not a long id; the second look-up then finds nothing, or a long id, which is no
number and ends the report (`ShortRead`). `RowsOf` follows what a report has
through its calls: after the reads each short id is the row's own or none, after the
fetch (`Filled`) it is its own. `ScopeOf` says that the short ids an advertiser of Koddi
is asked for are of its brands, on the strength of `DirectoryInv` and `KoddiInv`, and
`FilterOf` that the filter has the Koddi ids of the campaigns named but for those still
to be looked for; a search that finds as many as were missing has found all of them
(`AsManyAsListed`, from cardinalities). A confused campaign breaks `FilterOf` alone. The
assumption is `EntitiesAssumption`: short ids and Koddi's are numbers, long ids are not,
and no two campaigns, or ad groups, share one. `ReportTypeOK` needs of the three
invariants the types, and that a lock on a creation is its creator's (`TypeInv`).

`AccountsAreKept` is about a write that replaces what others may have written: whoever
lists contacts reads their details, adds its account and writes them back. The
invariant `KeepInv` says, for every contact that a request which met no other has seen
to (`IsDue`), that Redis leads over its short id to details that name the account (`Kept`), *and*
that everybody who works on the contact at the moment has read as much (`Heeds`): its
short id before the ids are assigned, or it would be given a new one and the details
under the old one be out of reach, and the details before they are saved, or they would be
written without the account. What makes it hold at the step that saves is that the
request was alone: whoever runs with it would have met it (`AloneApart`, from
`MetInv`), so nobody else has read anything older (`NobodyElse`). And when others start
later, what they read has the account in it. That the details belong to the contact, so that
no other contact's are written over them, is `DirectoryInv`. Two clauses of
`ListsAssumption` are for this: where there is no agency there are no contacts of it, and
`None` is no record.

Only model-checked: `WaitingEnds` and `WaitersGetIn` (liveness under fairness, out of the
prover's reach). Every other property of a passing run is a theorem. The violated
properties are TLC's by nature. What the operators that build payloads and headers
compute is evaluated by TLC on the runs; about those of the look-ups, the location groups
and the request path there are lemmas.

## 5. Disagreements met

1. Interleaved batches (`product_ids_bound`): `assign_numeric_id_batch` draws with
   two commands, so two products may get one id, and the details under it are
   the last writer's, whatever `bind_bids_to_entity_ids` says of itself.
2. Ids without a way back (`account_ids_listed`): `get_or_create_cached_account_id`
   stores only one direction, and the listing repairs it only for ids it
   assigned itself.
3. The last keyword (`ad_groups_keywords`): `update_keywords` returns None, which
   `exclude_none` turns into "no change". Entities send `[]` in the same case.
4. Warnings dropped (`ad_groups_faulty`): the reply of approve, pause and unpause
   is wrapped without warnings and errors, and the publication that follows
   looks at that.

Other behaviour the models show, for which no text of the repository says
otherwise and which therefore is in no violated run:

* a division whose id was stored and whose details were not is left out of every
  later answer (`division_service.py:86`); no one writes the details again;
* `create_ad_group` leaves the bid group, the keywords and the location group
  upstream when a later call fails, and its new short id is not in the cache, so
  the read that follows may answer 404;
* a PUT that omits `endDate` removes the end date, of a lifetime budget too; a
  budget type asked for a campaign that is no draft is ignored without a word;
* the purchase order of a campaign an agency pays is written to the agency's
  billing info and read from the client's;
* the Koddi lock does not cover the look-up, and nobody looks again inside: two
  requests for one brand that both found nothing create two advertisers, one
  after the other (`koddi_sso_gateway.py:86`; `OneAdvertiserEach` takes them out);
  the lock's key depends on the order of the brands;
* a filter of which some campaigns are unknown to Koddi is narrowed silently;
* a mixed-up answer of GET /me is cached before it is checked, so its user is
  answered 503 until the entry lapses; rights that were taken away live on
  in the cache as long;
* a success with a body that cannot be read is answered 503, "try again", though
  the service did what was asked (`http_response.py:48`).

## 6. The plan

Done: everything of the inventory but what is named below. Next, in this order:

1. Proofs: an abstract specification of a look-up (a map from things to ids and
   details that only grows) for Directory, of which `DetailsAreForGood` is the safety
   part, as IdRegister is for the numbering.
2. A cache that tells the lists of RequestPath apart, should the keys change.

## 7. Not modelled

The split of a bid validation into several calls (`combine_bid_validations`): no
state, and its parts are put together per request. Price ranges, suggested bids
and eligible keywords, pages of lists, UPCs in reports (the look-up of
ProductIds), metrics and sorting: reads. The wording of errors and warnings
(`error_translation.py`, `koddi_error_map.py`). The synchronous HTTP client: the same
calls, made without giving up the event loop; a call is one step here anyway.
Schemas of requests and responses beyond the validations a handler relies on,
coders of the cache, log filters, the profiler, configuration and start-up: no
state that two requests share. `validate_advertisers` (`jwt.py:121`) only logs.
