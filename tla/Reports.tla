------------------------------ MODULE Reports ------------------------------
(***************************************************************************)
(* POST /report: a report of Koddi, asked for in the ids of the API and    *)
(* answered in them (get_report, ReportService, ReportTranslation).  The   *)
(* advertisers of the request become Koddi's advertisers, the campaigns of *)
(* its filter Koddi's campaigns; the rows name campaigns, ad groups and    *)
(* advertisers by Koddi's ids and are translated back.  Both ways go       *)
(* through look-ups in Redis that reports fill from the campaign service   *)
(* and the activation service when something is missing.                   *)
(***************************************************************************)
EXTENDS Directory

CONSTANTS
    Entities,       \* the campaigns and ad groups upstream
    PartneredBefore,    \* those Koddi has an id for from the start
    Metrics, Dimensions,    \* of the API
    Unfit           \* Unfit[e]: those the experience e does not have

(* Short ids and Koddi's are numbers, long ids are not; no two campaigns,  *)
(* and no two ad groups, share one.                                        *)
ASSUME EntitiesAssumption ==
    /\ PartneredBefore \subseteq Entities
    /\ \A e \in Entities : /\ e.type \in {"CAMPAIGN", "AD_GROUP"}
                           /\ e.short \in Nat /\ e.koddi \in Nat
                           /\ e.long \notin Nat \cup {None}
    /\ \A e, f \in Entities :
          e # f /\ e.type = f.type => e.long # f.long /\ e.short # f.short /\ e.koddi # f.koddi

VARIABLES
    partnered,      \* the entities Koddi has given an id
    scope,          \* scope[q][k]: the brands of the request that Koddi advertiser k has
    filter,         \* the Koddi ids the report is filtered by
    rows,           \* rows[q]: the Koddi ids of its answer, by type
    doing,          \* the type being translated
    cached, group,  \* by Koddi id, the long and short id read, and those known now
    told            \* told[q]: the translation the client gets

reportVars == <<partnered, scope, filter, rows, doing, cached, group, told>>
vars == <<dirVars, reportVars>>

Nothing == << >>
Untold == [AD_GROUP |-> Nothing, CAMPAIGN |-> Nothing]
NoRows == [AD_GROUP |-> {}, CAMPAIGN |-> {}]

Of(type) == {e \in partnered : e.type = type}

Both(l, s) == [long |-> l, short |-> s]

(* What upstream knows of some Koddi ids.                                  *)
Known(type, koddis) ==
    LET known == {e \in Of(type) : e.koddi \in koddis}
    IN  [k \in {e.koddi : e \in known} |->
            LET e == CHOOSE e \in known : e.koddi = k IN Both(e.long, e.short)]

(* handle_missing_campaign_ids answers for long and for short ids; ...     *)
FetchedCampaigns(koddis) == Known("CAMPAIGN", koddis)

(* ... handle_missing_ad_group_long_ids asks for each ad group alone, ...  *)
FetchedAdGroups(koddis) == Known("AD_GROUP", koddis)

(* ... and handle_missing_ad_group_short_ids puts what it fetches under    *)
(* the Koddi id as the activation has it, a string, where no row looks.    *)
FetchedShortAdGroups(koddis) == Nothing

(* The look-ups of build_ad_group_translation and build_campaign_translation. *)
LongByKoddi(type, k) == IF type = "CAMPAIGN" THEN CampaignByKoddi(redis, k) ELSE AdGroupByKoddi(redis, k)
ShortByLong(type, l) == IF type = "CAMPAIGN" THEN ShortCampaign(redis, l) ELSE ShortAdGroup(redis, l)
-----------------------------------------------------------------------------
(* validate_request_report_dates, validate_request_filter_and_sort.        *)
Available(r) == (Metrics \cup Dimensions) \ Unfit[r.experience]

BadDates(r) == r.start > r.end

(* Metrics and dimensions that are not of the experience, or filters and   *)
(* sorts by others than those asked for.                                   *)
BadFields(r) ==
    \/ ~ (r.fields \subseteq Available(r))
    \/ ~ (r.filteredBy \cup r.sortedBy \subseteq r.fields)

(* A client names advertisers by short ids it was told.                    *)
BeginReport(q) ==
    /\ at[q] = "idle" /\ ask[q].kind = "report"
    /\ Goto(q, IF BadDates(ask[q]) \/ BadFields(ask[q]) THEN "failed" ELSE "advertisers")
    /\ ids' = [ids EXCEPT ![q] = AdvertiserIds(redis, ask[q].brands)]
    /\ \A b \in ask[q].brands : ids'[q][b] # None
    /\ UNCHANGED <<storeVars, advertisers, creating, ask, source, todo, details, koddi, met, reportVars>>

(* check_advertiser_access: a brand that is not the user's is a 403.       *)
Inaccessible(q, read) == \E i \in DOMAIN read : read[i].id \notin ask[q].access

(* get_advertisers_by_numeric_ids answers 404 without the details of all.  *)
ReadAdvertisers(q) ==
    LET read == AdvertiserDetails(redis, {ids[q][b] : b \in ask[q].brands})
    IN  /\ at[q] = "advertisers"
        /\ details' = [details EXCEPT ![q] = read]
        /\ Goto(q, IF (\E i \in DOMAIN read : read[i] = None) \/ Inaccessible(q, read)
                   THEN "failed" ELSE "scope")
        /\ UNCHANGED <<storeVars, advertisers, creating, ask, source, todo, ids, koddi, met, reportVars>>

(* __create_filters: only campaigns are translated.                        *)
FirstFilterCall(q) == IF ask[q].campaigns = << >> THEN "send" ELSE "filter"

(* build_user_koddi_id_dict: of the Koddi advertisers those of the user's  *)
(* agency, if it is of one.                                                *)
OfUser(q) == {k \in DOMAIN advertisers : ask[q].agency \in {None, advertisers[k].agency}}

(* build_koddi_id_dict: those that have some of the brands.                *)
BuildScope(q) ==
    LET idOf(b) == {i \in DOMAIN details[q] : details[q][i].id = b}
        mine == {k \in OfUser(q) : \E b \in advertisers[k].brands : idOf(b) # {}}
    IN  /\ at[q] = "scope"
        /\ scope' = [scope EXCEPT ![q] =
              [k \in mine |-> UNION {idOf(b) : b \in advertisers[k].brands}]]
        /\ Goto(q, FirstFilterCall(q))
        /\ UNCHANGED <<storeVars, advertisers, creating, ask, localVars, met, partnered, filter,
                       rows, doing, cached, group, told>>
-----------------------------------------------------------------------------
(* The filter: the Koddi ids of the campaigns named, from the cache ...    *)
ReadFilter(q) ==
    LET named == ToSet(ask[q].campaigns)
        read == KoddiByShort(redis, named)
    IN  /\ at[q] = "filter"
        /\ filter' = [filter EXCEPT ![q] = {read[s] : s \in named} \ {None}]
        /\ todo' = [todo EXCEPT ![q] = Sift(ask[q].campaigns, {s \in named : read[s] = None})]
        /\ Goto(q, IF \E s \in named : read[s] = None THEN "search" ELSE "send")
        /\ UNCHANGED <<storeVars, advertisers, creating, ask, source, ids, details, koddi, met, partnered,
                       scope, rows, doing, cached, group, told>>

(* Mutant of SomeMissing: one campaign that is found is enough.            *)
NoneFound(q, found) == FALSE

(* Some of the campaigns have a Koddi id and some have none.  A campaign   *)
(* that is named twice is found once.                                      *)
SomeMissing(q, found) == found # {} /\ Cardinality(found) # Len(todo[q])

(* ... or by a search.  If it finds none at all the report goes on without *)
(* them, and if it finds some only, it is refused.                         *)
SearchFilter(q) ==
    LET found == {e \in Of("CAMPAIGN") : e.short \in ToSet(todo[q])}
    IN  /\ at[q] = "search"
        /\ IF SomeMissing(q, found)
           THEN Goto(q, "failed") /\ UNCHANGED <<details, filter>>
           ELSE /\ filter' = [filter EXCEPT ![q] = @ \cup {e.koddi : e \in found}]
                /\ details' = [details EXCEPT ![q] =
                      [s \in {e.short : e \in found} |-> (CHOOSE e \in found : e.short = s).koddi]]
                /\ Goto(q, IF found = {} THEN "send" ELSE "keep filter")
        /\ UNCHANGED <<storeVars, advertisers, creating, ask, source, todo, ids, koddi, met, partnered,
                       scope, rows, doing, cached, group, told>>

KeepFilter(q) ==
    /\ at[q] = "keep filter"
    /\ redis' = SetKoddiByShort(redis, details[q])
    /\ Goto(q, "send")
    /\ UNCHANGED <<owner, advertisers, creating, ask, localVars, met, reportVars>>

(* The ids in the rows of a report are those of things Koddi has an id for. *)
ResponseIds == [t \in DOMAIN NoRows |-> {e.koddi : e \in Of(t)}]

(* Koddi's report, for the advertisers in scope, or its refusal.           *)
Send(q) ==
    /\ at[q] = "send"
    /\ rows' = [rows EXCEPT ![q] = ResponseIds]
    /\ doing' = [doing EXCEPT ![q] = "AD_GROUP"]
    /\ Goto(q, "longs")
    /\ UNCHANGED <<storeVars, advertisers, creating, ask, localVars, met, partnered, scope, filter,
                   cached, group, told>>
-----------------------------------------------------------------------------
(* build_translation, for the ad groups and then for the campaigns.        *)
ReadLongs(q) ==
    LET k == rows[q][doing[q]]
        longs == LongByKoddi(doing[q], k)
    IN  /\ at[q] = "longs"
        /\ group' = [group EXCEPT ![q] = [x \in k |-> Both(longs[x], None)]]
        /\ Goto(q, "shorts")
        /\ UNCHANGED <<storeVars, advertisers, creating, ask, localVars, met, partnered, scope, filter,
                       rows, doing, cached, told>>

(* A campaign's look-up that does not give a number is an error.           *)
ReadShorts(q) ==
    LET longs == {group[q][k].long : k \in DOMAIN group[q]}
        shorts == ShortByLong(doing[q], longs)
    IN  /\ at[q] = "shorts"
        /\ group' = [group EXCEPT ![q] =
              [k \in DOMAIN @ |-> Both(@[k].long, shorts[@[k].long])]]
        /\ cached' = [cached EXCEPT ![q] = group'[q]]
        /\ Goto(q, IF \E l \in longs : shorts[l] \notin Nat \cup {None} THEN "failed" ELSE "fetch")
        /\ UNCHANGED <<storeVars, advertisers, creating, ask, localVars, met, partnered, scope, filter,
                       rows, doing, told>>

(* __fetch_missing_ids: first those without a long id, then those still    *)
(* without a short one.  Nothing is written between the two calls, and     *)
(* what appears upstream there might have been there before the first.     *)
FetchMissing(q) ==
    LET campaigns == doing[q] = "CAMPAIGN"
        bare(g) == {k \in DOMAIN g : g[k].long = None}
        unnumbered(g) == {k \in DOMAIN g : g[k].short = None}
        fill(g) == Onto(IF campaigns THEN FetchedCampaigns(bare(g)) ELSE FetchedAdGroups(bare(g)), g)
        fillShort(g) == Onto(IF campaigns THEN FetchedCampaigns(unnumbered(g))
                                          ELSE FetchedShortAdGroups(unnumbered(g)), g)
    IN  /\ at[q] = "fetch"
        /\ group' = [group EXCEPT ![q] = fillShort(fill(@))]
        /\ Goto(q, "keep longs")
        /\ UNCHANGED <<storeVars, advertisers, creating, ask, localVars, met, partnered, scope, filter,
                       rows, doing, cached, told>>

(* __cache_missing_ids: what was not in the cache and is known now.        *)
KeepLongs(q) ==
    LET new == {k \in DOMAIN group[q] : cached[q][k].long = None /\ group[q][k].long # None}
        longs == [k \in new |-> group[q][k].long]
    IN  /\ at[q] = "keep longs"
        /\ redis' = IF doing[q] = "CAMPAIGN" THEN SetCampaignByKoddi(redis, longs)
                                             ELSE SetAdGroupByKoddi(redis, longs)
        /\ Goto(q, "keep shorts")
        /\ UNCHANGED <<owner, advertisers, creating, ask, localVars, met, reportVars>>

(* Mutant of KeepShorts: under the long id goes the id the rows have.      *)
KeepKoddis(q) ==
    LET new == {k \in DOMAIN group[q] : /\ cached[q][k].short = None
                                        /\ group[q][k].short # None /\ group[q][k].long # None}
        koddis == [l \in {group[q][k].long : k \in new} |-> CHOOSE k \in new : group[q][k].long = l]
    IN  /\ at[q] = "keep shorts"
        /\ redis' = IF doing[q] = "CAMPAIGN" THEN SetShortCampaign(redis, koddis)
                                             ELSE SetShortAdGroup(redis, koddis)
        /\ Goto(q, "translate")
        /\ UNCHANGED <<owner, advertisers, creating, ask, localVars, met, reportVars>>

KeepShorts(q) ==
    LET new == {k \in DOMAIN group[q] : /\ cached[q][k].short = None
                                        /\ group[q][k].short # None /\ group[q][k].long # None}
        shorts == [l \in {group[q][k].long : k \in new} |->
                      group[q][CHOOSE k \in new : group[q][k].long = l].short]
    IN  /\ at[q] = "keep shorts"
        /\ redis' = IF doing[q] = "CAMPAIGN" THEN SetShortCampaign(redis, shorts)
                                             ELSE SetShortAdGroup(redis, shorts)
        /\ Goto(q, "translate")
        /\ UNCHANGED <<owner, advertisers, creating, ask, localVars, met, reportVars>>

(* The rows get what was found; after the campaigns the report is answered. *)
Translate(q) ==
    /\ at[q] = "translate"
    /\ told' = [told EXCEPT ![q][doing[q]] = [k \in DOMAIN group[q] |-> group[q][k].short]]
    /\ cached' = [cached EXCEPT ![q] = Nothing]
    /\ group' = [group EXCEPT ![q] = Nothing]
    /\ doing' = [doing EXCEPT ![q] = "CAMPAIGN"]
    /\ IF doing[q] = "CAMPAIGN"
       THEN Goto(q, "done") /\ Forget(q) /\ rows' = [rows EXCEPT ![q] = NoRows]
       ELSE Goto(q, "longs") /\ UNCHANGED <<source, todo, ids, details, rows>>
    /\ UNCHANGED <<storeVars, advertisers, creating, ask, koddi, met, partnered, scope, filter>>

(* The way from a short id to a campaign is written by others.             *)
LookupFilled ==
    /\ \E q \in Clients : ask[q].kind = "report" /\ at[q] \notin Over \ {"idle"}
    /\ \E e \in Of("CAMPAIGN") :
          /\ Get(redis, "CAMPAIGN", e.short) = None
          /\ redis' = Put(redis, "CAMPAIGN", e.short, e.long)
    /\ UNCHANGED <<owner, advertisers, creating, ask, at, localVars, met, reportVars>>

(* Koddi gives a campaign or an ad group its id some time after it was     *)
(* published, and the service concerned keeps it.  Reports alone see it.   *)
Partner ==
    /\ \E q \in Clients : ask[q].kind = "report" /\ at[q] \notin Over \ {"idle"}
    /\ \E e \in Entities \ partnered : partnered' = partnered \cup {e}
    /\ UNCHANGED <<dirVars, scope, filter, rows, doing, cached, group, told>>
(* A report that fails tells its client nothing.                           *)
FailReport(q) ==
    /\ Fail(q)
    /\ scope' = [scope EXCEPT ![q] = Nothing]
    /\ filter' = [filter EXCEPT ![q] = {}]
    /\ rows' = [rows EXCEPT ![q] = NoRows]
    /\ doing' = [doing EXCEPT ![q] = "AD_GROUP"]
    /\ cached' = [cached EXCEPT ![q] = Nothing]
    /\ group' = [group EXCEPT ![q] = Nothing]
    /\ told' = [told EXCEPT ![q] = Untold]
    /\ UNCHANGED partnered
-----------------------------------------------------------------------------
ReportInit ==
    /\ DirectoryInit
    /\ partnered = PartneredBefore
    /\ scope = [q \in Clients |-> Nothing]
    /\ filter = [q \in Clients |-> {}]
    /\ rows = [q \in Clients |-> NoRows]
    /\ doing = [q \in Clients |-> "AD_GROUP"]
    /\ cached = [q \in Clients |-> Nothing]
    /\ group = [q \in Clients |-> Nothing]
    /\ told = [q \in Clients |-> Untold]

ReportStep(q) ==
    \/ BeginReport(q)
    \/ ReadAdvertisers(q)
    \/ BuildScope(q)
    \/ ReadFilter(q)
    \/ SearchFilter(q)
    \/ KeepFilter(q)
    \/ Send(q)
    \/ ReadLongs(q)
    \/ ReadShorts(q)
    \/ FetchMissing(q)
    \/ KeepLongs(q)
    \/ KeepShorts(q)
    \/ Translate(q)

Next ==
    \/ \E q \in Clients : ReportStep(q)
    \/ (\E q \in Clients : DirectoryStep(q)) /\ UNCHANGED reportVars
    \/ \E q \in Clients : FailReport(q)
    \/ LeaseRunsOut /\ UNCHANGED reportVars
    \/ LookupFilled
    \/ Partner

Spec == ReportInit /\ [][Next]_vars
-----------------------------------------------------------------------------
(* Sent to Koddi or beyond: the filter is final.                           *)
Sent(q) == at[q] \in {"longs", "shorts", "fetch", "keep longs", "keep shorts",
                      "translate"} /\ ask[q].kind = "report"

(* The campaigns whose short id is also a Koddi id: two look-ups share the *)
(* key.                                                                    *)
Confused(s) == \E e \in Entities : e.type = "CAMPAIGN" /\ e.koddi = s

KoddiIds(shorts) == {e.koddi : e \in {x \in Entities : x.type = "CAMPAIGN" /\ x.short \in shorts}}

(* A report is filtered by the campaigns it was asked for and no others,   *)
(* and by all of them, unless none of those missing from the cache has a   *)
(* Koddi id: then they are left out silently.  Campaigns whose short id is *)
(* a Koddi id, too, are excepted, see the README.                          *)
(* [report_service.py:229, lookup_service.py:533]                          *)
FilterCovers ==
    \A q \in Clients : Sent(q) /\ ask[q].campaigns # << >> =>
        LET named == ToSet(ask[q].campaigns)
        IN  (\A s \in named : ~ Confused(s)) =>
                /\ filter[q] \subseteq KoddiIds(named)
                /\ filter[q] = KoddiIds(named) \ KoddiIds(ToSet(todo[q]))
                   \/ filter[q] = KoddiIds(named)

(* A row of a report names the campaign, ad group and advertiser it is     *)
(* about: an ad group by its own short id or by none, a campaign by its    *)
(* own, and an advertiser by one of its brands, whatever the look-ups of   *)
(* other requests, stopped half-way or confused, left in Redis.            *)
(* [report_translation.py:200, report_service.py:352]                      *)
RowsNameTheirOwn ==
    \A q \in Clients :
        /\ \A k \in DOMAIN told[q]["AD_GROUP"] :
              told[q]["AD_GROUP"][k] \in {None} \cup {e.short : e \in {x \in Of("AD_GROUP") : x.koddi = k}}
        /\ \A k \in DOMAIN told[q]["CAMPAIGN"] :
              \E e \in Of("CAMPAIGN") : e.koddi = k /\ e.short = told[q]["CAMPAIGN"][k]
        /\ \A k \in DOMAIN scope[q] : \A i \in scope[q][k] :
              owner["ADVERTISER"][i] \in advertisers[k].brands

(* The variables have their types, and a creation lock is held by no       *)
(* request but one that creates or was stopped there.                      *)
(* [report_service.py, advertiser_service.py, koddi_sso_gateway.py]        *)
ReportTypeOK ==
    /\ DOMAIN owner = Types /\ DOMAIN ask = Clients
    /\ at \in [Clients -> Over \cup Calls]
    /\ \A q \in Clients :
          /\ ask[q].kind \notin {"report", "placements"} => ToSet(todo[q]) \subseteq DOMAIN ids[q]
          /\ koddi[q] \in {None} \cup DOMAIN advertisers
          /\ met[q] \subseteq Clients \ {q}
          /\ \A t \in DOMAIN NoRows : rows[q][t] \subseteq {e.koddi : e \in Of(t)}
          /\ DOMAIN cached[q] \in {{}, DOMAIN group[q]}
    /\ \A l \in creating : at[l.by] \in {"create", "failed"}
=============================================================================
