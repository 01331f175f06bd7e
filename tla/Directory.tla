----------------------------- MODULE Directory -----------------------------
(***************************************************************************)
(* The metadata of the API: contacts, addresses, advertisers, placements   *)
(* and the advertisers of Koddi.  The enterprise client service holds the  *)
(* originals; a request lists some of them, gives those it meets for the   *)
(* first time a short id, and leaves their details in Redis for the later  *)
(* requests that name them by it.  An advertiser that Koddi does not have  *)
(* is created there.  One step is one call; any of them may fail, and the  *)
(* request ends there.                                                     *)
(***************************************************************************)
EXTENDS Lookups, FiniteSets

CONSTANTS
    Clients,        \* the requests there may be
    Mixes,          \* what they ask, together: functions from Clients to requests
    ContactsOf,     \* the lists upstream, by account or agency
    AddressesOf, BrandsOf,
    Corporate, Verified,        \* the addresses of type CORPORATE, and the verified ones
    Placements, PlacementName,  \* the fixed list, and its names
    KoddiBefore,    \* the advertisers Koddi has from elsewhere
    Named           \* all contacts, addresses, advertisers and placements: their long ids

(* What is listed are long ids, which are no numbers, nor the ids of       *)
(* accounts or the names of placements; no agency has no contacts.         *)
ASSUME ListsAssumption ==
    /\ \A a \in DOMAIN ContactsOf : ContactsOf[a] \in Seq(Named)
    /\ \A a \in DOMAIN AddressesOf : AddressesOf[a] \in Seq(Named)
    /\ \A a \in DOMAIN BrandsOf : BrandsOf[a] \in Seq(Named)
    /\ Placements \in Seq(Named) \ {<< >>}
    /\ \A x \in Named \cup {None} : x \notin Nat
    /\ \A x \in Named : x # None
    /\ None \in DOMAIN ContactsOf => ContactsOf[None] = << >>
    /\ None \notin [id : Named, accountIds : SUBSET DOMAIN ContactsOf]
    /\ \A a \in DOMAIN AddressesOf : a \notin Named \cup Nat
    /\ \A p \in ToSet(Placements) : PlacementName[p] \notin Named \cup Nat

Kinds == {"contacts", "addresses", "advertisers", "campaign", "koddi", "placements", "report", "none"}

(* Requests are made for accounts and agencies that have a list, and name  *)
(* advertisers.                                                            *)
ASSUME MixesAssumption ==
    \A mix \in Mixes :
        /\ DOMAIN mix = Clients
        /\ \A q \in Clients :
              /\ mix[q].kind \in Kinds
              /\ mix[q].kind = "contacts" => {mix[q].account, mix[q].agency} \subseteq DOMAIN ContactsOf
              /\ mix[q].kind = "addresses" =>
                    /\ mix[q].account \in DOMAIN AddressesOf
                    /\ mix[q].agency \in DOMAIN AddressesOf \cup {None}
              /\ mix[q].kind = "advertisers" => mix[q].account \in DOMAIN BrandsOf
              /\ mix[q].kind \in {"campaign", "koddi"} => mix[q].brands \in Seq(Named)
              /\ mix[q].kind = "koddi" => mix[q].brands # << >>
              /\ mix[q].kind = "report" => mix[q].brands \subseteq Named /\ mix[q].campaigns \in Seq(Nat)

(* What Koddi has from elsewhere is of no request, and one of each kind.   *)
ASSUME KoddiAssumption ==
    /\ KoddiBefore \in Seq(ToSet(KoddiBefore))
    /\ \A k \in DOMAIN KoddiBefore : KoddiBefore[k].by = None
    /\ \A j, k \in DOMAIN KoddiBefore :
          KoddiBefore[j].brands = KoddiBefore[k].brands /\ KoddiBefore[j].agency = KoddiBefore[k].agency
          => j = k
    /\ None \notin Clients

VARIABLES
    redis,
    owner,          \* owner[t][i]: the entity of type t given short id i
    advertisers,    \* advertisers[k]: the advertiser Koddi knows as k
    creating,       \* the locks held on a creation: who holds which
    ask, at,        \* each request, and the call it makes next
    source,         \* the account or agency whose list it works on
    todo,           \* that list
    ids, details,   \* the short ids and details it has read or assigned
    koddi,          \* the Koddi advertiser it has found
    met             \* history: met[q], the requests that ran while q did

storeVars == <<redis, owner>>
localVars == <<source, todo, ids, details, koddi>>
dirVars == <<storeVars, advertisers, creating, ask, at, localVars, met>>

NoMemory == << >>
Calls == {"list", "assign", "details", "save", "corporate",
          "placement", "assign placement", "name placement", "detail placement",
          "koddi", "brands", "keep brands", "koddi again", "advertiser", "lock", "create",
          "create unlocked", "keep",
          "advertisers", "scope", "filter", "search", "keep filter", "send",
          "longs", "shorts", "fetch", "keep longs", "keep shorts", "translate"}
Over == {"idle", "done", "failed"}
Running == {q \in Clients : at[q] \notin Over}

Goto(q, s) == at' = [at EXCEPT ![q] = s]

(* What a request held in memory is gone with it.                          *)
Forget(q) ==
    /\ source' = [source EXCEPT ![q] = None]
    /\ todo' = [todo EXCEPT ![q] = << >>]
    /\ ids' = [ids EXCEPT ![q] = NoMemory]
    /\ details' = [details EXCEPT ![q] = NoMemory]

(* What upstream lists: the contacts of the agency when one is given, ...  *)
ContactsUpstream(q) == ContactsOf[source[q]]

(* ... all addresses, ...                                                  *)
AddressesUpstream(q) == AddressesOf[source[q]]

(* ... and of the user's brands those of the account.                      *)
BrandsUpstream(q) == BrandsOf[source[q]]

(* Only verified addresses are used.                                       *)
Listed(q) ==
    CASE ask[q].kind = "contacts" -> ContactsUpstream(q)
      [] ask[q].kind = "addresses" -> Sift(AddressesUpstream(q), Verified)
      [] ask[q].kind = "advertisers" -> BrandsUpstream(q)
      [] ask[q].kind = "campaign" -> ask[q].brands

IdsIn(q, longs) ==
    CASE ask[q].kind = "contacts" -> ContactIds(redis, longs)
      [] ask[q].kind = "addresses" -> AddressIds(redis, longs)
      [] OTHER -> AdvertiserIds(redis, longs)

Lacking(q) == {x \in ToSet(todo[q]) : ids[q][x] = None}

Missing(q) == Sift(todo[q], Lacking(q))

(* A new id of type t for each of the names, as one step.                  *)
Assign(t, names) == owner' = [owner EXCEPT ![t] = @ \o names]

NextId(t) == Len(owner[t]) + 1

(* The user of an agency gets the agency's list after the account's.       *)
NextList(q) ==
    IF ask[q].kind \in {"contacts", "addresses"} /\ ask[q].agency \notin {None, source[q]}
    THEN /\ source' = [source EXCEPT ![q] = ask[q].agency]
         /\ Goto(q, IF ask[q].kind = "contacts" THEN "list" ELSE "corporate")
         /\ UNCHANGED <<todo, ids, details>>
    ELSE Forget(q) /\ Goto(q, "done")
-----------------------------------------------------------------------------
DirectoryInit ==
    /\ redis = << >>
    /\ owner = [t \in Types |-> << >>]
    /\ advertisers = KoddiBefore
    /\ creating = {}
    /\ ask \in Mixes
    /\ at = [q \in Clients |-> "idle"]
    /\ source = [q \in Clients |-> None]
    /\ todo = [q \in Clients |-> << >>]
    /\ ids = [q \in Clients |-> NoMemory]
    /\ details = [q \in Clients |-> NoMemory]
    /\ koddi = [q \in Clients |-> None]
    /\ met = [q \in Clients |-> {}]

(* The requests that run meet each other.                                  *)
Enter(q, s) ==
    /\ at[q] = "idle"
    /\ Goto(q, s)
    /\ met' = [x \in Clients |-> CASE x = q -> Running
                                 [] x \in Running -> met[x] \cup {q}
                                 [] OTHER -> met[x]]

FirstCall ==
    [contacts |-> "list", addresses |-> "corporate", advertisers |-> "list", campaign |-> "list",
     koddi |-> "koddi", placements |-> "placement"]

Begin(q) ==
    /\ ask[q].kind \in DOMAIN FirstCall
    /\ Enter(q, FirstCall[ask[q].kind])
    /\ source' = [source EXCEPT ![q] = ask[q].account]
    /\ todo' = [todo EXCEPT ![q] = IF ask[q].kind = "placements" THEN Placements ELSE << >>]
    /\ UNCHANGED <<storeVars, advertisers, creating, ask, ids, details, koddi>>

(* A call fails, or its worker dies, which leaves a lock behind.           *)
Fail(q) ==
    /\ at[q] \notin Over
    /\ Goto(q, "failed")
    /\ Forget(q)
    /\ creating' \in {creating, {l \in creating : l.by # q}}
    /\ UNCHANGED <<storeVars, advertisers, ask, koddi, met>>

(* get_contacts_by_account, get_advertisers and the brands of a campaign:  *)
(* the list from upstream, and an MGET of the short ids.                   *)
List(q) ==
    LET list == Listed(q)
        read == IdsIn(q, ToSet(list))
    IN  /\ at[q] = "list"
        /\ todo' = [todo EXCEPT ![q] = list]
        /\ ids' = [ids EXCEPT ![q] = read]
        /\ Goto(q, "assign")
        /\ UNCHANGED <<storeVars, advertisers, creating, ask, source, details, koddi, met>>

(* Mutant of Pair: the new ids go to the names by their place in the list, *)
(* not among those that asked for one.                                     *)
PairByPlace(q, first) ==
    [x \in ToSet(todo[q]) |->
        IF ids[q][x] = None THEN Assigned(todo[q], first)[x] ELSE ids[q][x]]

(* The short ids of a list: those read, and the new ones in their order.   *)
Pair(q, first) ==
    [x \in ToSet(todo[q]) |->
        IF ids[q][x] = None THEN Assigned(Missing(q), first)[x] ELSE ids[q][x]]

(* Contacts and advertisers: the missing ids as one batch.  The advertisers *)
(* of a campaign that is shown get no more than ids.                       *)
AssignBatch(q) ==
    LET t == IF ask[q].kind = "contacts" THEN "CONTACT" ELSE "ADVERTISER"
        new == Assigned(Missing(q), NextId(t))
    IN  /\ at[q] = "assign" /\ ask[q].kind # "addresses"
        /\ Assign(t, Missing(q))
        /\ redis' = IF t = "CONTACT" THEN SetContactIds(redis, new) ELSE SetAdvertiserIds(redis, new)
        /\ IF ask[q].kind = "campaign"
           THEN Forget(q) /\ Goto(q, "done")
           ELSE /\ ids' = [ids EXCEPT ![q] = Pair(q, NextId(t))]
                /\ Goto(q, "details")
                /\ UNCHANGED <<source, todo, details>>
        /\ UNCHANGED <<advertisers, creating, ask, koddi, met>>

(* MGET of the details under the ids of the list.                          *)
ReadDetails(q) ==
    LET of == {ids[q][x] : x \in ToSet(todo[q])}
        read == IF ask[q].kind = "contacts" THEN ContactDetails(redis, of)
                                            ELSE AdvertiserDetails(redis, of)
    IN  /\ at[q] = "details"
        /\ details' = [details EXCEPT ![q] = read]
        /\ Goto(q, "save")
        /\ UNCHANGED <<storeVars, advertisers, creating, ask, source, todo, ids, koddi, met>>
-----------------------------------------------------------------------------
(* Mutant of AccountIdsOf: the account takes the place of the others.      *)
AccountIdOnly(q, cached) == {ask[q].account}

(* The accounts of a contact: those cached, and the one asked for.         *)
AccountIdsOf(q, cached) == (IF cached = None THEN {} ELSE cached.accountIds) \cup {ask[q].account}

(* The details of the contacts, written whole.                             *)
SaveContacts(q) ==
    LET contact(x) == [id |-> x,
                       accountIds |-> AccountIdsOf(q, details[q][ids[q][x]])]
        under == [i \in {ids[q][x] : x \in ToSet(todo[q])} |->
                    contact(CHOOSE x \in ToSet(todo[q]) : ids[q][x] = i)]
    IN  /\ at[q] = "save" /\ ask[q].kind = "contacts"
        /\ redis' = SetContactDetails(redis, under)
        /\ NextList(q)
        /\ UNCHANGED <<owner, advertisers, creating, ask, koddi, met>>

(* Those of the advertisers that have none yet.                            *)
SaveAdvertisers(q) ==
    LET bare == {x \in ToSet(todo[q]) : details[q][ids[q][x]] = None}
        under == [i \in {ids[q][x] : x \in bare} |->
                    [id |-> CHOOSE x \in bare : ids[q][x] = i]]
    IN  /\ at[q] = "save" /\ ask[q].kind = "advertisers"
        /\ redis' = SetAdvertiserDetails(redis, under)
        /\ Forget(q) /\ Goto(q, "done")
        /\ UNCHANGED <<owner, advertisers, creating, ask, koddi, met>>

(* The corporate address of the account, verified or not.                  *)
CacheCorporate(q) ==
    LET corporate == Sift(AddressesUpstream(q), Corporate)
    IN  /\ at[q] = "corporate"
        /\ redis' = IF corporate = << >> THEN redis
                    ELSE SetCorporate(redis, source[q], Last(corporate))
        /\ Goto(q, "list")
        /\ UNCHANGED <<owner, advertisers, creating, ask, localVars, met>>

(* Addresses get their missing ids one call after the other.               *)
AssignAddress(q) ==
    /\ at[q] = "assign" /\ ask[q].kind = "addresses"
    /\ IF Missing(q) = << >>
       THEN Goto(q, "save") /\ UNCHANGED <<storeVars, ids>>
       ELSE LET a == Head(Missing(q))
            IN  /\ Assign("ADDRESS", <<a>>)
                /\ redis' = Put(redis, "ADDRESS", a, NextId("ADDRESS"))
                /\ ids' = [ids EXCEPT ![q][a] = NextId("ADDRESS")]
                /\ UNCHANGED at
    /\ UNCHANGED <<advertisers, creating, ask, source, todo, details, koddi, met>>

SaveAddresses(q) ==
    LET under == [i \in {ids[q][x] : x \in ToSet(todo[q])} |->
                    [id |-> CHOOSE x \in ToSet(todo[q]) : ids[q][x] = i]]
    IN  /\ at[q] = "save" /\ ask[q].kind = "addresses"
        /\ redis' = SetAddressDetails(redis, under)
        /\ NextList(q)
        /\ UNCHANGED <<owner, advertisers, creating, ask, koddi, met>>
-----------------------------------------------------------------------------
(* get_placements: the placements of a fixed list, one after the other,    *)
(* four calls each.  The id is read and assigned under "id:name" ...       *)
ReadPlacement(q) ==
    LET p == Head(todo[q])
        id == PlacementId(redis, p)
    IN  /\ at[q] = "placement"
        /\ ids' = [ids EXCEPT ![q] = [x \in {p} |-> id]]
        /\ Goto(q, IF id = None THEN "assign placement" ELSE "name placement")
        /\ UNCHANGED <<storeVars, advertisers, creating, ask, source, todo, details, koddi, met>>

AssignPlacement(q) ==
    LET p == Head(todo[q])
    IN  /\ at[q] = "assign placement"
        /\ Assign("PLACEMENT", <<p>>)
        /\ redis' = Put(redis, "PLACEMENT", p, NextId("PLACEMENT"))
        /\ ids' = [ids EXCEPT ![q][p] = NextId("PLACEMENT")]
        /\ Goto(q, "name placement")
        /\ UNCHANGED <<advertisers, creating, ask, source, todo, details, koddi, met>>

(* ... and the two ways back are written every time.                       *)
NamePlacement(q) ==
    LET p == Head(todo[q])
    IN  /\ at[q] = "name placement"
        /\ redis' = SetPlacementName(redis, PlacementName[p], ids[q][p])
        /\ Goto(q, "detail placement")
        /\ UNCHANGED <<owner, advertisers, creating, ask, localVars, met>>

DetailPlacement(q) ==
    LET p == Head(todo[q])
    IN  /\ at[q] = "detail placement"
        /\ redis' = SetPlacementDetails(redis, ids[q][p], [id |-> p])
        /\ IF Tail(todo[q]) = << >>
           THEN Forget(q) /\ Goto(q, "done")
           ELSE /\ todo' = [todo EXCEPT ![q] = Tail(@)]
                /\ Goto(q, "placement")
                /\ UNCHANGED <<source, ids, details>>
        /\ UNCHANGED <<owner, advertisers, creating, ask, koddi, met>>
-----------------------------------------------------------------------------
(* The advertisers of Koddi: get_koddi_advertiser_multi_brand, and for one  *)
(* brand get_koddi_advertiser_id or get_koddi_advertiser_id_for_agency,    *)
(* which keep what they find in Redis.                                     *)
Brand(q) == Head(ask[q].brands)

OneBrand(q) == Len(ask[q].brands) = 1

LockKey(q) == <<ask[q].brands, ask[q].agency>>

(* What Koddi answers when it is asked for brands, taken to be the         *)
(* advertisers of exactly those; it lists the oldest first.                *)
WithBrands(brands) ==
    {k \in DOMAIN advertisers : advertisers[k].brands = ToSet(brands)}

(* Mutant of Found: a request does not look whether there is one.          *)
FoundNone(q) == None

(* The first of them that is of the request's agency, or of none.          *)
Found(q) ==
    LET mine == {k \in WithBrands(ask[q].brands) : advertisers[k].agency = ask[q].agency}
    IN  IF mine = {} THEN None ELSE Min(mine)

(* get_koddi_advertiser_short_id_by_long_id, with or without an agency.    *)
ReadKoddi(q) ==
    LET known == KoddiAdvertiser(redis, Brand(q), ask[q].agency)
    IN  /\ at[q] = "koddi"
        /\ IF OneBrand(q) /\ known # None
           THEN koddi' = [koddi EXCEPT ![q] = known] /\ Goto(q, "done")
           ELSE UNCHANGED koddi /\ Goto(q, IF OneBrand(q) /\ ask[q].agency = None
                                          THEN "brands" ELSE "advertiser")
        /\ UNCHANGED <<storeVars, advertisers, creating, ask, source, todo, ids, details, met>>

(* One brand and no agency: all advertisers of the brand are kept, with    *)
(* their agencies, the last of each, and the cache is asked again.         *)
ListKoddi(q) ==
    LET all == WithBrands(ask[q].brands)
        of(g) == {k \in all : advertisers[k].agency = g}
    IN  /\ at[q] = "brands"
        /\ details' = [details EXCEPT ![q] =
              [x \in {<<Brand(q), advertisers[k].agency>> : k \in all} |->
                  Max(of(x[2]))]]
        /\ Goto(q, "keep brands")
        /\ UNCHANGED <<storeVars, advertisers, creating, ask, source, todo, ids, koddi, met>>

KeepBrands(q) ==
    /\ at[q] = "keep brands"
    /\ redis' = SetKoddiAdvertisers(redis, details[q])
    /\ Goto(q, "koddi again")
    /\ UNCHANGED <<owner, advertisers, creating, ask, localVars, met>>

ReadKoddiAgain(q) ==
    /\ at[q] = "koddi again"
    /\ koddi' = [koddi EXCEPT ![q] = KoddiAdvertiser(redis, Brand(q), None)]
    /\ Forget(q)
    /\ Goto(q, "done")
    /\ UNCHANGED <<storeVars, advertisers, creating, ask, met>>

(* Otherwise the one advertiser that fits is looked for, ...               *)
FindAdvertiser(q) ==
    /\ at[q] = "advertiser"
    /\ koddi' = [koddi EXCEPT ![q] = Found(q)]
    /\ Goto(q, IF Found(q) = None THEN "lock" ELSE IF OneBrand(q) THEN "keep" ELSE "done")
    /\ UNCHANGED <<storeVars, advertisers, creating, ask, source, todo, ids, details, met>>

(* ... and created if there is none, under a lock unless its flag is off.  *)
LockCreation(q) ==
    /\ at[q] = "lock"
    /\ \/ /\ \A l \in creating : l.key # LockKey(q)
          /\ creating' = creating \cup {[key |-> LockKey(q), by |-> q]}
          /\ Goto(q, "create")
       \/ /\ UNCHANGED creating
          /\ Goto(q, "create unlocked")
    /\ UNCHANGED <<storeVars, advertisers, ask, localVars, met>>

LeaseRunsOut == \E l \in creating :
    /\ creating' = creating \ {l}
    /\ UNCHANGED <<storeVars, advertisers, ask, at, localVars, met>>

(* Mutant of Create: the lock is not given back.                           *)
CreateHolding(q) ==
    /\ at[q] \in {"create", "create unlocked"}
    /\ advertisers' = Append(advertisers, [brands |-> ToSet(ask[q].brands),
                                           agency |-> ask[q].agency, by |-> q])
    /\ koddi' = [koddi EXCEPT ![q] = Len(advertisers')]
    /\ Goto(q, IF OneBrand(q) THEN "keep" ELSE "done")
    /\ UNCHANGED <<storeVars, creating, ask, source, todo, ids, details, met>>

(* Whoever finds the lock no longer its own when it is done raises.        *)
Create(q) ==
    LET mine == [key |-> LockKey(q), by |-> q]
    IN  /\ at[q] \in {"create", "create unlocked"}
        /\ advertisers' = Append(advertisers, [brands |-> ToSet(ask[q].brands),
                                               agency |-> ask[q].agency, by |-> q])
        /\ creating' = creating \ {mine}
        /\ IF at[q] = "create" /\ mine \notin creating
           THEN Goto(q, "failed") /\ UNCHANGED koddi
           ELSE /\ koddi' = [koddi EXCEPT ![q] = Len(advertisers')]
                /\ Goto(q, IF OneBrand(q) THEN "keep" ELSE "done")
        /\ UNCHANGED <<storeVars, ask, source, todo, ids, details, met>>

KeepKoddi(q) ==
    /\ at[q] = "keep"
    /\ redis' = SetKoddiAdvertisers(redis, [x \in {<<Brand(q), ask[q].agency>>} |-> koddi[q]])
    /\ Goto(q, "done")
    /\ UNCHANGED <<owner, advertisers, creating, ask, localVars, met>>

DirectoryStep(q) ==
    \/ Begin(q)
    \/ List(q)
    \/ AssignBatch(q)
    \/ ReadDetails(q)
    \/ SaveContacts(q)
    \/ SaveAdvertisers(q)
    \/ CacheCorporate(q)
    \/ AssignAddress(q)
    \/ SaveAddresses(q)
    \/ ReadPlacement(q)
    \/ AssignPlacement(q)
    \/ NamePlacement(q)
    \/ DetailPlacement(q)
    \/ ReadKoddi(q)
    \/ ListKoddi(q)
    \/ KeepBrands(q)
    \/ ReadKoddiAgain(q)
    \/ FindAdvertiser(q)
    \/ LockCreation(q)
    \/ Create(q)
    \/ KeepKoddi(q)
-----------------------------------------------------------------------------
(* The short ids with details of a type.                                   *)
Detailed(t) == {k[2] : k \in {x \in DOMAIN redis : x = <<t, x[2]>> /\ x[2] \in Nat}}

Done(q, kind) == at[q] = "done" /\ ask[q].kind = kind

(* A short id a client is told keeps naming what it was given for: the     *)
(* details under it are those of the entity the id was assigned to,        *)
(* whatever requests assigned ids and wrote details at the same time.      *)
(* [contact_service.py:79, address_service.py:92, placement_service.py:68] *)
DetailsNameTheirEntity ==
    \A t \in Types : \A i \in Detailed(t) :
        i \in DOMAIN owner[t] /\ Get(redis, t, i).id = owner[t][i]

(* The accounts of a contact: those cached, and the one asked for.  An     *)
(* account whose contacts were listed by a request that ran alone stays    *)
(* with each of them; two that ran together may lose one another's.        *)
(* [contact_service.py:107]                                                *)
AccountsAreKept ==
    \A q \in Clients : Done(q, "contacts") /\ met[q] = {} =>
        \A x \in ToSet(ContactsOf[ask[q].account] \o ContactsOf[ask[q].agency]) :
            ask[q].account \in Get(redis, "CONTACT", Get(redis, "CONTACT", x)).accountIds

(* Koddi has one advertiser for the brands of an agency, the one the       *)
(* client is answered with, unless two requests that ran together both     *)
(* found none: the lock is taken after the look-up.                        *)
(* [koddi_sso_gateway.py:86, advertiser_service.py:148]                    *)
OneAdvertiserEach ==
    /\ \A q \in Clients : Done(q, "koddi") /\ koddi[q] # None =>
          /\ advertisers[koddi[q]].brands = ToSet(ask[q].brands)
          /\ advertisers[koddi[q]].agency = ask[q].agency
    /\ \A j, k \in DOMAIN advertisers :
          (j < k /\ advertisers[j].brands = advertisers[k].brands
                 /\ advertisers[j].agency = advertisers[k].agency)
          => advertisers[k].by # None /\ advertisers[j].by \in met[advertisers[k].by]
=============================================================================
