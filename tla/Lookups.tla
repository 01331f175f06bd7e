------------------------------ MODULE Lookups ------------------------------
(***************************************************************************)
(* The keys of Redis as LookupService builds them, over a partial function *)
(* from keys to values.  A key is the pair of its entity type and what     *)
(* follows the colon: a short id, a long id, or a compound of two.  The    *)
(* types are RedisKeyTypes, with the prefixes the service adds by hand.    *)
(* Of a numeric id nothing but its owner matters here, so assigning a      *)
(* batch is one step; NumericIds takes it apart.                           *)
(***************************************************************************)
EXTENDS Naturals, Sequences, SequencesExt, TLC

CONSTANT None   \* no value under a key

Types == {"CONTACT", "ADDRESS", "ADVERTISER", "PLACEMENT"}

Get(r, type, x) == IF <<type, x>> \in DOMAIN r THEN r[<<type, x>>] ELSE None

MGet(r, type, xs) == [x \in xs |-> Get(r, type, x)]

(* The entries of g, and over them those of f.                             *)
Onto(f, g) == [x \in DOMAIN f \cup DOMAIN g |-> IF x \in DOMAIN f THEN f[x] ELSE g[x]]

Put(r, type, x, v) == Onto([k \in {<<type, x>>} |-> v], r)

MPut(r, type, f) == Onto([k \in {<<type, x>> : x \in DOMAIN f} |-> f[k[2]]], r)

(* The places in list s of the members of K, and those members, both in    *)
(* the order of the list.                                                  *)
PlacesOf(s, K) ==
    CHOOSE f \in SeqOf(DOMAIN s, Len(s)) :
        /\ ToSet(f) = {i \in DOMAIN s : s[i] \in K}
        /\ \A i, j \in DOMAIN f : i < j => f[i] < f[j]

Sift(s, K) == [i \in DOMAIN PlacesOf(s, K) |-> s[PlacesOf(s, K)[i]]]

(* The ids of a batch, in the order of the names that asked for one.       *)
Assigned(names, first) == [n \in ToSet(names) |-> first + (CHOOSE i \in DOMAIN names : names[i] = n) - 1]
-----------------------------------------------------------------------------
(* Contacts and addresses: long id to short id, short id to details, and   *)
(* the corporate address of an account under the account's long id.        *)
ContactIds(r, longs) == MGet(r, "CONTACT", longs)
ContactDetails(r, ids) == MGet(r, "CONTACT", ids)
SetContactIds(r, ids) == MPut(r, "CONTACT", ids)
SetContactDetails(r, details) == MPut(r, "CONTACT", details)

AddressIds(r, longs) == MGet(r, "ADDRESS", longs)
SetCorporate(r, account, long) == Put(r, "ADDRESS", account, long)
SetAddressDetails(r, details) == MPut(r, "ADDRESS", details)

(* Advertisers, and their ids at Koddi by brand or by brand and agency.    *)
AdvertiserIds(r, longs) == MGet(r, "ADVERTISER", longs)
AdvertiserDetails(r, ids) == MGet(r, "ADVERTISER", ids)
SetAdvertiserIds(r, ids) == MPut(r, "ADVERTISER", ids)
SetAdvertiserDetails(r, details) == MPut(r, "ADVERTISER", details)
KoddiAdvertiser(r, brand, agency) == Get(r, "KODDI_ADVERTISER", <<brand, agency>>)
SetKoddiAdvertisers(r, ids) == MPut(r, "KODDI_ADVERTISER", ids)

(* Placements: "id:name" to short id, short id to details, name to short id. *)
PlacementId(r, long) == Get(r, "PLACEMENT", long)
SetPlacementDetails(r, id, details) == Put(r, "PLACEMENT", id, details)
SetPlacementName(r, name, id) == Put(r, "PLACEMENT", name, id)

(* Campaigns: the Koddi id by short id and the long id by Koddi id are     *)
(* both under CAMPAIGN:KODDI:<number>.                                     *)
KoddiByShort(r, shorts) == MGet(r, "CAMPAIGN:KODDI", shorts)
CampaignByKoddi(r, koddis) == MGet(r, "CAMPAIGN:KODDI", koddis)
ShortCampaign(r, longs) == MGet(r, "CAMPAIGN", longs)
SetKoddiByShort(r, koddis) == MPut(r, "CAMPAIGN:KODDI", koddis)
SetCampaignByKoddi(r, longs) == MPut(r, "CAMPAIGN:KODDI", longs)
SetShortCampaign(r, shorts) == MPut(r, "CAMPAIGN", shorts)

(* Ad groups: long id by Koddi id, short id by long id.                    *)
AdGroupByKoddi(r, koddis) == MGet(r, "AD_GROUP:KODDI", koddis)
ShortAdGroup(r, longs) == MGet(r, "AD_GROUP", longs)
SetAdGroupByKoddi(r, longs) == MPut(r, "AD_GROUP:KODDI", longs)
SetShortAdGroup(r, shorts) == MPut(r, "AD_GROUP", shorts)
=============================================================================
