----------------------------- MODULE ProductIds -----------------------------
(***************************************************************************)
(* Products and their entity ids: what a client of the API sees as         *)
(* "entity id" is the short id of a UPC, and a bid on an entity id is sent *)
(* upstream as a bid on the UPC of the cached product details of that id.  *)
(*                                                                         *)
(* Two requests fill the cache, both on top of the ids of NumericIds:      *)
(*   "page"  a page of products is listed (ProductService,                 *)
(*           __get_cached_product_ids_batch): read the ids of the UPCs,    *)
(*           assign the missing ones, write the details of all of them;    *)
(*   "bind"  the bids of an ad group are shown as entities                 *)
(*           (BidManagerService.bind_bids_to_entity_ids): read the ids,    *)
(*           read the details, assign the missing ids, fetch the products  *)
(*           without details and write the details of the valid ones.      *)
(* A third one reads it: the client puts bids on entity ids it was given   *)
(* (build_pla_create_bids_request_from_entities).                          *)
(*                                                                         *)
(* Each read and each write is one Redis command or one upstream call, and *)
(* requests interleave between them.  A request and its call of            *)
(* assign_numeric_id_batch have the same name in Calls.                    *)
(***************************************************************************)
EXTENDS NumericIds

CONSTANT Pages  \* the lists of UPCs a request may be about

(* A request asks for ids of the UPCs of its list that have none.          *)
ASSUME PagesAssumption ==
    \A s \in Pages :
        /\ s \in Requests
        /\ \A K \in SUBSET Elems(s) : K # {} => \E t \in Requests : IsSublist(t, s, K)

VARIABLES
    details,    \* details[i]: the product stored under "PRODUCT:<i>"
    stage,      \* where each request stands
    op,         \* what it does: "page" or "bind"
    upcs,       \* the UPCs it is about
    ids,        \* ids[c][u]: the id request c has for UPC u, NoId for none
    lacking,    \* bind: the UPCs whose details were not in the cache
    saving,     \* the UPCs whose details it writes
    bids        \* the last bids sent upstream: <<id, selected UPC, UPC of the bid>>

reqVars == <<stage, op, upcs, ids, lacking, saving>>
prodVars == <<idVars, reqVars, details, bids>>

Stages == {"idle", "readIds", "readDetails", "assign", "drawing",
           "fetch", "write", "done", "failed"}

Missing(c) == Sublist(upcs[c], {u \in Elems(upcs[c]) : ids[c][u] = NoId})

(* The details written by request c: a dict from id to product, in which a *)
(* later UPC of the list overrides an earlier one with the same id.        *)
Saved(c) ==
    LET at(i) == {n \in 1..Len(upcs[c]) : upcs[c][n] \in saving[c]
                                          /\ ids[c][upcs[c][n]] = i}
    IN  [i \in {ids[c][u] : u \in saving[c]} |->
            upcs[c][CHOOSE n \in at(i) : \A m \in at(i) : m <= n]]

(* Function f with the entries of g added or replaced, as MSET does.       *)
Merge(f, g) ==
    [i \in DOMAIN f \cup DOMAIN g |-> IF i \in DOMAIN g THEN g[i] ELSE f[i]]
-----------------------------------------------------------------------------
ProductInit ==
    /\ AssignInit
    /\ details = << >>
    /\ stage = [c \in Calls |-> "idle"]
    /\ op = [c \in Calls |-> "page"]
    /\ upcs = [c \in Calls |-> << >>]
    /\ ids = [c \in Calls |-> [u \in Keys |-> NoId]]
    /\ lacking = [c \in Calls |-> {}]
    /\ saving = [c \in Calls |-> {}]
    /\ bids = {}

Start(c, o, s) ==
    /\ stage[c] = "idle"
    /\ stage' = [stage EXCEPT ![c] = "readIds"]
    /\ op' = [op EXCEPT ![c] = o]
    /\ upcs' = [upcs EXCEPT ![c] = s]
    /\ UNCHANGED <<idVars, details, ids, lacking, saving, bids>>

(* Mutant of ReadIds: a page only writes the details of the UPCs that had  *)
(* no id yet.                                                              *)
ReadIdsSaveNew(c) ==
    /\ stage[c] = "readIds"
    /\ ids' = [ids EXCEPT ![c] = [u \in Keys |-> IF u \in Elems(upcs[c])
                                                 THEN short[u] ELSE NoId]]
    /\ IF op[c] = "page"
       THEN /\ stage' = [stage EXCEPT ![c] = "assign"]
            /\ saving' = [saving EXCEPT ![c] = {u \in Elems(upcs[c]) : short[u] = NoId}]
       ELSE /\ stage' = [stage EXCEPT ![c] = "readDetails"]
            /\ UNCHANGED saving
    /\ UNCHANGED <<idVars, details, op, upcs, lacking, bids>>

(* MGET of the ids of the UPCs.  A page writes the details of all of them. *)
ReadIds(c) ==
    /\ stage[c] = "readIds"
    /\ ids' = [ids EXCEPT ![c] = [u \in Keys |-> IF u \in Elems(upcs[c])
                                                 THEN short[u] ELSE NoId]]
    /\ IF op[c] = "page"
       THEN /\ stage' = [stage EXCEPT ![c] = "assign"]
            /\ saving' = [saving EXCEPT ![c] = Elems(upcs[c])]
       ELSE /\ stage' = [stage EXCEPT ![c] = "readDetails"]
            /\ UNCHANGED saving
    /\ UNCHANGED <<idVars, details, op, upcs, lacking, bids>>

(* bind: MGET of the details under the ids just read.                      *)
ReadDetails(c) ==
    /\ stage[c] = "readDetails"
    /\ lacking' = [lacking EXCEPT ![c] = {u \in Elems(upcs[c]) : ids[c][u] \notin DOMAIN details}]
    /\ stage' = [stage EXCEPT ![c] = "assign"]
    /\ UNCHANGED <<idVars, details, op, upcs, ids, saving, bids>>

(* What follows once every UPC of the request has an id.                   *)
AfterIds(c) ==
    IF op[c] = "page" THEN "write"
    ELSE IF lacking[c] # {} THEN "fetch" ELSE "done"

NothingMissing(c) ==
    /\ stage[c] = "assign"
    /\ Missing(c) = << >>
    /\ stage' = [stage EXCEPT ![c] = AfterIds(c)]
    /\ UNCHANGED <<idVars, details, op, upcs, ids, lacking, saving, bids>>

(* set_product_short_ids_by_upcs of the UPCs without an id.                *)
AssignMissing(c) ==
    /\ stage[c] = "assign"
    /\ Missing(c) # << >>
    /\ Begin(c, Missing(c))
    /\ stage' = [stage EXCEPT ![c] = "drawing"]
    /\ UNCHANGED <<details, op, upcs, ids, lacking, saving, bids>>

(* The commands of the request's assign_numeric_id_batch.                  *)
Assigning(c) ==
    /\ stage[c] = "drawing"
    /\ Incr(c) \/ IncrBy(c) \/ Store(c)
    /\ UNCHANGED <<details, reqVars, bids>>

(* Mutant of TakeIds: the new ids are not put back into the request.       *)
ForgetIds(c) ==
    /\ stage[c] = "drawing"
    /\ Return(c)
    /\ stage' = [stage EXCEPT ![c] = AfterIds(c)]
    /\ UNCHANGED <<details, op, upcs, ids, lacking, saving, bids>>

(* Mutant of TakeIds: the ids are zipped with all UPCs of the request.     *)
TakeIdsByPosition(c) ==
    /\ stage[c] = "drawing"
    /\ Return(c)
    /\ ids' = [ids EXCEPT ![c] =
                  [u \in Keys |-> IF u \in Elems(upcs[c])
                                  THEN first[c] + IndexOf(upcs[c], u) - 1
                                  ELSE NoId]]
    /\ stage' = [stage EXCEPT ![c] = AfterIds(c)]
    /\ UNCHANGED <<details, op, upcs, lacking, saving, bids>>

(* The batch returned: zip the missing UPCs with their new ids.            *)
TakeIds(c) ==
    /\ stage[c] = "drawing"
    /\ Return(c)
    /\ ids' = [ids EXCEPT ![c] = [u \in Keys |-> IF u \in Elems(keys[c])
                                                 THEN IdOf(c, u) ELSE ids[c][u]]]
    /\ stage' = [stage EXCEPT ![c] = AfterIds(c)]
    /\ UNCHANGED <<details, op, upcs, lacking, saving, bids>>

(* bind: get_products_by_upcs upstream; only validProducts are cached, and *)
(* with none of them the MSET is skipped.                                  *)
FetchProducts(c, valid) ==
    /\ stage[c] = "fetch"
    /\ valid \subseteq lacking[c]
    /\ saving' = [saving EXCEPT ![c] = valid]
    /\ stage' = [stage EXCEPT ![c] = IF valid = {} THEN "done" ELSE "write"]
    /\ UNCHANGED <<idVars, details, op, upcs, ids, lacking, bids>>

(* MSET of the details.                                                    *)
WriteDetails(c) ==
    /\ stage[c] = "write"
    /\ details' = Merge(details, Saved(c))
    /\ stage' = [stage EXCEPT ![c] = "done"]
    /\ UNCHANGED <<idVars, op, upcs, ids, lacking, saving, bids>>

(* A timeout or an error of any command or upstream call, or the death of  *)
(* the worker: what was written stays.                                     *)
Fail(c) ==
    /\ stage[c] \notin {"idle", "done", "failed"}
    /\ IF stage[c] = "drawing" THEN Lost(c) ELSE UNCHANGED idVars
    /\ stage' = [stage EXCEPT ![c] = "failed"]
    /\ UNCHANGED <<details, op, upcs, ids, lacking, saving, bids>>

(* Mutant of CreateBids: entities are zipped with the products found, so   *)
(* an entity without details shifts the others.                            *)
CreateBidsShifted(c, S) ==
    /\ stage[c] = "done"
    /\ S \subseteq Elems(upcs[c])
    /\ LET sel == SelectSeq(upcs[c], LAMBDA u : u \in S)
           found == SelectSeq(sel, LAMBDA u : ids[c][u] \in DOMAIN details)
       IN  /\ found # << >>
           /\ bids' = {<<ids[c][sel[n]], sel[n], details[ids[c][found[n]]]>> : n \in 1..Len(found)}
    /\ UNCHANGED <<idVars, details, reqVars>>

(* The client selects entities S among those request c answered with.  The *)
(* bids go on the UPCs of the details of their ids; ids without details    *)
(* are skipped, and with none left the request is refused (400).           *)
CreateBids(c, S) ==
    /\ stage[c] = "done"
    /\ S \subseteq Elems(upcs[c])
    /\ LET found == {u \in S : ids[c][u] \in DOMAIN details}
       IN  /\ found # {}
           /\ bids' = {<<ids[c][u], u, details[ids[c][u]]>> : u \in found}
    /\ UNCHANGED <<idVars, details, reqVars>>

ProductNext ==
    \E c \in Calls :
        \/ \E o \in {"page", "bind"}, s \in Pages : Start(c, o, s)
        \/ ReadIds(c)
        \/ ReadDetails(c)
        \/ NothingMissing(c)
        \/ AssignMissing(c)
        \/ Assigning(c)
        \/ TakeIds(c)
        \/ \E valid \in SUBSET Keys : FetchProducts(c, valid)
        \/ WriteDetails(c)
        \/ Fail(c)
        \/ \E S \in SUBSET Keys : CreateBids(c, S)

ProductSpec == ProductInit /\ [][ProductNext]_prodVars
-----------------------------------------------------------------------------
(* The types of the requests, and: details are stored under ids that were  *)
(* drawn, never under an absent one.                                       *)
ProductTypeOK ==
    /\ AssignTypeOK
    /\ stage \in [Calls -> Stages]
    /\ op \in [Calls -> {"page", "bind"}]
    /\ upcs \in [Calls -> Seq(Keys)]
    /\ ids \in [Calls -> [Keys -> Nat]]
    /\ lacking \in [Calls -> SUBSET Keys]
    /\ saving \in [Calls -> SUBSET Keys]
    /\ DOMAIN details \subseteq 1..counter
    /\ \A i \in DOMAIN details : details[i] \in Keys
    /\ \A b \in bids : b \in (1..counter) \X Keys \X Keys

(* An entity id that a request answered with names the product the request *)
(* said it does: whatever requests ran at the same time or died half way,  *)
(* the details stored under the id are those of that UPC, unless the id    *)
(* belongs to two batches that interleaved (the hazard of                  *)
(* assign_numeric_id_batch, SerialCallsDisjoint).                          *)
GrantedIdNamesItsProduct ==
    \A c \in Calls : stage[c] = "done" =>
        \A u \in Elems(upcs[c]) :
            LET i == ids[c][u] IN
            i \in DOMAIN details /\ ~Shared(i) => details[i] = u

(* A listed page and a bound ad group leave every id they answer with      *)
(* resolvable: its details are in the cache for good, even if an earlier   *)
(* request died between storing the id and writing the details.  The one   *)
(* exception is a bound UPC the product service does not call valid.       *)
GrantedIdResolves ==
    \A c \in Calls : stage[c] = "done" =>
        \A u \in Elems(upcs[c]) \ (lacking[c] \ saving[c]) : ids[c][u] \in DOMAIN details

(* A bid on a selected entity goes upstream for the product the client was *)
(* shown under that entity id, unless the id is shared by two batches.     *)
BidsOnSelectedProduct ==
    \A b \in bids : ~Shared(b[1]) => b[2] = b[3]

(* What bind_bids_to_entity_ids says of itself, "Make sure the bids have:  *)
(* upc -> entity id in redis; entity id -> product string in redis": once  *)
(* it has answered, the product stored under the entity id it gave a bid   *)
(* is the product of that bid.                                             *)
BoundIdNamesItsProduct ==
    \A c \in Calls : stage[c] = "done" /\ op[c] = "bind" =>
        \A u \in Elems(upcs[c]) :
            ids[c][u] \in DOMAIN details => details[ids[c][u]] = u
=============================================================================
