----------------------------- MODULE AccountIds -----------------------------
(***************************************************************************)
(* Accounts and their short ids (AccountService).                          *)
(*                                                                         *)
(*   "list"  parse_accounts_data answers GET /accounts and the metadata:   *)
(*           read the ids of the listed client ids, assign the missing     *)
(*           ones as one batch, then write the way back, short id to       *)
(*           client id, of the newly assigned ones only;                   *)
(*   "get"   get_or_create_cached_account_id, for the account of a         *)
(*           campaign that is shown: read the id, assign one if there is   *)
(*           none.  It writes no way back.                                 *)
(*                                                                         *)
(* Every later request names the account by its short id, and              *)
(* get_account_by_numeric_id follows the way back or answers 404.          *)
(***************************************************************************)
EXTENDS NumericIds

CONSTANT Listings   \* the lists of accounts GET /accounts may be answered with

(* The accounts of a listing that have no id make a list for the batch.    *)
ASSUME ListingsAssumption ==
    \A s \in Listings :
        /\ s \in Requests
        /\ \A K \in SUBSET Elems(s) : K # {} => \E t \in Requests : IsSublist(t, s, K)

NotFound == "404"

(* The answer 404 is no client id.                                         *)
ASSUME NotFoundAssumption == NotFound \notin Keys

VARIABLES
    long,       \* long[i]: the client id stored under "ACCOUNT:<i>"
    stage,      \* where each request stands
    op,         \* "list" or "get"
    accounts,   \* the accounts it is about
    ids         \* ids[c][k]: the id request c has for account k

reqVars == <<stage, op, accounts, ids>>
acctVars == <<idVars, reqVars, long>>

Stages == {"idle", "read", "assign", "drawing", "save", "done", "failed"}

Missing(c) == Sublist(accounts[c], {k \in Elems(accounts[c]) : ids[c][k] = NoId})

(* get_account_by_numeric_id                                               *)
AccountByNumericId(i) == IF i \in DOMAIN long THEN long[i] ELSE NotFound
-----------------------------------------------------------------------------
AccountInit ==
    /\ AssignInit
    /\ long = << >>
    /\ stage = [c \in Calls |-> "idle"]
    /\ op = [c \in Calls |-> "list"]
    /\ accounts = [c \in Calls |-> << >>]
    /\ ids = [c \in Calls |-> [k \in Keys |-> NoId]]

Start(c, o, s) ==
    /\ stage[c] = "idle"
    /\ o = "get" => Len(s) = 1
    /\ stage' = [stage EXCEPT ![c] = "read"]
    /\ op' = [op EXCEPT ![c] = o]
    /\ accounts' = [accounts EXCEPT ![c] = s]
    /\ UNCHANGED <<idVars, long, ids>>

(* GET or MGET of the short ids; with all of them cached the request is    *)
(* answered.                                                               *)
ReadIds(c) ==
    /\ stage[c] = "read"
    /\ ids' = [ids EXCEPT ![c] = [k \in Keys |-> IF k \in Elems(accounts[c])
                                                 THEN short[k] ELSE NoId]]
    /\ stage' = [stage EXCEPT ![c] =
                   IF \A k \in Elems(accounts[c]) : short[k] # NoId
                   THEN "done" ELSE "assign"]
    /\ UNCHANGED <<idVars, long, op, accounts>>

(* assign_numeric_id_batch of the missing accounts, or assign_numeric_id.  *)
AssignMissing(c) ==
    /\ stage[c] = "assign"
    /\ IF op[c] = "list" THEN Begin(c, Missing(c)) ELSE BeginOne(c, accounts[c])
    /\ stage' = [stage EXCEPT ![c] = "drawing"]
    /\ UNCHANGED <<long, op, accounts, ids>>

Assigning(c) ==
    /\ stage[c] = "drawing"
    /\ Incr(c) \/ IncrOne(c) \/ IncrBy(c) \/ Store(c)
    /\ UNCHANGED <<long, reqVars>>

(* Mutant of TakeIds: the listing zips the new ids with all its accounts.  *)
TakeIdsByPosition(c) ==
    /\ stage[c] = "drawing"
    /\ Return(c)
    /\ ids' = [ids EXCEPT ![c] =
                  [k \in Keys |-> IF k \in Elems(accounts[c])
                                  THEN first[c] + IndexOf(accounts[c], k) - 1
                                  ELSE NoId]]
    /\ stage' = [stage EXCEPT ![c] = IF op[c] = "list" THEN "save" ELSE "done"]
    /\ UNCHANGED <<long, op, accounts>>

(* Mutant of TakeIds: the listing is answered with its new ids at once.    *)
TakeIdsOnly(c) ==
    /\ stage[c] = "drawing"
    /\ Return(c)
    /\ ids' = [ids EXCEPT ![c] = [k \in Keys |-> IF k \in Elems(keys[c])
                                                 THEN IdOf(c, k) ELSE ids[c][k]]]
    /\ stage' = [stage EXCEPT ![c] = "done"]
    /\ UNCHANGED <<long, op, accounts>>

(* Zip the missing accounts with their new ids.                            *)
TakeIds(c) ==
    /\ stage[c] = "drawing"
    /\ Return(c)
    /\ ids' = [ids EXCEPT ![c] = [k \in Keys |-> IF k \in Elems(keys[c])
                                                 THEN IdOf(c, k) ELSE ids[c][k]]]
    /\ stage' = [stage EXCEPT ![c] = IF op[c] = "list" THEN "save" ELSE "done"]
    /\ UNCHANGED <<long, op, accounts>>

(* MSET short id -> client id of the newly assigned accounts.              *)
SaveLongIds(c) ==
    /\ stage[c] = "save"
    /\ LET new == [i \in {ids[c][k] : k \in Elems(keys[c])} |->
                      CHOOSE k \in Elems(keys[c]) : ids[c][k] = i]
       IN  long' = [i \in DOMAIN long \cup DOMAIN new |->
                       IF i \in DOMAIN new THEN new[i] ELSE long[i]]
    /\ stage' = [stage EXCEPT ![c] = "done"]
    /\ UNCHANGED <<idVars, op, accounts, ids>>

(* A timeout of any command, or the death of the worker.                   *)
Fail(c) ==
    /\ stage[c] \notin {"idle", "done", "failed"}
    /\ IF stage[c] = "drawing" THEN Lost(c) ELSE UNCHANGED idVars
    /\ stage' = [stage EXCEPT ![c] = "failed"]
    /\ UNCHANGED <<long, op, accounts, ids>>

AccountNext ==
    \E c \in Calls :
        \/ \E o \in {"list", "get"}, s \in Listings : Start(c, o, s)
        \/ ReadIds(c)
        \/ AssignMissing(c)
        \/ Assigning(c)
        \/ TakeIds(c)
        \/ SaveLongIds(c)
        \/ Fail(c)

AccountSpec == AccountInit /\ [][AccountNext]_acctVars
-----------------------------------------------------------------------------
(* The types of the requests; the way back exists for drawn ids only.      *)
AccountTypeOK ==
    /\ AssignTypeOK
    /\ stage \in [Calls -> Stages]
    /\ op \in [Calls -> {"list", "get"}]
    /\ accounts \in [Calls -> Seq(Keys)]
    /\ ids \in [Calls -> [Keys -> Nat]]
    /\ DOMAIN long \subseteq 1..counter
    /\ \A i \in DOMAIN long : long[i] \in Keys

(* Every account a request was answered with has an id, and the way back   *)
(* from that id, when there is one, leads to that account and not to       *)
(* another client's, unless the id is shared by interleaved batches.  This *)
(* is what keeps a client from acting on someone else's account.           *)
AccountIdNamesItsAccount ==
    \A c \in Calls : stage[c] = "done" =>
        \A k \in Elems(accounts[c]) :
            /\ ids[c][k] # NoId
            /\ Shared(ids[c][k]) \/ AccountByNumericId(ids[c][k]) \in {k, NotFound}

(* An id that GET /accounts assigned itself can be looked up from the      *)
(* moment the listing is answered, and for good.                           *)
FreshlyListedIdResolves ==
    \A c \in Calls : stage[c] = "done" /\ op[c] = "list" =>
        \A k \in Elems(keys[c]) : AccountByNumericId(ids[c][k]) # NotFound

(* The API documentation: the accountId of a new campaign is the "Id from  *)
(* the Account entity."  So once no request is under way, and none of them *)
(* failed, every id that GET /accounts listed can be used in a later       *)
(* request, and is not answered with 404.                                  *)
ListedIdResolves ==
    (\A c \in Calls : stage[c] \in {"idle", "done"}) =>
        \A c \in Calls : stage[c] = "done" /\ op[c] = "list" =>
            \A k \in Elems(accounts[c]) : AccountByNumericId(ids[c][k]) # NotFound
=============================================================================
