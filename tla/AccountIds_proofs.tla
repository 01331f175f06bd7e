-------------------------- MODULE AccountIds_proofs --------------------------
(* Proofs about AccountIds, for any number of requests, accounts and       *)
(* listings.                                                               *)
EXTENDS AccountIds, NumericIds_proofs

RequestTypeOK ==
    /\ stage \in [Calls -> Stages]
    /\ op \in [Calls -> {"list", "get"}]
    /\ accounts \in [Calls -> Seq(Keys)]
    /\ ids \in [Calls -> [Keys -> Nat]]

(* A request calls for ids only once it knows which it lacks, and what it  *)
(* lacks is what it asks the batch for.                                    *)
RequestShape(c) ==
    /\ stage[c] # "idle" => accounts[c] \in Listings
    /\ stage[c] \in {"idle", "read", "assign"} => pc[c] = "idle"
    /\ pc[c] = "idle" => keys[c] = << >>
    /\ stage[c] = "drawing" =>
          \A k \in Elems(accounts[c]) : ids[c][k] # NoId \/ k \in Elems(keys[c])
    /\ stage[c] \in {"save", "done"} =>
          \A k \in Elems(accounts[c]) : ids[c][k] # NoId
    /\ stage[c] \in {"save", "done"} =>
          \A k \in Elems(keys[c]) : k \in Keys /\ ids[c][k] # NoId
    /\ stage[c] = "done" /\ op[c] = "list" =>
          \A k \in Elems(keys[c]) : ids[c][k] \in DOMAIN long

(* The ids a request holds were drawn for the accounts it holds them for.  *)
HeldIdsDrawn(c) == \A k \in Keys : ids[c][k] # NoId => DrawnFor(ids[c][k], k)

(* The way back from an id leads to an account the id was drawn for.       *)
WayBackDrawn == \A i \in DOMAIN long : long[i] \in Keys /\ DrawnFor(i, long[i])

AccountInv ==
    /\ AssignInv
    /\ RequestTypeOK
    /\ \A c \in Calls : RequestShape(c)
    /\ \A c \in Calls : HeldIdsDrawn(c)
    /\ WayBackDrawn
-----------------------------------------------------------------------------
(* A request takes the steps of one call of the batch, or none.            *)
LEMMA RequestStepIsCallStep ==
    ASSUME [AccountNext]_acctVars
    PROVE  [AssignNext]_idVars
  <1>1. CASE UNCHANGED acctVars
    BY <1>1 DEF acctVars
  <1>2. ASSUME NEW c \in Calls, AssignMissing(c)
        PROVE  AssignNext
    BY <1>2 DEF AssignMissing, Begin, BeginOne, AssignNext
  <1>3. ASSUME NEW c \in Calls, Assigning(c)
        PROVE  AssignNext
    BY <1>3 DEF Assigning, AssignNext
  <1>4. ASSUME NEW c \in Calls, TakeIds(c)
        PROVE  AssignNext
    BY <1>4 DEF TakeIds, AssignNext
  <1>5. ASSUME NEW c \in Calls, Fail(c)
        PROVE  AssignNext \/ UNCHANGED idVars
    BY <1>5 DEF Fail, AssignNext
  <1>6. ASSUME NEW c \in Calls, NEW o, NEW s, Start(c, o, s)
        PROVE  UNCHANGED idVars
    BY <1>6 DEF Start
  <1>7. ASSUME NEW c \in Calls, ReadIds(c) \/ SaveLongIds(c)
        PROVE  UNCHANGED idVars
    BY <1>7 DEF ReadIds, SaveLongIds
  <1> QED
    BY <1>1, <1>2, <1>3, <1>4, <1>5, <1>6, <1>7 DEF AccountNext

(* Before any request nothing is held, and there is no way back.           *)
LEMMA AccountInitEstablishesInv == AccountInit => AccountInv
  <1> SUFFICES ASSUME AccountInit PROVE AccountInv
    OBVIOUS
  <1>1. AssignInv
    BY InitEstablishesInv DEF AccountInit
  <1>2. RequestTypeOK
    BY DEF AccountInit, RequestTypeOK, Stages, NoId
  <1>3. \A c \in Calls : RequestShape(c) /\ HeldIdsDrawn(c)
    BY DEF AccountInit, AssignInit, RequestShape, HeldIdsDrawn
  <1>4. WayBackDrawn
    BY DEF AccountInit, WayBackDrawn
  <1> QED
    BY <1>1, <1>2, <1>3, <1>4 DEF AccountInv

(* A request that takes no step is as it was: the ids drawn by others and  *)
(* the ways back they save take nothing from it.                           *)
LEMMA OtherRequest ==
    ASSUME AccountInv, [AssignNext]_idVars, NEW c \in Calls,
           stage'[c] = stage[c], op'[c] = op[c], accounts'[c] = accounts[c],
           ids'[c] = ids[c], pc'[c] = pc[c], keys'[c] = keys[c],
           DOMAIN long \subseteq DOMAIN long'
    PROVE  RequestShape(c)' /\ HeldIdsDrawn(c)'
  <1>1. RequestShape(c)'
    BY DEF AccountInv, RequestShape
  <1>2. HeldIdsDrawn(c)'
    BY DrawnStays DEF AccountInv, HeldIdsDrawn
  <1> QED
    BY <1>1, <1>2

(* Ways back that are kept still lead to accounts their ids were drawn for. *)
LEMMA SameWayBack ==
    ASSUME AccountInv, [AssignNext]_idVars, long' = long
    PROVE  WayBackDrawn'
  BY DrawnStays DEF AccountInv, WayBackDrawn

(* The parts of the invariant, put together for a step of request e.       *)
LEMMA PartsMakeInv ==
    ASSUME AccountInv, [AssignNext]_idVars, NEW e \in Calls,
           RequestTypeOK', WayBackDrawn', RequestShape(e)', HeldIdsDrawn(e)',
           \A c \in Calls : c # e => RequestShape(c)' /\ HeldIdsDrawn(c)'
    PROVE  AccountInv'
  <1>1. AssignInv'
    BY AssignStep DEF AccountInv
  <1> QED
    BY <1>1 DEF AccountInv

LEMMA StartStep ==
    ASSUME AccountInv, NEW e \in Calls, NEW o \in {"list", "get"}, NEW s \in Listings,
           Start(e, o, s)
    PROVE  AccountInv'
  <1>1. UNCHANGED idVars /\ long' = long
    BY DEF Start
  <1>2. RequestTypeOK'
    BY ListingsAssumption, RequestIsSeq DEF AccountInv, RequestTypeOK, Stages, Start
  <1>3. \A c \in Calls : c # e => RequestShape(c)' /\ HeldIdsDrawn(c)'
    BY <1>1, OtherRequest DEF AccountInv, RequestTypeOK, Start, idVars, callVars
  <1>4. /\ stage[e] = "idle" /\ stage'[e] = "read" /\ accounts'[e] = s
        /\ ids' = ids /\ pc' = pc /\ keys' = keys
    BY DEF AccountInv, RequestTypeOK, Start, idVars, callVars
  <1>5. RequestShape(e)'
    BY <1>4 DEF AccountInv, RequestShape
  <1>6. HeldIdsDrawn(e)'
    BY <1>1, <1>4, DrawnStays DEF AccountInv, HeldIdsDrawn
  <1> QED
    BY <1>1, <1>2, <1>3, <1>5, <1>6, SameWayBack, PartsMakeInv

(* What is read was stored for the account it is read for.                 *)
LEMMA ReadIdsStep ==
    ASSUME AccountInv, NEW e \in Calls, ReadIds(e)
    PROVE  AccountInv'
  <1>1. UNCHANGED idVars /\ long' = long
    BY DEF ReadIds
  <1>2. /\ stage[e] = "read" /\ op' = op /\ accounts' = accounts
        /\ pc' = pc /\ keys' = keys /\ short' = short
        /\ stage'[e] = IF \A k \in Elems(accounts[e]) : short[k] # NoId
                       THEN "done" ELSE "assign"
        /\ \A k \in Keys : ids'[e][k] = IF k \in Elems(accounts[e]) THEN short[k] ELSE NoId
    BY DEF AccountInv, RequestTypeOK, ReadIds, idVars, callVars
  <1>3. RequestTypeOK'
    <2>1. [k \in Keys |-> IF k \in Elems(accounts[e]) THEN short[k] ELSE NoId] \in [Keys -> Nat]
      BY DEF AccountInv, AssignInv, AssignTypeOK, NoId
    <2> QED
      BY <2>1 DEF AccountInv, RequestTypeOK, Stages, ReadIds
  <1>4. \A c \in Calls : c # e => RequestShape(c)' /\ HeldIdsDrawn(c)'
    BY <1>1, OtherRequest DEF AccountInv, RequestTypeOK, ReadIds, idVars, callVars
  <1>5. RequestShape(e)'
    <2>1. accounts[e] \in Listings /\ pc[e] = "idle" /\ keys[e] = << >>
      BY <1>2 DEF AccountInv, RequestShape
    <2>2. \A k \in Elems(accounts[e]) : k \in Keys
      BY DEF AccountInv, RequestTypeOK, Elems
    <2>3. Elems(keys[e]) = {}
      BY <2>1 DEF Elems
    <2>4. stage'[e] = "done" => \A k \in Elems(accounts[e]) : ids'[e][k] # NoId
      BY <1>2, <2>2
    <2> QED
      BY <1>2, <2>1, <2>3, <2>4 DEF RequestShape
  <1>6. HeldIdsDrawn(e)'
    <2> SUFFICES ASSUME NEW k \in Keys, ids'[e][k] # NoId
                 PROVE  DrawnFor(ids[e][k], k)'
      BY DEF HeldIdsDrawn
    <2>1. PICK i : i = ids'[e][k]
      OBVIOUS
    <2>2. i = short[k] /\ DrawnFor(i, k)
      BY <1>2, <2>1, StoredIsDrawn DEF AccountInv
    <2>3. DrawnFor(i, k)'
      BY <1>1, <2>2, DrawnStays DEF AccountInv
    <2> QED
      BY <2>1, <2>3
  <1> QED
    BY <1>1, <1>3, <1>4, <1>5, <1>6, SameWayBack, PartsMakeInv

(* The batch is asked for exactly the accounts without an id.              *)
LEMMA AssignMissingStep ==
    ASSUME AccountInv, NEW e \in Calls, AssignMissing(e)
    PROVE  AccountInv'
  <1>1. [AssignNext]_idVars /\ long' = long
    BY DEF AssignMissing, Begin, BeginOne, AssignNext
  <1>2. /\ stage[e] = "assign" /\ stage'[e] = "drawing"
        /\ op' = op /\ accounts' = accounts /\ ids' = ids
    BY DEF AccountInv, RequestTypeOK, AssignMissing
  <1>3. /\ pc'[e] # "idle"
        /\ keys'[e] = IF op[e] = "list" THEN Missing(e) ELSE accounts[e]
    BY DEF AccountInv, AssignInv, AssignTypeOK, AssignMissing, Begin, BeginOne
  <1>4. RequestTypeOK'
    BY DEF AccountInv, RequestTypeOK, Stages, AssignMissing
  <1>5. \A c \in Calls : c # e => RequestShape(c)' /\ HeldIdsDrawn(c)'
    <2> SUFFICES ASSUME NEW c \in Calls, c # e PROVE RequestShape(c)' /\ HeldIdsDrawn(c)'
      OBVIOUS
    <2>1. stage'[c] = stage[c]
      BY DEF AccountInv, RequestTypeOK, AssignMissing
    <2>2. pc'[c] = pc[c] /\ keys'[c] = keys[c]
      BY DEF AccountInv, AssignInv, AssignTypeOK, AssignMissing, Begin, BeginOne
    <2> QED
      BY <1>1, <1>2, <2>1, <2>2, OtherRequest
  <1>6. RequestShape(e)'
    <2>1. accounts[e] \in Listings
      BY <1>2 DEF AccountInv, RequestShape
    <2>2. PICK K \in SUBSET Elems(accounts[e]) : K = {k \in Elems(accounts[e]) : ids[e][k] = NoId}
      OBVIOUS
    <2>3. Elems(Sublist(accounts[e], K)) = K
      BY <2>1, <2>2, ListingsAssumption, SublistElems
    <2>4. \A k \in Elems(accounts[e]) : ids[e][k] # NoId \/ k \in Elems(keys'[e])
      <3>1. CASE op[e] = "list"
        <4>1. keys'[e] = Sublist(accounts[e], K)
          BY <1>3, <2>2, <3>1 DEF Missing
        <4> QED
          BY <4>1, <2>2, <2>3
      <3>2. CASE op[e] # "list"
        BY <1>3, <3>2
      <3> QED
        BY <3>1, <3>2
    <2> QED
      BY <1>2, <1>3, <2>1, <2>4 DEF RequestShape
  <1>7. HeldIdsDrawn(e)'
    BY <1>1, <1>2, DrawnStays DEF AccountInv, HeldIdsDrawn
  <1> QED
    BY <1>1, <1>4, <1>5, <1>6, <1>7, SameWayBack, PartsMakeInv

(* The commands of the batch leave the request where it is.                *)
LEMMA AssigningStep ==
    ASSUME AccountInv, NEW e \in Calls, Assigning(e)
    PROVE  AccountInv'
  <1>1. [AssignNext]_idVars
    BY DEF Assigning, AssignNext
  <1>2. /\ stage[e] = "drawing" /\ stage' = stage /\ op' = op
        /\ accounts' = accounts /\ ids' = ids /\ long' = long
    BY DEF Assigning, reqVars
  <1>3. keys' = keys /\ pc'[e] # "idle" /\ \A c \in Calls : c # e => pc'[c] = pc[c]
    BY DEF AccountInv, AssignInv, AssignTypeOK, Assigning, Incr, IncrOne, IncrBy, ReserveBy,
           Draw, Store
  <1>4. RequestTypeOK'
    BY <1>2 DEF AccountInv, RequestTypeOK
  <1>5. \A c \in Calls : c # e => RequestShape(c)' /\ HeldIdsDrawn(c)'
    BY <1>1, <1>2, <1>3, OtherRequest
  <1>6. RequestShape(e)'
    BY <1>2, <1>3 DEF AccountInv, RequestShape
  <1>7. HeldIdsDrawn(e)'
    BY <1>1, <1>2, DrawnStays DEF AccountInv, HeldIdsDrawn
  <1> QED
    BY <1>1, <1>2, <1>4, <1>5, <1>6, <1>7, SameWayBack, PartsMakeInv

(* The new ids were drawn by the request's own call, for their accounts.   *)
LEMMA TakeIdsStep ==
    ASSUME AccountInv, NEW e \in Calls, TakeIds(e)
    PROVE  AccountInv'
  <1>1. [AssignNext]_idVars /\ Return(e) /\ long' = long
    BY DEF TakeIds, AssignNext
  <1>2. /\ stage[e] = "drawing"
        /\ stage'[e] = IF op[e] = "list" THEN "save" ELSE "done"
        /\ op' = op /\ accounts' = accounts
        /\ keys' = keys /\ first' = first /\ last' = last
        /\ pc[e] = "stored" /\ pc'[e] = "done"
        /\ \A k \in Keys : ids'[e][k] = IF k \in Elems(keys[e]) THEN IdOf(e, k) ELSE ids[e][k]
    BY DEF AccountInv, AssignInv, AssignTypeOK, RequestTypeOK, TakeIds, Return
  <1>3. Claimed(e) /\ CallShape(e) /\ AssignTypeOK
    BY <1>2 DEF AccountInv, AssignInv, CallShape
  <1>4. \A k \in Elems(keys[e]) : IdOf(e, k) \in Nat /\ IdOf(e, k) # NoId
    BY <1>3, IdInRange DEF NoId
  <1>5. RequestTypeOK'
    <2>1. [k \in Keys |-> IF k \in Elems(keys[e]) THEN IdOf(e, k) ELSE ids[e][k]] \in [Keys -> Nat]
      BY <1>4 DEF AccountInv, RequestTypeOK
    <2> QED
      BY <2>1 DEF AccountInv, RequestTypeOK, Stages, TakeIds
  <1>6. \A c \in Calls : c # e => RequestShape(c)' /\ HeldIdsDrawn(c)'
    <2> SUFFICES ASSUME NEW c \in Calls, c # e PROVE RequestShape(c)' /\ HeldIdsDrawn(c)'
      OBVIOUS
    <2>1. stage'[c] = stage[c] /\ ids'[c] = ids[c]
      BY DEF AccountInv, RequestTypeOK, TakeIds
    <2>2. pc'[c] = pc[c]
      BY <1>1 DEF AccountInv, AssignInv, AssignTypeOK, Return
    <2> QED
      BY <1>1, <1>2, <2>1, <2>2, OtherRequest
  <1>7. RequestShape(e)'
    <2>1. accounts[e] \in Listings
      BY <1>2 DEF AccountInv, RequestShape
    <2>2. \A k \in Elems(accounts[e]) : k \in Keys
      BY DEF AccountInv, RequestTypeOK, Elems
    <2>3. \A k \in Elems(keys[e]) : k \in Keys
      BY <1>3 DEF AssignTypeOK, Elems
    <2>4. \A k \in Elems(keys[e]) : ids'[e][k] # NoId
      BY <1>2, <1>4, <2>3
    <2>5. \A k \in Elems(accounts[e]) : ids'[e][k] # NoId
      BY <1>2, <2>2, <2>4 DEF AccountInv, RequestShape
    <2> QED
      BY <1>2, <2>1, <2>3, <2>4, <2>5 DEF RequestShape
  <1>8. HeldIdsDrawn(e)'
    <2> SUFFICES ASSUME NEW k \in Keys, ids'[e][k] # NoId
                 PROVE  DrawnFor(ids[e][k], k)'
      BY DEF HeldIdsDrawn
    <2>1. PICK i : i = ids'[e][k]
      OBVIOUS
    <2>2. DrawnFor(i, k)
      <3>1. CASE k \in Elems(keys[e])
        BY <1>2, <1>3, <2>1, <3>1 DEF DrawnFor
      <3>2. CASE k \notin Elems(keys[e])
        BY <1>2, <2>1, <3>2 DEF AccountInv, HeldIdsDrawn
      <3> QED
        BY <3>1, <3>2
    <2>3. DrawnFor(i, k)'
      BY <1>1, <2>2, DrawnStays DEF AccountInv
    <2> QED
      BY <2>1, <2>3
  <1> QED
    BY <1>1, <1>5, <1>6, <1>7, <1>8, SameWayBack, PartsMakeInv

(* The way back that is saved for an id leads to an account the id was     *)
(* drawn for; the ways back of other requests' ids are kept.               *)
LEMMA SaveLongIdsStep ==
    ASSUME AccountInv, NEW e \in Calls, SaveLongIds(e)
    PROVE  AccountInv'
  <1>1. UNCHANGED idVars
    BY DEF SaveLongIds
  <1>2. /\ stage[e] = "save" /\ stage'[e] = "done" /\ op' = op
        /\ accounts' = accounts /\ ids' = ids /\ pc' = pc /\ keys' = keys
    BY DEF AccountInv, RequestTypeOK, SaveLongIds, idVars, callVars
  <1>3. PICK New : New = {ids[e][k] : k \in Elems(keys[e])}
    OBVIOUS
  <1>4. PICK back : back = [i \in New |-> CHOOSE k \in Elems(keys[e]) : ids[e][k] = i]
    OBVIOUS
  <1>5. long' = [i \in DOMAIN long \cup DOMAIN back |->
                    IF i \in DOMAIN back THEN back[i] ELSE long[i]]
    BY <1>3, <1>4 DEF SaveLongIds
  <1>6. RequestTypeOK'
    BY DEF AccountInv, RequestTypeOK, Stages, SaveLongIds
  <1>7. \A c \in Calls : c # e => RequestShape(c)' /\ HeldIdsDrawn(c)'
    <2>1. DOMAIN long \subseteq DOMAIN long'
      BY <1>5
    <2>2. \A c \in Calls : c # e => stage'[c] = stage[c]
      BY DEF AccountInv, RequestTypeOK, SaveLongIds
    <2> QED
      BY <1>1, <1>2, <2>1, <2>2, OtherRequest
  <1>8. \A k \in Elems(keys[e]) : k \in Keys /\ ids[e][k] # NoId
    BY <1>2 DEF AccountInv, RequestShape
  <1>9. RequestShape(e)'
    <2>1. \A k \in Elems(keys[e]) : ids[e][k] \in DOMAIN long'
      BY <1>3, <1>4, <1>5
    <2> QED
      BY <1>2, <2>1 DEF AccountInv, RequestShape
  <1>10. HeldIdsDrawn(e)'
    BY <1>1, <1>2, DrawnStays DEF AccountInv, HeldIdsDrawn
  <1>11. WayBackDrawn'
    <2> SUFFICES ASSUME NEW i \in DOMAIN long'
                 PROVE  long'[i] \in Keys /\ DrawnFor(i, long[i])'
      BY DEF WayBackDrawn
    <2>1. PICK k : k = long'[i]
      OBVIOUS
    <2>2. k \in Keys /\ DrawnFor(i, k)
      <3>1. CASE i \in New
        <4>1. k \in Elems(keys[e]) /\ ids[e][k] = i
          BY <1>3, <1>4, <1>5, <2>1, <3>1
        <4> QED
          BY <1>8, <4>1 DEF AccountInv, HeldIdsDrawn
      <3>2. CASE i \notin New
        <4>1. i \in DOMAIN long /\ k = long[i]
          BY <1>4, <1>5, <2>1, <3>2
        <4> QED
          BY <4>1 DEF AccountInv, WayBackDrawn
      <3> QED
        BY <3>1, <3>2
    <2>3. DrawnFor(i, k)'
      BY <1>1, <2>2, DrawnStays DEF AccountInv
    <2> QED
      BY <2>1, <2>2, <2>3
  <1> QED
    BY <1>1, <1>6, <1>7, <1>9, <1>10, <1>11, PartsMakeInv

(* A request that fails keeps what it holds, and what it stored stays.     *)
LEMMA FailStep ==
    ASSUME AccountInv, NEW e \in Calls, Fail(e)
    PROVE  AccountInv'
  <1>1. [AssignNext]_idVars /\ long' = long
    BY DEF Fail, AssignNext
  <1>2. /\ stage[e] # "idle" /\ stage'[e] = "failed" /\ op' = op
        /\ accounts' = accounts /\ ids' = ids
        /\ \A c \in Calls : c # e => stage'[c] = stage[c]
    BY DEF AccountInv, RequestTypeOK, Fail
  <1>3. /\ keys' = keys
        /\ pc'[e] = "idle" => pc[e] = "idle"
        /\ \A c \in Calls : c # e => pc'[c] = pc[c]
    BY DEF AccountInv, AssignInv, AssignTypeOK, Fail, Lost, idVars, callVars
  <1>4. RequestTypeOK'
    BY DEF AccountInv, RequestTypeOK, Stages, Fail
  <1>5. \A c \in Calls : c # e => RequestShape(c)' /\ HeldIdsDrawn(c)'
    BY <1>1, <1>2, <1>3, OtherRequest
  <1>6. RequestShape(e)'
    BY <1>2, <1>3 DEF AccountInv, RequestShape
  <1>7. HeldIdsDrawn(e)'
    BY <1>1, <1>2, DrawnStays DEF AccountInv, HeldIdsDrawn
  <1> QED
    BY <1>1, <1>4, <1>5, <1>6, <1>7, SameWayBack, PartsMakeInv

(* A step of nothing keeps everything.                                     *)
LEMMA StutterStep ==
    ASSUME AccountInv, UNCHANGED acctVars
    PROVE  AccountInv'
  <1>1. /\ UNCHANGED idVars /\ long' = long /\ stage' = stage /\ op' = op
        /\ accounts' = accounts /\ ids' = ids /\ pc' = pc /\ keys' = keys
    BY DEF acctVars, reqVars, idVars, callVars
  <1>2. \A c \in Calls : RequestShape(c)' /\ HeldIdsDrawn(c)'
    BY <1>1, OtherRequest
  <1>3. RequestTypeOK'
    BY <1>1 DEF AccountInv, RequestTypeOK
  <1>4. AssignInv' /\ WayBackDrawn'
    BY <1>1, AssignStep, SameWayBack DEF AccountInv
  <1> QED
    BY <1>2, <1>3, <1>4 DEF AccountInv
-----------------------------------------------------------------------------
(* The requests implement the specification of the batches: GET /accounts  *)
(* and get_or_create_cached_account_id only do with the counter and the    *)
(* stored ids what assign_numeric_id[_batch] does.                         *)
THEOREM RequestsImplementCalls == AccountSpec => AssignSpec
  <1>1. AccountInit => AssignInit
    BY DEF AccountInit
  <1>2. [AccountNext]_acctVars => [AssignNext]_idVars
    BY RequestStepIsCallStep
  <1> QED
    BY <1>1, <1>2, PTL DEF AccountSpec, AssignSpec

(* The invariant holds in every state of every execution.                  *)
THEOREM AccountInvHolds == AccountSpec => []AccountInv
  <1>1. AccountInv /\ [AccountNext]_acctVars => AccountInv'
    <2> SUFFICES ASSUME AccountInv, [AccountNext]_acctVars PROVE AccountInv'
      OBVIOUS
    <2>1. CASE AccountNext
      BY <2>1, StartStep, ReadIdsStep, AssignMissingStep, AssigningStep, TakeIdsStep,
         SaveLongIdsStep, FailStep DEF AccountNext
    <2> QED
      BY <2>1, StutterStep
  <1> QED
    BY AccountInitEstablishesInv, <1>1, PTL DEF AccountSpec

(* Requests, ids and the way back keep their types, and there is a way     *)
(* back for drawn ids only.                                                *)
THEOREM AccountTypeCorrect == AccountSpec => []AccountTypeOK
  <1>1. AccountInv => AccountTypeOK
    <2> SUFFICES ASSUME AccountInv PROVE AccountTypeOK
      OBVIOUS
    <2>1. \A i \in DOMAIN long : i \in 1..counter /\ long[i] \in Keys
      BY DrawnIsId DEF AccountInv, WayBackDrawn
    <2> QED
      BY <2>1 DEF AccountInv, AssignInv, RequestTypeOK, AccountTypeOK
  <1> QED
    BY <1>1, AccountInvHolds, PTL

(* Whatever requests of parse_accounts_data and of                         *)
(* get_or_create_cached_account_id ran at the same time or failed half     *)
(* way, the short id of an account never leads to another client's         *)
(* account, unless two interleaved batches share it.                       *)
THEOREM AccountIdsName == AccountSpec => []AccountIdNamesItsAccount
  <1>1. AccountInv => AccountIdNamesItsAccount
    <2> SUFFICES ASSUME AccountInv, NEW c \in Calls, stage[c] = "done",
                        NEW k \in Elems(accounts[c])
                 PROVE  /\ ids[c][k] # NoId
                        /\ Shared(ids[c][k]) \/ AccountByNumericId(ids[c][k]) \in {k, NotFound}
      BY DEF AccountIdNamesItsAccount
    <2>1. k \in Keys
      BY DEF AccountInv, RequestTypeOK, Elems
    <2>2. ids[c][k] # NoId
      BY DEF AccountInv, RequestShape
    <2>3. DrawnFor(ids[c][k], k)
      BY <2>1, <2>2 DEF AccountInv, HeldIdsDrawn
    <2>4. ASSUME ~Shared(ids[c][k]), ids[c][k] \in DOMAIN long
          PROVE  long[ids[c][k]] = k
      BY <2>3, <2>4, DrawnForOne DEF AccountInv, WayBackDrawn
    <2> QED
      BY <2>2, <2>4 DEF AccountByNumericId
  <1> QED
    BY <1>1, AccountInvHolds, PTL

(* What GET /accounts numbered itself resolves from its answer on.         *)
THEOREM FreshIdsResolve == AccountSpec => []FreshlyListedIdResolves
  <1>1. AccountInv => FreshlyListedIdResolves
    <2> SUFFICES ASSUME AccountInv, NEW c \in Calls, stage[c] = "done", op[c] = "list",
                        NEW k \in Elems(keys[c])
                 PROVE  AccountByNumericId(ids[c][k]) # NotFound
      BY DEF FreshlyListedIdResolves
    <2>1. ids[c][k] \in DOMAIN long
      BY DEF AccountInv, RequestShape
    <2>2. long[ids[c][k]] \in Keys
      BY <2>1 DEF AccountInv, WayBackDrawn
    <2> QED
      BY <2>1, <2>2, NotFoundAssumption DEF AccountByNumericId
  <1> QED
    BY <1>1, AccountInvHolds, PTL

(* As long as no call drew between the INCR and the INCRBY of another, the *)
(* requests keep a register of account ids.                                *)
THEOREM SerialAccountsAreRegistered == AccountSpec /\ []Serial => Register!RegisterSpec
  BY RequestsImplementCalls, SerialCallsImplementRegister, PTL

(* Batches that draw inside each other are all that can make a short id    *)
(* lead to another client's account: without them get_account_by_numeric_id *)
(* answers with the account the id was shown for, or with 404.             *)
THEOREM SerialAccountsAreNamed ==
    AccountSpec => [](Serial => \A c \in Calls : stage[c] = "done" =>
                         \A k \in Elems(accounts[c]) :
                             AccountByNumericId(ids[c][k]) \in {k, NotFound})
  <1>1. /\ AccountIdNamesItsAccount /\ SerialCallsDisjoint
        => (Serial => \A c \in Calls : stage[c] = "done" =>
                         \A k \in Elems(accounts[c]) :
                             AccountByNumericId(ids[c][k]) \in {k, NotFound})
    BY SerialShareNothing DEF AccountIdNamesItsAccount
  <1>2. AccountSpec => []SerialCallsDisjoint
    BY RequestsImplementCalls, SerialCallsAreDisjoint, PTL
  <1> QED
    BY <1>1, <1>2, AccountIdsName, PTL
-----------------------------------------------------------------------------
(* Why a listed id may not resolve.                                        *)

(* What a request is answered with for the accounts it numbered are the    *)
(* ids of its own batch.                                                   *)
KeptIds ==
    \A c \in Calls : stage[c] \in {"save", "done"} =>
        \A k \in Elems(keys[c]) : ids[c][k] = IdOf(c, k)

(* No step of any request changes that.                                    *)
LEMMA KeptIdsStep ==
    ASSUME AccountInv, KeptIds, [AccountNext]_acctVars
    PROVE  KeptIds'
  <1>1. CASE UNCHANGED acctVars
    BY <1>1 DEF acctVars, reqVars, idVars, callVars, KeptIds, IdOf
  <1>2. ASSUME NEW e \in Calls, NEW o \in {"list", "get"}, NEW s \in Listings, Start(e, o, s)
        PROVE  KeptIds'
    BY <1>2 DEF AccountInv, RequestTypeOK, Start, idVars, callVars, KeptIds, IdOf
  <1>3. ASSUME NEW e \in Calls, ReadIds(e)
        PROVE  KeptIds'
    <2>1. keys[e] = << >>
      BY <1>3 DEF AccountInv, RequestShape, ReadIds
    <2>2. Elems(keys[e]) = {}
      BY <2>1 DEF Elems
    <2>3. UNCHANGED <<keys, first>> /\ \A d \in Calls : d # e => stage'[d] = stage[d] /\ ids'[d] = ids[d]
      BY <1>3 DEF AccountInv, RequestTypeOK, ReadIds, idVars, callVars
    <2> QED
      BY <2>2, <2>3 DEF KeptIds, IdOf
  <1>4. ASSUME NEW e \in Calls, AssignMissing(e)
        PROVE  KeptIds'
    <2>1. stage'[e] = "drawing" /\ \A d \in Calls : d # e => stage'[d] = stage[d]
      BY <1>4 DEF AccountInv, RequestTypeOK, AssignMissing
    <2>2. UNCHANGED <<ids, first>> /\ \A d \in Calls : d # e => keys'[d] = keys[d]
      BY <1>4 DEF AccountInv, AssignInv, AssignTypeOK, AssignMissing, Begin, BeginOne
    <2> QED
      BY <2>1, <2>2 DEF KeptIds, IdOf
  <1>5. ASSUME NEW e \in Calls, Assigning(e)
        PROVE  KeptIds'
    <2>1. UNCHANGED <<keys, ids, stage>> /\ stage[e] = "drawing"
      BY <1>5 DEF Assigning, reqVars, Incr, IncrOne, Draw, IncrBy, ReserveBy, Store
    <2>2. \A d \in Calls : d # e => first'[d] = first[d]
      BY <1>5 DEF AccountInv, AssignInv, AssignTypeOK, Assigning, Incr, IncrOne, Draw, IncrBy,
                  ReserveBy, Store
    <2> QED
      BY <2>1, <2>2 DEF KeptIds, IdOf
  <1>6. ASSUME NEW e \in Calls, TakeIds(e)
        PROVE  KeptIds'
    <2>1. UNCHANGED <<keys, first>> /\ \A d \in Calls : d # e => stage'[d] = stage[d] /\ ids'[d] = ids[d]
      BY <1>6 DEF AccountInv, RequestTypeOK, TakeIds, Return
    <2>2. Elems(keys[e]) \subseteq Keys
      BY DEF AccountInv, AssignInv, AssignTypeOK, Elems
    <2>3. \A k \in Elems(keys[e]) : ids'[e][k] = IdOf(e, k)
      BY <1>6, <2>2 DEF AccountInv, RequestTypeOK, TakeIds
    <2> QED
      BY <2>1, <2>3 DEF KeptIds, IdOf
  <1>7. ASSUME NEW e \in Calls, SaveLongIds(e)
        PROVE  KeptIds'
    BY <1>7 DEF AccountInv, RequestTypeOK, SaveLongIds, idVars, callVars, KeptIds, IdOf
  <1>8. ASSUME NEW e \in Calls, Fail(e)
        PROVE  KeptIds'
    BY <1>8 DEF AccountInv, RequestTypeOK, Fail, Lost, idVars, callVars, KeptIds, IdOf
  <1> QED
    BY <1>1, <1>2, <1>3, <1>4, <1>5, <1>6, <1>7, <1>8 DEF AccountNext

(* That get_or_create_cached_account_id writes no way back is all that     *)
(* makes a listed account unknown to later requests: listings alone, none  *)
(* of which failed, answer with ids that resolve, also where they          *)
(* interleave and share ids.                                               *)
THEOREM ListingsAloneResolve ==
    AccountSpec => []((\A c \in Calls : op[c] = "list") => ListedIdResolves)
  <1>1. AccountInit => KeptIds
    BY DEF AccountInit, KeptIds
  <1>2. AccountInv /\ KeptIds /\ [AccountNext]_acctVars => KeptIds'
    BY KeptIdsStep
  <1>3. AccountInv /\ KeptIds => ((\A c \in Calls : op[c] = "list") => ListedIdResolves)
    <2> SUFFICES ASSUME AccountInv, KeptIds, \A c \in Calls : op[c] = "list",
                        \A c \in Calls : stage[c] \in {"idle", "done"},
                        NEW c \in Calls, stage[c] = "done",
                        NEW k \in Elems(accounts[c])
                 PROVE  AccountByNumericId(ids[c][k]) # NotFound
      BY DEF ListedIdResolves
    <2>1. k \in Keys /\ ids[c][k] # NoId
      BY DEF AccountInv, RequestTypeOK, RequestShape, Elems
    <2>2. PICK d \in Calls : Claimed(d) /\ k \in Elems(keys[d]) /\ ids[c][k] = IdOf(d, k)
      BY <2>1 DEF AccountInv, HeldIdsDrawn, DrawnFor
    <2>3. stage[d] = "done"
      BY <2>2 DEF AccountInv, AssignInv, CallShape, RequestShape
    <2>4. ids[c][k] \in DOMAIN long
      BY <2>2, <2>3 DEF AccountInv, RequestShape, KeptIds
    <2>5. long[ids[c][k]] \in Keys
      BY <2>4 DEF AccountInv, WayBackDrawn
    <2> QED
      BY <2>4, <2>5, NotFoundAssumption DEF AccountByNumericId
  <1> QED
    BY <1>1, <1>2, <1>3, AccountInvHolds, PTL DEF AccountSpec
=============================================================================
