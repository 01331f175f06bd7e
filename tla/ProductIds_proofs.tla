-------------------------- MODULE ProductIds_proofs --------------------------
(* Proofs about ProductIds, for any number of requests, UPCs and pages.    *)
EXTENDS ProductIds, NumericIds_proofs, WellFoundedInduction

RequestTypeOK ==
    /\ stage \in [Calls -> Stages]
    /\ op \in [Calls -> {"page", "bind"}]
    /\ upcs \in [Calls -> Seq(Keys)]
    /\ ids \in [Calls -> [Keys -> Nat]]
    /\ lacking \in [Calls -> SUBSET Keys]
    /\ saving \in [Calls -> SUBSET Keys]

(* A request asks the batch for exactly the UPCs it has no id for, and once *)
(* past that it has an id for each of them.                                *)
IdsShape(c) ==
    /\ stage[c] # "idle" => upcs[c] \in Pages
    /\ stage[c] \in {"idle", "readIds", "readDetails", "assign"} => pc[c] = "idle"
    /\ stage[c] = "drawing" =>
          /\ \A u \in Elems(upcs[c]) : ids[c][u] # NoId \/ u \in Elems(keys[c])
          /\ \A u \in Elems(keys[c]) : ids[c][u] = NoId
    /\ stage[c] \in {"fetch", "write", "done"} =>
          \A u \in Elems(upcs[c]) : ids[c][u] # NoId

(* A page saves all its UPCs; a binding saves UPCs whose details it did not *)
(* find, and finds the details of the others from its read on.             *)
DetailsShape(c) ==
    /\ stage[c] \in {"readDetails", "fetch"} => op[c] = "bind"
    /\ saving[c] \subseteq Elems(upcs[c]) /\ lacking[c] \subseteq Elems(upcs[c])
    /\ stage[c] = "idle" => lacking[c] = {}
    /\ stage[c] \in {"idle", "readIds", "readDetails", "fetch"} => saving[c] = {}
    /\ stage[c] \in {"assign", "drawing"} /\ op[c] = "bind" => saving[c] = {}
    /\ stage[c] \in {"assign", "drawing", "write", "done"} /\ op[c] = "page" =>
          saving[c] = Elems(upcs[c])
    /\ stage[c] \in {"assign", "drawing", "fetch", "write", "done"} /\ op[c] = "bind" =>
          \A u \in Elems(upcs[c]) \ lacking[c] : ids[c][u] \in DOMAIN details
    /\ stage[c] = "done" => \A u \in saving[c] : ids[c][u] \in DOMAIN details

(* The ids a request holds were drawn for the UPCs it holds them for.      *)
HeldIdsDrawn(c) == \A u \in Keys : ids[c][u] # NoId => DrawnFor(ids[c][u], u)

(* Details are stored under ids that were drawn for their UPC.             *)
DetailsDrawn == \A i \in DOMAIN details : details[i] \in Keys /\ DrawnFor(i, details[i])

(* The id of a bid was drawn for the UPC selected and for the UPC bid on.  *)
BidDrawn(b) ==
    /\ b = <<b[1], b[2], b[3]>>
    /\ b[2] \in Keys /\ DrawnFor(b[1], b[2])
    /\ b[3] \in Keys /\ DrawnFor(b[1], b[3])

ProductInv ==
    /\ AssignInv
    /\ RequestTypeOK
    /\ \A c \in Calls : IdsShape(c) /\ DetailsShape(c) /\ HeldIdsDrawn(c)
    /\ DetailsDrawn
    /\ \A b \in bids : BidDrawn(b)
-----------------------------------------------------------------------------
(* A non-empty set of naturals has a least one.                            *)
LEMMA LeastNatural ==
    ASSUME NEW T, T \subseteq Nat, T # {}
    PROVE  \E x \in T : \A y \in T : x <= y
  <1>1. IsWellFoundedOn(OpToRel(<, Nat), Nat)
    BY NatLessThanWellFounded
  <1>2. PICK x \in T : \A y \in T : ~(<<y, x>> \in OpToRel(<, Nat))
    BY <1>1, WFMin
  <1>3. x \in Nat /\ \A y \in T : y \in Nat
    OBVIOUS
  <1>4. ASSUME NEW y \in T PROVE ~(y < x)
    BY <1>2, <1>3, Zenon DEF OpToRel
  <1>5. \A y \in T : x <= y
    BY <1>3, <1>4
  <1> QED
    BY <1>5

(* A non-empty set of indices has a greatest one.                          *)
LEMMA GreatestIndex ==
    ASSUME NEW n \in Nat, NEW S, S \subseteq 1..n, S # {}
    PROVE  \E x \in S : \A y \in S : y <= x
  <1>1. PICK T : T = {n - x : x \in S}
    OBVIOUS
  <1>2. T \subseteq Nat /\ T # {}
    <2>1. \A x \in S : x \in Int /\ 1 <= x /\ x <= n
      OBVIOUS
    <2>2. \A x \in S : n - x \in Nat
      BY <2>1
    <2> QED
      BY <1>1, <2>2
  <1>3. PICK t \in T : \A y \in T : t <= y
    BY <1>2, LeastNatural
  <1>4. PICK x \in S : t = n - x
    BY <1>1
  <1>5. ASSUME NEW y \in S PROVE y <= x
    <2>1. n - y \in T
      BY <1>1
    <2>2. n - x <= n - y
      BY <1>3, <1>4, <2>1
    <2>3. x \in Int /\ y \in Int
      OBVIOUS
    <2> QED
      BY <2>2, <2>3
  <1> QED
    BY <1>5

(* The details a request saves under an id are those of one of the UPCs it *)
(* holds that id for.                                                      *)
LEMMA SavedNames ==
    ASSUME RequestTypeOK, NEW c \in Calls, saving[c] \subseteq Elems(upcs[c])
    PROVE  /\ DOMAIN Saved(c) = {ids[c][u] : u \in saving[c]}
           /\ \A i \in DOMAIN Saved(c) : Saved(c)[i] \in saving[c] /\ ids[c][Saved(c)[i]] = i
  <1>1. DOMAIN Saved(c) = {ids[c][u] : u \in saving[c]}
    BY DEF Saved
  <1>2. ASSUME NEW i \in DOMAIN Saved(c)
        PROVE  Saved(c)[i] \in saving[c] /\ ids[c][Saved(c)[i]] = i
    <2>1. PICK S : S = {n \in 1..Len(upcs[c]) : upcs[c][n] \in saving[c] /\ ids[c][upcs[c][n]] = i}
      OBVIOUS
    <2>2. PICK u \in saving[c] : i = ids[c][u]
      BY <1>1, <1>2
    <2>3. S # {}
      BY <2>1, <2>2 DEF Elems
    <2>4. Len(upcs[c]) \in Nat
      BY DEF RequestTypeOK
    <2>5. \E n \in S : \A m \in S : m <= n
      BY <2>1, <2>3, <2>4, GreatestIndex
    <2>6. Saved(c)[i] = upcs[c][CHOOSE n \in S : \A m \in S : m <= n]
      BY <1>1, <1>2, <2>1 DEF Saved
    <2>7. PICK n \in S : Saved(c)[i] = upcs[c][n]
      BY <2>5, <2>6
    <2> QED
      BY <2>1, <2>7
  <1> QED
    BY <1>1, <1>2
-----------------------------------------------------------------------------
(* A request takes the steps of one call of the batch, or none.            *)
LEMMA RequestStepIsCallStep ==
    ASSUME [ProductNext]_prodVars
    PROVE  [AssignNext]_idVars
  <1>1. CASE UNCHANGED prodVars
    BY <1>1 DEF prodVars
  <1>2. ASSUME NEW c \in Calls, AssignMissing(c)
        PROVE  AssignNext
    BY <1>2 DEF AssignMissing, Begin, AssignNext
  <1>3. ASSUME NEW c \in Calls, Assigning(c)
        PROVE  AssignNext
    BY <1>3 DEF Assigning, AssignNext
  <1>4. ASSUME NEW c \in Calls, TakeIds(c)
        PROVE  AssignNext
    BY <1>4 DEF TakeIds, AssignNext
  <1>5. ASSUME NEW c \in Calls, Fail(c)
        PROVE  AssignNext \/ UNCHANGED idVars
    BY <1>5 DEF Fail, AssignNext
  <1>6. ASSUME NEW c \in Calls, NEW o, NEW s, Start(c, o, s)
        PROVE  UNCHANGED idVars
    BY <1>6 DEF Start
  <1>7. ASSUME NEW c \in Calls, ReadIds(c) \/ ReadDetails(c) \/ NothingMissing(c) \/ WriteDetails(c)
        PROVE  UNCHANGED idVars
    BY <1>7 DEF ReadIds, ReadDetails, NothingMissing, WriteDetails
  <1>8. ASSUME NEW c \in Calls, NEW S, FetchProducts(c, S) \/ CreateBids(c, S)
        PROVE  UNCHANGED idVars
    BY <1>8 DEF FetchProducts, CreateBids
  <1> QED
    BY <1>1, <1>2, <1>3, <1>4, <1>5, <1>6, <1>7, <1>8 DEF ProductNext

(* Before any request nothing is held, saved or bid.                       *)
LEMMA ProductInitEstablishesInv == ProductInit => ProductInv
  <1> SUFFICES ASSUME ProductInit PROVE ProductInv
    OBVIOUS
  <1>1. AssignInv
    BY InitEstablishesInv DEF ProductInit
  <1>2. RequestTypeOK
    BY DEF ProductInit, RequestTypeOK, Stages, NoId
  <1>3. \A c \in Calls : IdsShape(c) /\ DetailsShape(c) /\ HeldIdsDrawn(c)
    BY DEF ProductInit, AssignInit, IdsShape, DetailsShape, HeldIdsDrawn
  <1>4. DetailsDrawn /\ \A b \in bids : BidDrawn(b)
    BY DEF ProductInit, DetailsDrawn
  <1> QED
    BY <1>1, <1>2, <1>3, <1>4 DEF ProductInv

(* A request that takes no step is as it was.                              *)
LEMMA OtherRequest ==
    ASSUME ProductInv, [AssignNext]_idVars, NEW c \in Calls,
           stage'[c] = stage[c], op'[c] = op[c], upcs'[c] = upcs[c], ids'[c] = ids[c],
           lacking'[c] = lacking[c], saving'[c] = saving[c],
           pc'[c] = pc[c], keys'[c] = keys[c], DOMAIN details \subseteq DOMAIN details'
    PROVE  IdsShape(c)' /\ DetailsShape(c)' /\ HeldIdsDrawn(c)'
  <1>1. IdsShape(c)'
    BY DEF ProductInv, IdsShape
  <1>2. DetailsShape(c)'
    BY DEF ProductInv, DetailsShape
  <1>3. HeldIdsDrawn(c)'
    BY DrawnStays DEF ProductInv, HeldIdsDrawn
  <1> QED
    BY <1>1, <1>2, <1>3

(* Details and bids that are kept stay those of ids drawn for their UPCs.  *)
LEMMA SameDetails ==
    ASSUME ProductInv, [AssignNext]_idVars, details' = details
    PROVE  DetailsDrawn'
  BY DrawnStays DEF ProductInv, DetailsDrawn

LEMMA SameBids ==
    ASSUME ProductInv, [AssignNext]_idVars, bids' = bids
    PROVE  \A b \in bids' : BidDrawn(b)'
  BY DrawnStays DEF ProductInv, BidDrawn

(* The parts of the invariant, put together for a step of request e.       *)
LEMMA PartsMakeInv ==
    ASSUME ProductInv, [AssignNext]_idVars, NEW e \in Calls,
           RequestTypeOK', DetailsDrawn', \A b \in bids' : BidDrawn(b)',
           IdsShape(e)', DetailsShape(e)', HeldIdsDrawn(e)',
           \A c \in Calls : c # e => IdsShape(c)' /\ DetailsShape(c)' /\ HeldIdsDrawn(c)'
    PROVE  ProductInv'
  <1>1. AssignInv'
    BY AssignStep DEF ProductInv
  <1> QED
    BY <1>1 DEF ProductInv

(* Ids that a request keeps stay drawn for its UPCs.                       *)
LEMMA SameIds ==
    ASSUME ProductInv, [AssignNext]_idVars, NEW c \in Calls, ids'[c] = ids[c]
    PROVE  HeldIdsDrawn(c)'
  BY DrawnStays DEF ProductInv, HeldIdsDrawn
-----------------------------------------------------------------------------
LEMMA StartStep ==
    ASSUME ProductInv, NEW e \in Calls, NEW o \in {"page", "bind"}, NEW s \in Pages,
           Start(e, o, s)
    PROVE  ProductInv'
  <1>1. UNCHANGED idVars /\ details' = details /\ bids' = bids
    BY DEF Start
  <1>2. /\ stage[e] = "idle" /\ stage'[e] = "readIds" /\ op'[e] = o /\ upcs'[e] = s
        /\ ids' = ids /\ lacking' = lacking /\ saving' = saving /\ pc' = pc /\ keys' = keys
    BY DEF ProductInv, RequestTypeOK, Start, idVars, callVars
  <1>3. RequestTypeOK'
    BY PagesAssumption, RequestIsSeq DEF ProductInv, RequestTypeOK, Stages, Start
  <1>4. \A c \in Calls : c # e => IdsShape(c)' /\ DetailsShape(c)' /\ HeldIdsDrawn(c)'
    BY <1>1, <1>2, OtherRequest DEF ProductInv, RequestTypeOK, Start
  <1>5. IdsShape(e)' /\ DetailsShape(e)'
    BY <1>2 DEF ProductInv, IdsShape, DetailsShape
  <1>6. HeldIdsDrawn(e)'
    BY <1>1, <1>2, SameIds
  <1> QED
    BY <1>1, <1>3, <1>4, <1>5, <1>6, SameDetails, SameBids, PartsMakeInv

(* What is read was stored for the UPC it is read for.                     *)
LEMMA ReadIdsStep ==
    ASSUME ProductInv, NEW e \in Calls, ReadIds(e)
    PROVE  ProductInv'
  <1>1. UNCHANGED idVars /\ details' = details /\ bids' = bids
    BY DEF ReadIds
  <1>2. /\ stage[e] = "readIds" /\ op' = op /\ upcs' = upcs /\ lacking' = lacking
        /\ pc' = pc /\ keys' = keys /\ short' = short
        /\ \A u \in Keys : ids'[e][u] = IF u \in Elems(upcs[e]) THEN short[u] ELSE NoId
    BY DEF ProductInv, RequestTypeOK, ReadIds, idVars, callVars
  <1>3. \/ /\ op[e] = "page" /\ stage'[e] = "assign" /\ saving'[e] = Elems(upcs[e])
        \/ /\ op[e] = "bind" /\ stage'[e] = "readDetails" /\ saving' = saving
    BY DEF ProductInv, RequestTypeOK, ReadIds
  <1>4. RequestTypeOK'
    <2>1. [u \in Keys |-> IF u \in Elems(upcs[e]) THEN short[u] ELSE NoId] \in [Keys -> Nat]
      BY DEF ProductInv, AssignInv, AssignTypeOK, NoId
    <2>2. Elems(upcs[e]) \subseteq Keys
      BY DEF ProductInv, RequestTypeOK, Elems
    <2>3. ids' \in [Calls -> [Keys -> Nat]]
      BY <2>1 DEF ProductInv, RequestTypeOK, ReadIds
    <2>4. stage' \in [Calls -> Stages] /\ saving' \in [Calls -> SUBSET Keys]
      BY <2>2 DEF ProductInv, RequestTypeOK, Stages, ReadIds
    <2> QED
      BY <1>2, <2>3, <2>4 DEF ProductInv, RequestTypeOK
  <1>5. \A c \in Calls : c # e => IdsShape(c)' /\ DetailsShape(c)' /\ HeldIdsDrawn(c)'
    BY <1>1, <1>2, OtherRequest DEF ProductInv, RequestTypeOK, ReadIds
  <1>6. IdsShape(e)' /\ DetailsShape(e)'
    BY <1>2, <1>3 DEF ProductInv, IdsShape, DetailsShape
  <1>7. HeldIdsDrawn(e)'
    <2> SUFFICES ASSUME NEW u \in Keys, ids'[e][u] # NoId
                 PROVE  DrawnFor(ids[e][u], u)'
      BY DEF HeldIdsDrawn
    <2>1. PICK i : i = ids'[e][u]
      OBVIOUS
    <2>2. i = short[u] /\ DrawnFor(i, u)
      BY <1>2, <2>1, StoredIsDrawn DEF ProductInv
    <2>3. DrawnFor(i, u)'
      BY <1>1, <2>2, DrawnStays DEF ProductInv
    <2> QED
      BY <2>1, <2>3
  <1> QED
    BY <1>1, <1>4, <1>5, <1>6, <1>7, SameDetails, SameBids, PartsMakeInv

LEMMA ReadDetailsStep ==
    ASSUME ProductInv, NEW e \in Calls, ReadDetails(e)
    PROVE  ProductInv'
  <1>1. UNCHANGED idVars /\ details' = details /\ bids' = bids
    BY DEF ReadDetails
  <1>2. /\ stage[e] = "readDetails" /\ stage'[e] = "assign"
        /\ op' = op /\ upcs' = upcs /\ ids' = ids /\ saving' = saving
        /\ pc' = pc /\ keys' = keys
        /\ lacking'[e] = {u \in Elems(upcs[e]) : ids[e][u] \notin DOMAIN details}
    BY DEF ProductInv, RequestTypeOK, ReadDetails, idVars, callVars
  <1>3. RequestTypeOK'
    <2>1. Elems(upcs[e]) \subseteq Keys
      BY DEF ProductInv, RequestTypeOK, Elems
    <2> QED
      BY <2>1 DEF ProductInv, RequestTypeOK, Stages, ReadDetails
  <1>4. \A c \in Calls : c # e => IdsShape(c)' /\ DetailsShape(c)' /\ HeldIdsDrawn(c)'
    BY <1>1, <1>2, OtherRequest DEF ProductInv, RequestTypeOK, ReadDetails
  <1>5. IdsShape(e)' /\ DetailsShape(e)'
    BY <1>1, <1>2 DEF ProductInv, IdsShape, DetailsShape
  <1> QED
    BY <1>1, <1>2, <1>3, <1>4, <1>5, SameIds, SameDetails, SameBids, PartsMakeInv

(* The UPCs that lack an id are listed for the batch.                      *)
LEMMA MissingElems ==
    ASSUME ProductInv, NEW c \in Calls, stage[c] # "idle"
    PROVE  Elems(Missing(c)) = {u \in Elems(upcs[c]) : ids[c][u] = NoId}
  <1>1. upcs[c] \in Pages
    BY DEF ProductInv, IdsShape
  <1>2. PICK K \in SUBSET Elems(upcs[c]) : K = {u \in Elems(upcs[c]) : ids[c][u] = NoId}
    OBVIOUS
  <1>3. Elems(Sublist(upcs[c], K)) = K
    BY <1>1, <1>2, PagesAssumption, SublistElems
  <1> QED
    BY <1>2, <1>3 DEF Missing

(* Where a request goes on once it has all its ids.                        *)
LEMMA AfterIdsStages ==
    ASSUME NEW c \in Calls, op[c] \in {"page", "bind"}
    PROVE  \/ op[c] = "page" /\ AfterIds(c) = "write"
           \/ op[c] = "bind" /\ AfterIds(c) \in {"fetch", "done"}
  BY DEF AfterIds

LEMMA NothingMissingStep ==
    ASSUME ProductInv, NEW e \in Calls, NothingMissing(e)
    PROVE  ProductInv'
  <1>1. UNCHANGED idVars /\ details' = details /\ bids' = bids
    BY DEF NothingMissing
  <1>2. /\ stage[e] = "assign" /\ op' = op /\ upcs' = upcs /\ ids' = ids
        /\ lacking' = lacking /\ saving' = saving /\ pc' = pc /\ keys' = keys
    BY DEF ProductInv, RequestTypeOK, NothingMissing, idVars, callVars
  <1>3. \/ op[e] = "page" /\ stage'[e] = "write"
        \/ op[e] = "bind" /\ stage'[e] \in {"fetch", "done"}
    BY AfterIdsStages DEF ProductInv, RequestTypeOK, NothingMissing
  <1>4. RequestTypeOK'
    <2>1. AfterIds(e) \in Stages
      BY DEF AfterIds, Stages
    <2> QED
      BY <2>1 DEF ProductInv, RequestTypeOK, NothingMissing
  <1>5. \A c \in Calls : c # e => IdsShape(c)' /\ DetailsShape(c)' /\ HeldIdsDrawn(c)'
    BY <1>1, <1>2, OtherRequest DEF ProductInv, RequestTypeOK, NothingMissing
  <1>6. \A u \in Elems(upcs[e]) : ids[e][u] # NoId
    <2>1. Elems(Missing(e)) = {}
      BY DEF NothingMissing, Elems
    <2> QED
      BY <1>2, <2>1, MissingElems
  <1>7. IdsShape(e)' /\ DetailsShape(e)'
    BY <1>1, <1>2, <1>3, <1>6 DEF ProductInv, IdsShape, DetailsShape
  <1> QED
    BY <1>1, <1>2, <1>4, <1>5, <1>7, SameIds, SameDetails, SameBids, PartsMakeInv

(* The batch is asked for exactly the UPCs without an id.                  *)
LEMMA AssignMissingStep ==
    ASSUME ProductInv, NEW e \in Calls, AssignMissing(e)
    PROVE  ProductInv'
  <1>1. [AssignNext]_idVars /\ details' = details /\ bids' = bids
    BY DEF AssignMissing, Begin, AssignNext
  <1>2. /\ stage[e] = "assign" /\ stage'[e] = "drawing"
        /\ op' = op /\ upcs' = upcs /\ ids' = ids /\ lacking' = lacking /\ saving' = saving
        /\ \A c \in Calls : c # e => stage'[c] = stage[c]
    BY DEF ProductInv, RequestTypeOK, AssignMissing
  <1>3. /\ keys'[e] = Missing(e)
        /\ \A c \in Calls : c # e => pc'[c] = pc[c] /\ keys'[c] = keys[c]
    BY DEF ProductInv, AssignInv, AssignTypeOK, AssignMissing, Begin
  <1>4. RequestTypeOK'
    BY DEF ProductInv, RequestTypeOK, Stages, AssignMissing
  <1>5. \A c \in Calls : c # e => IdsShape(c)' /\ DetailsShape(c)' /\ HeldIdsDrawn(c)'
    BY <1>1, <1>2, <1>3, OtherRequest
  <1>6. Elems(keys'[e]) = {u \in Elems(upcs[e]) : ids[e][u] = NoId}
    BY <1>2, <1>3, MissingElems
  <1>7. IdsShape(e)' /\ DetailsShape(e)'
    BY <1>1, <1>2, <1>6 DEF ProductInv, IdsShape, DetailsShape
  <1> QED
    BY <1>1, <1>2, <1>4, <1>5, <1>7, SameIds, SameDetails, SameBids, PartsMakeInv

(* The commands of the batch leave the request where it is.                *)
LEMMA AssigningStep ==
    ASSUME ProductInv, NEW e \in Calls, Assigning(e)
    PROVE  ProductInv'
  <1>1. [AssignNext]_idVars /\ details' = details /\ bids' = bids
    BY DEF Assigning, AssignNext
  <1>2. /\ stage[e] = "drawing" /\ stage' = stage /\ op' = op /\ upcs' = upcs
        /\ ids' = ids /\ lacking' = lacking /\ saving' = saving
    BY DEF Assigning, reqVars
  <1>3. keys' = keys /\ \A c \in Calls : c # e => pc'[c] = pc[c]
    BY DEF ProductInv, AssignInv, AssignTypeOK, Assigning, Incr, IncrBy, ReserveBy, Draw, Store
  <1>4. RequestTypeOK'
    BY <1>2 DEF ProductInv, RequestTypeOK
  <1>5. \A c \in Calls : c # e => IdsShape(c)' /\ DetailsShape(c)' /\ HeldIdsDrawn(c)'
    BY <1>1, <1>2, <1>3, OtherRequest
  <1>6. IdsShape(e)' /\ DetailsShape(e)'
    BY <1>1, <1>2, <1>3 DEF ProductInv, IdsShape, DetailsShape
  <1> QED
    BY <1>1, <1>2, <1>4, <1>5, <1>6, SameIds, SameDetails, SameBids, PartsMakeInv

(* The new ids were drawn by the request's own call, for their UPCs.       *)
LEMMA TakeIdsStep ==
    ASSUME ProductInv, NEW e \in Calls, TakeIds(e)
    PROVE  ProductInv'
  <1>1. [AssignNext]_idVars /\ Return(e) /\ details' = details /\ bids' = bids
    BY DEF TakeIds, AssignNext
  <1>2. /\ stage[e] = "drawing" /\ op' = op /\ upcs' = upcs
        /\ lacking' = lacking /\ saving' = saving
        /\ keys' = keys /\ first' = first /\ last' = last
        /\ pc[e] = "stored" /\ \A c \in Calls : c # e => pc'[c] = pc[c]
        /\ \A u \in Keys : ids'[e][u] = IF u \in Elems(keys[e]) THEN IdOf(e, u) ELSE ids[e][u]
    BY DEF ProductInv, AssignInv, AssignTypeOK, RequestTypeOK, TakeIds, Return
  <1>3. \/ op[e] = "page" /\ stage'[e] = "write"
        \/ op[e] = "bind" /\ stage'[e] \in {"fetch", "done"}
    BY AfterIdsStages DEF ProductInv, RequestTypeOK, TakeIds
  <1>4. Claimed(e) /\ CallShape(e) /\ AssignTypeOK
    BY <1>2 DEF ProductInv, AssignInv, CallShape
  <1>5. \A u \in Elems(keys[e]) : IdOf(e, u) \in Nat /\ IdOf(e, u) # NoId
    BY <1>4, IdInRange DEF NoId
  <1>6. RequestTypeOK'
    <2>1. [u \in Keys |-> IF u \in Elems(keys[e]) THEN IdOf(e, u) ELSE ids[e][u]] \in [Keys -> Nat]
      BY <1>5 DEF ProductInv, RequestTypeOK
    <2>2. AfterIds(e) \in Stages
      BY DEF AfterIds, Stages
    <2> QED
      BY <2>1, <2>2 DEF ProductInv, RequestTypeOK, TakeIds
  <1>7. \A c \in Calls : c # e => IdsShape(c)' /\ DetailsShape(c)' /\ HeldIdsDrawn(c)'
    <2> SUFFICES ASSUME NEW c \in Calls, c # e
                 PROVE  IdsShape(c)' /\ DetailsShape(c)' /\ HeldIdsDrawn(c)'
      OBVIOUS
    <2>1. stage'[c] = stage[c] /\ ids'[c] = ids[c]
      BY DEF ProductInv, RequestTypeOK, TakeIds
    <2> QED
      BY <1>1, <1>2, <2>1, OtherRequest
  <1>8. \A u \in Elems(upcs[e]) : u \in Keys
    BY DEF ProductInv, RequestTypeOK, Elems
  <1>9. IdsShape(e)'
    <2>1. \A u \in Elems(upcs[e]) : ids'[e][u] # NoId
      BY <1>2, <1>5, <1>8 DEF ProductInv, IdsShape
    <2> QED
      BY <1>2, <1>3, <2>1 DEF ProductInv, IdsShape
  <1>10. DetailsShape(e)'
    <2>1. ASSUME op[e] = "bind", NEW u \in Elems(upcs[e]) \ lacking[e]
          PROVE  ids'[e][u] \in DOMAIN details
      <3>1. ids[e][u] \in DOMAIN details
        BY <1>2, <2>1 DEF ProductInv, DetailsShape
      <3>2. ids[e][u] # NoId
        BY <3>1, DrawnIsId DEF ProductInv, DetailsDrawn
      <3>3. u \notin Elems(keys[e])
        BY <1>2, <3>2 DEF ProductInv, IdsShape
      <3> QED
        BY <1>2, <1>8, <3>1, <3>3
    <2> QED
      BY <1>1, <1>2, <1>3, <2>1 DEF ProductInv, DetailsShape
  <1>11. HeldIdsDrawn(e)'
    <2> SUFFICES ASSUME NEW u \in Keys, ids'[e][u] # NoId
                 PROVE  DrawnFor(ids[e][u], u)'
      BY DEF HeldIdsDrawn
    <2>1. PICK i : i = ids'[e][u]
      OBVIOUS
    <2>2. DrawnFor(i, u)
      <3>1. CASE u \in Elems(keys[e])
        BY <1>2, <1>4, <2>1, <3>1 DEF DrawnFor
      <3>2. CASE u \notin Elems(keys[e])
        BY <1>2, <2>1, <3>2 DEF ProductInv, HeldIdsDrawn
      <3> QED
        BY <3>1, <3>2
    <2>3. DrawnFor(i, u)'
      BY <1>1, <2>2, DrawnStays DEF ProductInv
    <2> QED
      BY <2>1, <2>3
  <1> QED
    BY <1>1, <1>6, <1>7, <1>9, <1>10, <1>11, SameDetails, SameBids, PartsMakeInv

LEMMA FetchProductsStep ==
    ASSUME ProductInv, NEW e \in Calls, NEW valid, FetchProducts(e, valid)
    PROVE  ProductInv'
  <1>1. UNCHANGED idVars /\ details' = details /\ bids' = bids
    BY DEF FetchProducts
  <1>2. /\ stage[e] = "fetch" /\ op' = op /\ upcs' = upcs /\ ids' = ids
        /\ lacking' = lacking /\ saving'[e] = valid /\ pc' = pc /\ keys' = keys
        /\ stage'[e] = IF valid = {} THEN "done" ELSE "write"
    BY DEF ProductInv, RequestTypeOK, FetchProducts, idVars, callVars
  <1>3. valid \subseteq lacking[e] /\ valid \subseteq Keys
    BY DEF ProductInv, RequestTypeOK, FetchProducts
  <1>4. RequestTypeOK'
    BY <1>3 DEF ProductInv, RequestTypeOK, Stages, FetchProducts
  <1>5. \A c \in Calls : c # e => IdsShape(c)' /\ DetailsShape(c)' /\ HeldIdsDrawn(c)'
    BY <1>1, <1>2, OtherRequest DEF ProductInv, RequestTypeOK, FetchProducts
  <1>6. valid \subseteq Elems(upcs[e]) /\ op[e] = "bind"
    BY <1>2, <1>3 DEF ProductInv, DetailsShape
  <1>7. IdsShape(e)' /\ DetailsShape(e)'
    BY <1>1, <1>2, <1>6 DEF ProductInv, IdsShape, DetailsShape
  <1> QED
    BY <1>1, <1>2, <1>4, <1>5, <1>7, SameIds, SameDetails, SameBids, PartsMakeInv

(* The details written under an id are those of a UPC the request holds it *)
(* for, hence of a UPC it was drawn for.                                   *)
LEMMA WriteDetailsStep ==
    ASSUME ProductInv, NEW e \in Calls, WriteDetails(e)
    PROVE  ProductInv'
  <1>1. UNCHANGED idVars /\ bids' = bids /\ details' = Merge(details, Saved(e))
    BY DEF WriteDetails
  <1>2. /\ stage[e] = "write" /\ stage'[e] = "done" /\ op' = op /\ upcs' = upcs /\ ids' = ids
        /\ lacking' = lacking /\ saving' = saving /\ pc' = pc /\ keys' = keys
        /\ \A c \in Calls : c # e => stage'[c] = stage[c]
    BY DEF ProductInv, RequestTypeOK, WriteDetails, idVars, callVars
  <1>3. RequestTypeOK'
    BY DEF ProductInv, RequestTypeOK, Stages, WriteDetails
  <1>4. saving[e] \subseteq Elems(upcs[e]) /\ \A u \in Elems(upcs[e]) : u \in Keys
    BY DEF ProductInv, RequestTypeOK, DetailsShape, Elems
  <1>5. PICK new : new = Saved(e)
    OBVIOUS
  <1>6. /\ DOMAIN new = {ids[e][u] : u \in saving[e]}
        /\ \A i \in DOMAIN new : new[i] \in saving[e] /\ ids[e][new[i]] = i
    BY <1>4, <1>5, SavedNames DEF ProductInv
  <1>7. details' = [i \in DOMAIN details \cup DOMAIN new |->
                      IF i \in DOMAIN new THEN new[i] ELSE details[i]]
    BY <1>1, <1>5 DEF Merge
  <1>8. DOMAIN details \subseteq DOMAIN details'
    BY <1>7
  <1>9. \A c \in Calls : c # e => IdsShape(c)' /\ DetailsShape(c)' /\ HeldIdsDrawn(c)'
    BY <1>1, <1>2, <1>8, OtherRequest
  <1>10. IdsShape(e)' /\ DetailsShape(e)'
    <2>1. \A u \in saving[e] : ids[e][u] \in DOMAIN details'
      BY <1>6, <1>7
    <2> QED
      BY <1>2, <1>8, <2>1 DEF ProductInv, IdsShape, DetailsShape
  <1>11. DetailsDrawn'
    <2> SUFFICES ASSUME NEW i \in DOMAIN details'
                 PROVE  details'[i] \in Keys /\ DrawnFor(i, details[i])'
      BY DEF DetailsDrawn
    <2>1. PICK u : u = details'[i]
      OBVIOUS
    <2>2. u \in Keys /\ DrawnFor(i, u)
      <3>1. CASE i \in DOMAIN new
        <4>1. u \in saving[e] /\ ids[e][u] = i
          BY <1>6, <1>7, <2>1, <3>1
        <4>2. u \in Keys /\ ids[e][u] # NoId
          BY <1>2, <1>4, <4>1 DEF ProductInv, IdsShape
        <4> QED
          BY <4>1, <4>2 DEF ProductInv, HeldIdsDrawn
      <3>2. CASE i \notin DOMAIN new
        <4>1. i \in DOMAIN details /\ u = details[i]
          BY <1>7, <2>1, <3>2
        <4> QED
          BY <4>1 DEF ProductInv, DetailsDrawn
      <3> QED
        BY <3>1, <3>2
    <2>3. DrawnFor(i, u)'
      BY <1>1, <2>2, DrawnStays DEF ProductInv
    <2> QED
      BY <2>1, <2>2, <2>3
  <1> QED
    BY <1>1, <1>2, <1>3, <1>9, <1>10, <1>11, SameIds, SameBids, PartsMakeInv

(* The entity ids of a bid were drawn for the UPC that was selected, and    *)
(* the details read under them are those of a UPC they were drawn for.     *)
LEMMA CreateBidsStep ==
    ASSUME ProductInv, NEW e \in Calls, NEW S, CreateBids(e, S)
    PROVE  ProductInv'
  <1>1. /\ UNCHANGED idVars /\ details' = details /\ stage' = stage /\ op' = op /\ upcs' = upcs
        /\ ids' = ids /\ lacking' = lacking /\ saving' = saving /\ pc' = pc /\ keys' = keys
    BY DEF CreateBids, reqVars, idVars, callVars
  <1>2. RequestTypeOK'
    BY <1>1 DEF ProductInv, RequestTypeOK
  <1>3. \A c \in Calls : IdsShape(c)' /\ DetailsShape(c)' /\ HeldIdsDrawn(c)'
    BY <1>1, OtherRequest
  <1>4. \A u \in S : u \in Keys /\ ids[e][u] # NoId
    <2>1. stage[e] = "done" /\ S \subseteq Elems(upcs[e])
      BY DEF CreateBids
    <2>2. \A u \in Elems(upcs[e]) : u \in Keys
      BY DEF ProductInv, RequestTypeOK, Elems
    <2> QED
      BY <2>1, <2>2 DEF ProductInv, IdsShape
  <1>5. ASSUME NEW b \in bids' PROVE BidDrawn(b)'
    <2>1. PICK u \in S : /\ ids[e][u] \in DOMAIN details
                         /\ b = <<ids[e][u], u, details[ids[e][u]]>>
      BY DEF CreateBids
    <2>2. DrawnFor(ids[e][u], u)
      BY <1>4 DEF ProductInv, HeldIdsDrawn
    <2>3. DrawnFor(ids[e][u], details[ids[e][u]]) /\ details[ids[e][u]] \in Keys
      BY <2>1 DEF ProductInv, DetailsDrawn
    <2>4. b = <<b[1], b[2], b[3]>> /\ b[2] \in Keys /\ b[3] \in Keys
      BY <1>4, <2>1, <2>3
    <2>5. DrawnFor(b[1], b[2]) /\ DrawnFor(b[1], b[3])
      BY <2>1, <2>2, <2>3
    <2> QED
      BY <1>1, <2>4, <2>5, DrawnStays DEF ProductInv, BidDrawn
  <1> QED
    BY <1>1, <1>2, <1>3, <1>5, SameDetails, PartsMakeInv

(* A request that fails keeps what it holds, and what it wrote stays.      *)
LEMMA FailStep ==
    ASSUME ProductInv, NEW e \in Calls, Fail(e)
    PROVE  ProductInv'
  <1>1. [AssignNext]_idVars /\ details' = details /\ bids' = bids
    BY DEF Fail, AssignNext
  <1>2. /\ stage[e] # "idle" /\ stage'[e] = "failed" /\ op' = op /\ upcs' = upcs /\ ids' = ids
        /\ lacking' = lacking /\ saving' = saving
        /\ \A c \in Calls : c # e => stage'[c] = stage[c]
    BY DEF ProductInv, RequestTypeOK, Fail
  <1>3. keys' = keys /\ \A c \in Calls : c # e => pc'[c] = pc[c]
    BY DEF ProductInv, AssignInv, AssignTypeOK, Fail, Lost, idVars, callVars
  <1>4. RequestTypeOK'
    BY DEF ProductInv, RequestTypeOK, Stages, Fail
  <1>5. \A c \in Calls : c # e => IdsShape(c)' /\ DetailsShape(c)' /\ HeldIdsDrawn(c)'
    BY <1>1, <1>2, <1>3, OtherRequest
  <1>6. IdsShape(e)' /\ DetailsShape(e)'
    BY <1>2, <1>3 DEF ProductInv, IdsShape, DetailsShape
  <1> QED
    BY <1>1, <1>2, <1>4, <1>5, <1>6, SameIds, SameDetails, SameBids, PartsMakeInv

(* A step of nothing keeps everything.                                     *)
LEMMA StutterStep ==
    ASSUME ProductInv, UNCHANGED prodVars
    PROVE  ProductInv'
  <1>1. /\ UNCHANGED idVars /\ details' = details /\ bids' = bids
        /\ stage' = stage /\ op' = op /\ upcs' = upcs /\ ids' = ids
        /\ lacking' = lacking /\ saving' = saving /\ pc' = pc /\ keys' = keys
    BY DEF prodVars, reqVars, idVars, callVars
  <1>2. \A c \in Calls : IdsShape(c)' /\ DetailsShape(c)' /\ HeldIdsDrawn(c)'
    BY <1>1, OtherRequest
  <1>3. RequestTypeOK'
    BY <1>1 DEF ProductInv, RequestTypeOK
  <1>4. AssignInv' /\ DetailsDrawn' /\ \A b \in bids' : BidDrawn(b)'
    BY <1>1, AssignStep, SameDetails, SameBids DEF ProductInv
  <1> QED
    BY <1>2, <1>3, <1>4 DEF ProductInv
-----------------------------------------------------------------------------
(* The requests implement the specification of the batches: listing a page *)
(* and binding bids only do with the counter and the stored ids what       *)
(* assign_numeric_id_batch does.                                           *)
THEOREM RequestsImplementCalls == ProductSpec => AssignSpec
  <1>1. ProductInit => AssignInit
    BY DEF ProductInit
  <1>2. [ProductNext]_prodVars => [AssignNext]_idVars
    BY RequestStepIsCallStep
  <1> QED
    BY <1>1, <1>2, PTL DEF ProductSpec, AssignSpec

(* The invariant holds in every state of every execution.                  *)
THEOREM ProductInvHolds == ProductSpec => []ProductInv
  <1>1. ProductInv /\ [ProductNext]_prodVars => ProductInv'
    <2> SUFFICES ASSUME ProductInv, [ProductNext]_prodVars PROVE ProductInv'
      OBVIOUS
    <2>1. CASE ProductNext
      BY <2>1, StartStep, ReadIdsStep, ReadDetailsStep, NothingMissingStep, AssignMissingStep,
         AssigningStep, TakeIdsStep, FetchProductsStep, WriteDetailsStep, FailStep,
         CreateBidsStep DEF ProductNext
    <2> QED
      BY <2>1, StutterStep
  <1> QED
    BY ProductInitEstablishesInv, <1>1, PTL DEF ProductSpec

(* Requests, ids, details and bids keep their types, and details are       *)
(* stored under drawn ids only.                                            *)
THEOREM ProductTypeCorrect == ProductSpec => []ProductTypeOK
  <1>1. ProductInv => ProductTypeOK
    <2> SUFFICES ASSUME ProductInv PROVE ProductTypeOK
      OBVIOUS
    <2>1. \A i \in DOMAIN details : i \in 1..counter /\ details[i] \in Keys
      BY DrawnIsId DEF ProductInv, DetailsDrawn
    <2>2. ASSUME NEW b \in bids PROVE b \in (1..counter) \X Keys \X Keys
      <3>1. BidDrawn(b)
        BY DEF ProductInv
      <3>2. b[1] \in 1..counter /\ b[2] \in Keys /\ b[3] \in Keys
        BY <3>1, DrawnIsId DEF ProductInv, BidDrawn
      <3>3. b = <<b[1], b[2], b[3]>>
        BY <3>1 DEF BidDrawn
      <3> QED
        BY <3>2, <3>3
    <2> QED
      BY <2>1, <2>2 DEF ProductInv, AssignInv, RequestTypeOK, ProductTypeOK
  <1> QED
    BY <1>1, ProductInvHolds, PTL

(* Whatever requests ran at the same time or died half way, the details    *)
(* under an entity id are those of the UPC the request said it names,      *)
(* unless two interleaved batches share the id.                            *)
THEOREM GrantedIdsName == ProductSpec => []GrantedIdNamesItsProduct
  <1>1. ProductInv => GrantedIdNamesItsProduct
    <2> SUFFICES ASSUME ProductInv, NEW c \in Calls, stage[c] = "done",
                        NEW u \in Elems(upcs[c]), NEW i, i = ids[c][u],
                        i \in DOMAIN details, ~Shared(i)
                 PROVE  details[i] = u
      BY DEF GrantedIdNamesItsProduct
    <2>1. u \in Keys /\ ids[c][u] # NoId
      BY DEF ProductInv, RequestTypeOK, IdsShape, Elems
    <2>2. DrawnFor(i, u) /\ DrawnFor(i, details[i])
      BY <2>1 DEF ProductInv, HeldIdsDrawn, DetailsDrawn
    <2> QED
      BY <2>2, DrawnForOne DEF ProductInv
  <1> QED
    BY <1>1, ProductInvHolds, PTL

(* A listed page and a bound ad group leave the ids they answer with       *)
(* resolvable, whatever other requests did or left undone.                 *)
THEOREM GrantedIdsResolve == ProductSpec => []GrantedIdResolves
  <1>1. ProductInv => GrantedIdResolves
    <2> SUFFICES ASSUME ProductInv, NEW c \in Calls, stage[c] = "done",
                        NEW u \in Elems(upcs[c]) \ (lacking[c] \ saving[c])
                 PROVE  ids[c][u] \in DOMAIN details
      BY DEF GrantedIdResolves
    <2>1. CASE u \in saving[c]
      BY <2>1 DEF ProductInv, DetailsShape
    <2>2. CASE u \notin saving[c]
      <3>1. op[c] \in {"page", "bind"} /\ u \in Elems(upcs[c]) \ lacking[c]
        BY <2>2 DEF ProductInv, RequestTypeOK
      <3>2. op[c] = "bind"
        BY <2>2, <3>1 DEF ProductInv, DetailsShape
      <3> QED
        BY <3>1, <3>2 DEF ProductInv, DetailsShape
    <2> QED
      BY <2>1, <2>2
  <1> QED
    BY <1>1, ProductInvHolds, PTL

(* build_pla_create_bids_request_from_entities bids on the product the      *)
(* client selected, unless two interleaved batches share its entity id.    *)
THEOREM BidsOnSelection == ProductSpec => []BidsOnSelectedProduct
  <1>1. ProductInv => BidsOnSelectedProduct
    BY DrawnForOne DEF ProductInv, BidDrawn, BidsOnSelectedProduct
  <1> QED
    BY <1>1, ProductInvHolds, PTL

(* As long as no call drew between the INCR and the INCRBY of another, the *)
(* requests keep a register of entity ids.                                 *)
THEOREM SerialProductsAreRegistered == ProductSpec /\ []Serial => Register!RegisterSpec
  BY RequestsImplementCalls, SerialCallsImplementRegister, PTL

(* Batches that draw inside each other are all that makes an id bound to a *)
(* bid hold another product, or a bid go on another: without them          *)
(* bind_bids_to_entity_ids does what it says of itself.                    *)
THEOREM SerialBidsAreBound ==
    ProductSpec => [](Serial => BoundIdNamesItsProduct /\ \A b \in bids : b[2] = b[3])
  <1>1. /\ GrantedIdNamesItsProduct /\ BidsOnSelectedProduct /\ SerialCallsDisjoint
        => (Serial => BoundIdNamesItsProduct /\ \A b \in bids : b[2] = b[3])
    BY SerialShareNothing
       DEF GrantedIdNamesItsProduct, BidsOnSelectedProduct, BoundIdNamesItsProduct
  <1>2. ProductSpec => []SerialCallsDisjoint
    BY RequestsImplementCalls, SerialCallsAreDisjoint, PTL
  <1> QED
    BY <1>1, <1>2, GrantedIdsName, BidsOnSelection, PTL
=============================================================================
