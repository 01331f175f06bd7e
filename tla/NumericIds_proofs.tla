-------------------------- MODULE NumericIds_proofs --------------------------
(* Proofs about NumericIds, for any number of calls, keys and lists.       *)
EXTENDS NumericIds, TLAPS

(* A call that has drawn the first id of its range and may still use it.   *)
Live(c) == Claimed(c) \/ pc[c] = "incrby"

(* What each phase of a call says about its own record and the counter.    *)
CallShape(c) ==
    /\ pc[c] # "idle" => keys[c] \in Requests
    /\ pc[c] = "incrOne" => Len(keys[c]) = 1
    /\ pc[c] \in {"idle", "incrOne", "incr", "incrby"} => ~Claimed(c)
    /\ pc[c] \in {"store", "stored"} => Claimed(c)
    /\ Live(c) => first[c] >= 1 /\ first[c] <= counter
    /\ Claimed(c) => /\ last[c] = first[c] + (Len(keys[c]) - 1)
                     /\ last[c] <= counter

(* Two live calls drew different first ids, and the range of the earlier   *)
(* one ends before the later one begins unless the later one drew inside   *)
(* the window of the earlier one.                                          *)
Apart(c, d) ==
    Live(c) /\ Live(d) =>
        /\ first[c] # first[d]
        /\ first[c] < first[d] =>
              d \in overlap[c] \/ (Claimed(c) /\ last[c] < first[d])

AssignInv ==
    /\ AssignTypeOK
    /\ \A c \in Calls : CallShape(c)
    /\ \A c, d \in Calls : c # d => Apart(c, d)
    /\ \A k \in Keys : short[k] <= counter
    /\ StoredIdsAreOwned
-----------------------------------------------------------------------------
(* A list a call may be given is a non-empty sequence of keys.             *)
LEMMA RequestIsSeq ==
    ASSUME NEW s \in Requests
    PROVE  /\ s \in Seq(Keys)
           /\ Len(s) \in Nat
           /\ Len(s) >= 1
  BY RequestsAssumption

(* An element of a sequence has an index in it.                            *)
LEMMA IndexInRange ==
    ASSUME NEW s \in Seq(Keys), NEW k \in Elems(s)
    PROVE  /\ IndexOf(s, k) \in 1..Len(s)
           /\ s[IndexOf(s, k)] = k
  BY DEF IndexOf, Elems

(* The id a call gives to a key of its list lies in its range.             *)
LEMMA IdInRange ==
    ASSUME AssignTypeOK, NEW c \in Calls, CallShape(c), Claimed(c),
           NEW k \in Elems(keys[c])
    PROVE  /\ IdOf(c, k) \in Nat
           /\ IdOf(c, k) >= 1
           /\ IdOf(c, k) <= last[c]
           /\ IdOf(c, k) <= counter
  <1>1. keys[c] \in Seq(Keys) /\ first[c] \in Nat /\ Len(keys[c]) \in Nat
    BY DEF AssignTypeOK
  <1>2. IndexOf(keys[c], k) \in 1..Len(keys[c])
    BY <1>1, IndexInRange
  <1>3. /\ first[c] >= 1
        /\ last[c] = first[c] + (Len(keys[c]) - 1)
        /\ last[c] <= counter
        /\ counter \in Nat
    BY DEF CallShape, Live, AssignTypeOK
  <1> QED
    BY <1>1, <1>2, <1>3 DEF IdOf

(* Before any call no id is drawn, stored or owned.                        *)
LEMMA InitEstablishesInv == AssignInit => AssignInv
  BY DEF AssignInit, AssignInv, AssignTypeOK, Phases, CallShape,
         Apart, Live, Claimed, StoredIdsAreOwned, NoId

(* An idle call that begins has drawn nothing, before and after.           *)
LEMMA BeginStep ==
    ASSUME AssignInv, NEW e \in Calls, NEW s \in Requests, Begin(e, s) \/ BeginOne(e, s)
    PROVE  AssignInv'
  <1>1. AssignTypeOK'
    BY RequestIsSeq DEF AssignInv, AssignTypeOK, Phases, Begin, BeginOne
  <1>2. \A d \in Calls : d # e => pc'[d] = pc[d] /\ keys'[d] = keys[d]
    BY DEF AssignInv, AssignTypeOK, Begin, BeginOne
  <1>3. /\ pc'[e] \in {"incr", "incrOne"}
        /\ pc'[e] = "incrOne" => Len(s) = 1
        /\ keys'[e] = s
    BY DEF AssignInv, AssignTypeOK, Begin, BeginOne
  <1>4. UNCHANGED <<counter, short, first, last, overlap>>
    BY DEF Begin, BeginOne
  <1>5. ~Claimed(e) /\ ~Claimed(e)' /\ ~Live(e) /\ ~Live(e)'
    BY <1>3, <1>4 DEF AssignInv, CallShape, Claimed, Live, Begin, BeginOne
  <1>6. \A d \in Calls : CallShape(d)'
    BY <1>2, <1>3, <1>4, <1>5 DEF AssignInv, CallShape, Live, Claimed
  <1>7. \A c, d \in Calls : c # d => Apart(c, d)'
    BY <1>2, <1>4, <1>5 DEF AssignInv, Apart, Live, Claimed
  <1>8. StoredIdsAreOwned'
    BY <1>2, <1>4, <1>5 DEF AssignInv, StoredIdsAreOwned, Claimed, IdOf
  <1> QED
    BY <1>1, <1>4, <1>6, <1>7, <1>8 DEF AssignInv

(* Every first id is above every range reserved before it, and a range not *)
(* yet reserved has the drawing call in its overlap.                       *)
LEMMA IncrStep ==
    ASSUME AssignInv, NEW e \in Calls, Incr(e) \/ IncrOne(e)
    PROVE  AssignInv'
  <1>0. counter \in Nat /\ \A d \in Calls : first[d] \in Nat /\ last[d] \in Nat
    BY DEF AssignInv, AssignTypeOK
  <1>1. AssignTypeOK'
    <2>1. counter + 1 \in Nat
      BY <1>0
    <2>2. Draw(e)
      BY DEF Incr, IncrOne
    <2>3. counter' \in Nat /\ first' \in [Calls -> Nat]
      BY <2>1, <2>2 DEF AssignInv, AssignTypeOK, Draw
    <2>4. overlap' \in [Calls -> SUBSET Calls] /\ short' = short /\ keys' = keys
      BY <2>2 DEF AssignInv, AssignTypeOK, Draw
    <2>5. pc' \in [Calls -> Phases]
      BY DEF AssignInv, AssignTypeOK, Phases, Incr, IncrOne
    <2>6. last' \in [Calls -> Nat]
      BY <2>1 DEF AssignInv, AssignTypeOK, Incr, IncrOne
    <2> QED
      BY <2>3, <2>4, <2>5, <2>6 DEF AssignInv, AssignTypeOK
  <1>2. \A d \in Calls : d # e => pc'[d] = pc[d] /\ first'[d] = first[d] /\ last'[d] = last[d]
    BY DEF AssignInv, AssignTypeOK, Incr, IncrOne, Draw
  <1>3. /\ first'[e] = counter + 1
        /\ \/ pc[e] = "incrOne" /\ pc'[e] = "store" /\ last'[e] = counter + 1
           \/ pc[e] = "incr" /\ pc'[e] = "incrby" /\ last'[e] = last[e]
    BY DEF AssignInv, AssignTypeOK, Incr, IncrOne, Draw
  <1>4. ~Claimed(e) /\ ~Live(e) /\ pc[e] \in {"incr", "incrOne"}
    BY DEF AssignInv, CallShape, Live, Incr, IncrOne
  <1>5. /\ counter' = counter + 1
        /\ UNCHANGED <<short, keys>>
        /\ \A d \in Calls : overlap'[d] = IF pc[d] = "incrby"
                                          THEN overlap[d] \cup {e} ELSE overlap[d]
    BY DEF Incr, IncrOne, Draw
  <1>6. \A d \in Calls : CallShape(d)'
    <2>1. CallShape(e)'
      <3>1. keys[e] \in Requests /\ (pc[e] = "incrOne" => Len(keys[e]) = 1)
        BY <1>4 DEF AssignInv, CallShape
      <3>2. Claimed(e)' <=> pc[e] = "incrOne"
        BY <1>0, <1>3, <1>4 DEF Claimed, NoId
      <3>3. first'[e] >= 1 /\ first'[e] <= counter'
        BY <1>0, <1>3, <1>5
      <3>4. pc[e] = "incrOne" => /\ last'[e] = first'[e] + (Len(keys'[e]) - 1)
                                 /\ last'[e] <= counter'
        <4> SUFFICES ASSUME pc[e] = "incrOne"
                     PROVE  /\ last'[e] = first'[e] + (Len(keys'[e]) - 1)
                            /\ last'[e] <= counter'
          OBVIOUS
        <4>1. Len(keys'[e]) = 1 /\ last'[e] = counter + 1 /\ first'[e] = counter + 1
          BY <3>1, <1>3, <1>5
        <4> QED
          BY <4>1, <1>0, <1>5
      <3> QED
        BY <3>1, <3>2, <3>3, <3>4, <1>3, <1>5 DEF CallShape
    <2>2. ASSUME NEW d \in Calls, d # e PROVE CallShape(d)'
      BY <2>2, <1>0, <1>2, <1>5 DEF AssignInv, CallShape, Live, Claimed
    <2> QED
      BY <2>1, <2>2
  <1>7. ASSUME NEW c \in Calls, NEW d \in Calls, c # d PROVE Apart(c, d)'
    <2>1. CASE c = e
      <3>1. Live(d)' => first'[d] < first'[c]
        BY <2>1, <1>0, <1>2, <1>3, <1>7 DEF AssignInv, CallShape, Live, Claimed
      <3> QED
        BY <3>1, <1>0, <1>1, <1>7 DEF Apart, AssignTypeOK
    <2>2. CASE d = e
      <3>1. Live(c)' => /\ first'[c] < first'[d]
                        /\ Claimed(c)' => last'[c] < first'[d]
        BY <2>2, <1>0, <1>2, <1>3, <1>7 DEF AssignInv, CallShape, Live, Claimed
      <3>2. Live(c)' /\ ~Claimed(c)' => d \in overlap'[c]
        BY <2>2, <1>2, <1>5, <1>7 DEF Live, Claimed
      <3> QED
        BY <3>1, <3>2, <1>0, <1>1, <1>7 DEF Apart, AssignTypeOK
    <2>3. CASE c # e /\ d # e
      <3>1. Apart(c, d)
        BY <1>7 DEF AssignInv
      <3>2. overlap[c] \subseteq overlap'[c]
        BY <1>5
      <3> QED
        BY <2>3, <3>1, <3>2, <1>2 DEF Apart, Live, Claimed
    <2> QED
      BY <2>1, <2>2, <2>3
  <1>8. StoredIdsAreOwned'
    BY <1>2, <1>4, <1>5 DEF AssignInv, StoredIdsAreOwned, Claimed, IdOf
  <1>9. \A k \in Keys : short'[k] <= counter'
    BY <1>0, <1>5 DEF AssignInv, AssignTypeOK
  <1> QED
    BY <1>1, <1>6, <1>7, <1>8, <1>9 DEF AssignInv

(* The reserved range ends at most at the counter: INCRs in between only   *)
(* moved the counter further up.                                           *)
LEMMA IncrByStep ==
    ASSUME AssignInv, NEW e \in Calls, IncrBy(e)
    PROVE  AssignInv'
  <1>0. /\ counter \in Nat
        /\ keys[e] \in Requests /\ Len(keys[e]) \in Nat /\ Len(keys[e]) >= 1
        /\ \A d \in Calls : first[d] \in Nat /\ last[d] \in Nat
    BY RequestIsSeq DEF AssignInv, AssignTypeOK, CallShape, IncrBy, ReserveBy
  <1>1. ~Claimed(e) /\ Live(e) /\ first[e] >= 1 /\ first[e] <= counter
    BY DEF AssignInv, CallShape, Live, IncrBy, ReserveBy
  <1>2. \A d \in Calls : d # e => pc'[d] = pc[d] /\ last'[d] = last[d]
    BY DEF AssignInv, AssignTypeOK, IncrBy, ReserveBy
  <1>3. pc'[e] = "store" /\ last'[e] = first[e] + (Len(keys[e]) - 1)
    BY DEF AssignInv, AssignTypeOK, IncrBy, ReserveBy
  <1>4. /\ counter' = counter + (Len(keys[e]) - 1)
        /\ UNCHANGED <<short, keys, first, overlap>>
    BY DEF IncrBy, ReserveBy
  <1>5. AssignTypeOK'
    BY <1>0, <1>4 DEF AssignInv, AssignTypeOK, Phases, IncrBy, ReserveBy
  <1>6. \A d \in Calls : CallShape(d)'
    <2>1. CallShape(e)'
      BY <1>0, <1>1, <1>3, <1>4 DEF CallShape, Claimed, NoId
    <2>2. ASSUME NEW d \in Calls, d # e PROVE CallShape(d)'
      BY <2>2, <1>0, <1>2, <1>4 DEF AssignInv, CallShape, Live, Claimed
    <2> QED
      BY <2>1, <2>2
  <1>7. ASSUME NEW c \in Calls, NEW d \in Calls, c # d PROVE Apart(c, d)'
    <2>1. Apart(c, d)
      BY <1>7 DEF AssignInv
    <2>2. (Live(c)' => Live(c)) /\ (Live(d)' => Live(d))
      BY <1>1, <1>2, <1>3 DEF Live, Claimed
    <2>3. CASE c = e
      BY <1>1, <1>4, <2>1, <2>2, <2>3 DEF Apart
    <2>4. CASE c # e
      BY <1>2, <1>4, <2>1, <2>2, <2>4 DEF Apart, Claimed
    <2> QED
      BY <2>3, <2>4
  <1>8. StoredIdsAreOwned'
    BY <1>1, <1>2, <1>4 DEF AssignInv, StoredIdsAreOwned, Claimed, IdOf
  <1>9. \A k \in Keys : short'[k] <= counter'
    BY <1>0, <1>4 DEF AssignInv, AssignTypeOK
  <1> QED
    BY <1>5, <1>6, <1>7, <1>8, <1>9 DEF AssignInv

(* What is stored comes from the caller's own range.                       *)
LEMMA StoreStep ==
    ASSUME AssignInv, NEW e \in Calls, Store(e)
    PROVE  AssignInv'
  <1>1. Claimed(e) /\ CallShape(e) /\ AssignTypeOK
    BY DEF AssignInv, CallShape, Store
  <1>2. \A k \in Elems(keys[e]) : IdOf(e, k) \in Nat /\ IdOf(e, k) <= counter
    BY <1>1, IdInRange
  <1>3. pc'[e] = "stored" /\ \A d \in Calls : d # e => pc'[d] = pc[d]
    BY DEF AssignInv, AssignTypeOK, Store
  <1>4. /\ UNCHANGED <<counter, keys, first, last, overlap>>
        /\ \A k \in Keys : short'[k] = IF k \in Elems(keys[e])
                                      THEN IdOf(e, k) ELSE short[k]
    BY DEF Store
  <1>5. AssignTypeOK'
    BY <1>1, <1>2 DEF AssignTypeOK, Phases, Store
  <1>6. \A d \in Calls : (Live(d)' <=> Live(d)) /\ (Claimed(d)' <=> Claimed(d))
    BY <1>1, <1>3, <1>4 DEF Live, Claimed
  <1>7. \A d \in Calls : CallShape(d)'
    BY <1>1, <1>3, <1>4, <1>6 DEF AssignInv, CallShape, Store
  <1>8. \A c, d \in Calls : c # d => Apart(c, d)'
    BY <1>4, <1>6 DEF AssignInv, Apart
  <1>9. \A k \in Keys : short'[k] <= counter'
    BY <1>2, <1>4 DEF AssignInv
  <1>10. StoredIdsAreOwned'
    <2> SUFFICES ASSUME NEW k \in Keys, short'[k] # NoId
                 PROVE  \E c \in Calls : /\ Claimed(c)'
                                         /\ k \in Elems(keys'[c])
                                         /\ short'[k] = IdOf(c, k)'
      BY DEF StoredIdsAreOwned
    <2>1. CASE k \in Elems(keys[e])
      BY <2>1, <1>1, <1>4, <1>6 DEF IdOf
    <2>2. CASE k \notin Elems(keys[e])
      BY <2>2, <1>4, <1>6 DEF AssignInv, StoredIdsAreOwned, IdOf
    <2> QED
      BY <2>1, <2>2
  <1> QED
    BY <1>5, <1>7, <1>8, <1>9, <1>10 DEF AssignInv

(* A call that ends, well or not, keeps its range and draws nothing more.  *)
LEMMA EndStep ==
    ASSUME AssignInv, NEW e \in Calls, Return(e) \/ Lost(e)
    PROVE  AssignInv'
  <1>1. AssignTypeOK'
    BY DEF AssignInv, AssignTypeOK, Phases, Return, Lost
  <1>2. /\ \A d \in Calls : d # e => pc'[d] = pc[d]
        /\ pc[e] # "idle" /\ pc'[e] \in {"done", "failed"}
        /\ UNCHANGED <<counter, short, keys, first, last, overlap>>
    BY DEF AssignInv, AssignTypeOK, Return, Lost
  <1>3. \A d \in Calls : (Live(d)' => Live(d)) /\ (Claimed(d)' <=> Claimed(d))
    BY <1>2 DEF Live, Claimed
  <1>4. \A d \in Calls : CallShape(d)'
    BY <1>2, <1>3 DEF AssignInv, CallShape
  <1>5. \A c, d \in Calls : c # d => Apart(c, d)'
    BY <1>2, <1>3 DEF AssignInv, Apart
  <1>6. StoredIdsAreOwned'
    BY <1>2, <1>3 DEF AssignInv, StoredIdsAreOwned, IdOf
  <1> QED
    BY <1>1, <1>2, <1>4, <1>5, <1>6 DEF AssignInv
-----------------------------------------------------------------------------
(* Every step of any call keeps the invariant.                             *)
LEMMA AssignStep ==
    ASSUME AssignInv, [AssignNext]_idVars
    PROVE  AssignInv'
  <1>1. CASE UNCHANGED idVars
    BY <1>1 DEF idVars, callVars, AssignInv, AssignTypeOK, CallShape, Apart, Live, Claimed,
                StoredIdsAreOwned, IdOf
  <1>2. CASE AssignNext
    BY <1>2, BeginStep, IncrStep, IncrByStep, StoreStep, EndStep DEF AssignNext
  <1> QED
    BY <1>1, <1>2

(* The invariant holds in every state of every execution.                  *)
THEOREM AssignInvHolds == AssignSpec => []AssignInv
  <1>1. AssignInv /\ [AssignNext]_idVars => AssignInv'
    BY AssignStep
  <1> QED
    BY InitEstablishesInv, <1>1, PTL DEF AssignSpec

(* The counter, the stored ids, the calls and the history keep their types *)
(* under any interleaving of assign_numeric_id[_batch].                    *)
THEOREM TypeCorrect == AssignSpec => []AssignTypeOK
  BY AssignInvHolds, PTL DEF AssignInv

(* The INCR of a later call always starts above every id already owned or  *)
(* stored, for any number of calls and any lists.                          *)
THEOREM CounterIsAhead == AssignSpec => []IdsBelowCounter
  <1>1. AssignInv => IdsBelowCounter
    <2> SUFFICES ASSUME AssignInv PROVE IdsBelowCounter
      OBVIOUS
    <2>1. ASSUME NEW c \in Calls, NEW i \in Owned(c) PROVE i <= counter
      BY <2>1 DEF AssignInv, AssignTypeOK, CallShape, Owned
    <2> QED
      BY <2>1 DEF AssignInv, IdsBelowCounter
  <1> QED
    BY <1>1, AssignInvHolds, PTL

(* Only calls whose INCR and INCRBY interleaved can share an id.           *)
THEOREM SerialCallsAreDisjoint == AssignSpec => []SerialCallsDisjoint
  <1>1. AssignInv => SerialCallsDisjoint
    <2> SUFFICES ASSUME AssignInv, NEW c \in Calls, NEW d \in Calls, c # d,
                        NEW i \in Owned(c), i \in Owned(d)
                 PROVE  d \in overlap[c] \/ c \in overlap[d]
      BY DEF SerialCallsDisjoint
    <2>1. Apart(c, d) /\ Apart(d, c)
      BY DEF AssignInv
    <2>2. Claimed(c) /\ Claimed(d)
      BY DEF Owned
    <2>3. /\ first[c] \in Nat /\ first[d] \in Nat
          /\ last[c] \in Nat /\ last[d] \in Nat
      BY DEF AssignInv, AssignTypeOK
    <2>4. i \in first[c]..last[c] /\ i \in first[d]..last[d]
      BY <2>2 DEF Owned
    <2> QED
      BY <2>1, <2>2, <2>3, <2>4 DEF Apart, Live
  <1> QED
    BY <1>1, AssignInvHolds, PTL

(* Whatever call is lost between whichever commands, a stored id is backed *)
(* by the range of a call that drew it for that key.                       *)
THEOREM StoredIdsAreBacked == AssignSpec => []StoredIdsAreOwned
  BY AssignInvHolds, PTL DEF AssignInv
-----------------------------------------------------------------------------
(* What the components built on the batches need to know of them.          *)

(* Id i was drawn for key k by a call that finished its INCR/INCRBY.       *)
DrawnFor(i, k) ==
    \E d \in Calls : Claimed(d) /\ k \in Elems(keys[d]) /\ i = IdOf(d, k)

(* A sub-list has the keys it is asked for.                                *)
LEMMA SublistElems ==
    ASSUME NEW s, NEW K, K # {} => \E t \in Requests : IsSublist(t, s, K)
    PROVE  Elems(Sublist(s, K)) = K
  <1>1. CASE K = {}
    <2>1. Sublist(s, K) = << >>
      BY <1>1 DEF Sublist
    <2> QED
      BY <1>1, <2>1 DEF Elems
  <1>2. CASE K # {}
    <2>1. IsSublist(Sublist(s, K), s, K)
      BY <1>2 DEF Sublist
    <2> QED
      BY <2>1 DEF IsSublist
  <1> QED
    BY <1>1, <1>2

(* A range, once reserved, stays what it is.                               *)
LEMMA ClaimedIsFixed ==
    ASSUME AssignInv, [AssignNext]_idVars, NEW d \in Calls, Claimed(d)
    PROVE  /\ Claimed(d)'
           /\ keys'[d] = keys[d] /\ first'[d] = first[d] /\ last'[d] = last[d]
  <1>1. pc[d] \notin {"idle", "incrOne", "incr", "incrby"}
    BY DEF AssignInv, CallShape
  <1>2. keys'[d] = keys[d] /\ first'[d] = first[d] /\ last'[d] = last[d]
    <2>1. CASE UNCHANGED idVars
      BY <2>1 DEF idVars, callVars
    <2>2. ASSUME NEW e \in Calls, NEW s \in Requests, Begin(e, s) \/ BeginOne(e, s)
          PROVE  keys'[d] = keys[d] /\ first'[d] = first[d] /\ last'[d] = last[d]
      BY <2>2, <1>1 DEF AssignInv, AssignTypeOK, Begin, BeginOne
    <2>3. ASSUME NEW e \in Calls, Incr(e) \/ IncrOne(e)
          PROVE  keys'[d] = keys[d] /\ first'[d] = first[d] /\ last'[d] = last[d]
      BY <2>3, <1>1 DEF AssignInv, AssignTypeOK, Incr, IncrOne, Draw
    <2>4. ASSUME NEW e \in Calls, IncrBy(e)
          PROVE  keys'[d] = keys[d] /\ first'[d] = first[d] /\ last'[d] = last[d]
      BY <2>4, <1>1 DEF AssignInv, AssignTypeOK, IncrBy, ReserveBy
    <2>5. ASSUME NEW e \in Calls, Store(e) \/ Return(e) \/ Lost(e)
          PROVE  keys'[d] = keys[d] /\ first'[d] = first[d] /\ last'[d] = last[d]
      BY <2>5 DEF Store, Return, Lost
    <2> QED
      BY <2>1, <2>2, <2>3, <2>4, <2>5 DEF AssignNext
  <1> QED
    BY <1>2 DEF Claimed

(* What was drawn for a key stays drawn for it.                            *)
LEMMA DrawnStays ==
    ASSUME AssignInv, [AssignNext]_idVars, NEW i, NEW k, DrawnFor(i, k)
    PROVE  DrawnFor(i, k)'
  <1>1. PICK d \in Calls : Claimed(d) /\ k \in Elems(keys[d]) /\ i = IdOf(d, k)
    BY DEF DrawnFor
  <1>2. Claimed(d)' /\ keys'[d] = keys[d] /\ first'[d] = first[d]
    BY <1>1, ClaimedIsFixed
  <1>3. k \in Elems(keys'[d]) /\ i = IdOf(d, k)'
    BY <1>1, <1>2 DEF IdOf
  <1> QED
    BY <1>2, <1>3 DEF DrawnFor

(* What was drawn is an id, and not above the counter.                     *)
LEMMA DrawnIsId ==
    ASSUME AssignInv, NEW i, NEW k, DrawnFor(i, k)
    PROVE  i \in 1..counter /\ i # NoId
  <1>1. PICK d \in Calls : Claimed(d) /\ k \in Elems(keys[d]) /\ i = IdOf(d, k)
    BY DEF DrawnFor
  <1>2. i \in Nat /\ i >= 1 /\ i <= counter /\ counter \in Nat
    BY <1>1, IdInRange DEF AssignInv, AssignTypeOK
  <1> QED
    BY <1>2 DEF NoId

(* An id that only one call owns was drawn for one key only.               *)
LEMMA DrawnForOne ==
    ASSUME AssignInv, NEW i, ~Shared(i), NEW k, NEW m, DrawnFor(i, k), DrawnFor(i, m)
    PROVE  k = m
  <1>1. PICK d \in Calls : Claimed(d) /\ k \in Elems(keys[d]) /\ i = IdOf(d, k)
    BY DEF DrawnFor
  <1>2. PICK e \in Calls : Claimed(e) /\ m \in Elems(keys[e]) /\ i = IdOf(e, m)
    BY DEF DrawnFor
  <1>3. ASSUME NEW c \in Calls, Claimed(c), NEW x \in Elems(keys[c]), i = IdOf(c, x)
        PROVE  i \in Owned(c)
    <2>1. /\ keys[c] \in Seq(Keys) /\ Len(keys[c]) \in Nat
          /\ first[c] \in Nat /\ last[c] \in Nat
      BY DEF AssignInv, AssignTypeOK
    <2>2. IndexOf(keys[c], x) \in 1..Len(keys[c])
      BY <2>1, <1>3, IndexInRange
    <2>3. last[c] = first[c] + (Len(keys[c]) - 1)
      BY <1>3 DEF AssignInv, CallShape
    <2>4. IdOf(c, x) \in first[c]..last[c]
      BY <2>1, <2>2, <2>3 DEF IdOf
    <2> QED
      BY <1>3, <2>4 DEF Owned
  <1>4. d = e
    BY <1>1, <1>2, <1>3 DEF Shared
  <1>5. /\ keys[d] \in Seq(Keys) /\ first[d] \in Nat
        /\ IndexOf(keys[d], k) \in 1..Len(keys[d]) /\ keys[d][IndexOf(keys[d], k)] = k
        /\ IndexOf(keys[d], m) \in 1..Len(keys[d]) /\ keys[d][IndexOf(keys[d], m)] = m
    BY <1>1, <1>2, <1>4, IndexInRange DEF AssignInv, AssignTypeOK
  <1>6. IndexOf(keys[d], k) = IndexOf(keys[d], m)
    BY <1>1, <1>2, <1>4, <1>5 DEF IdOf
  <1> QED
    BY <1>5, <1>6

(* A stored id was drawn for its key.                                      *)
LEMMA StoredIsDrawn ==
    ASSUME AssignInv, NEW k \in Keys, short[k] # NoId
    PROVE  DrawnFor(short[k], k)
  BY DEF AssignInv, StoredIdsAreOwned, DrawnFor
-----------------------------------------------------------------------------
(* The register that serial calls implement.                               *)

(* What a call was given lies in its range, a different id for each key.   *)
GivenRange(c) ==
    /\ DOMAIN Given(c) = Elems(keys[c])
    /\ Elems(keys[c]) # {} /\ Elems(keys[c]) \subseteq Keys
    /\ \A k \in Elems(keys[c]) :
          /\ Given(c)[k] = IdOf(c, k) /\ IdOf(c, k) \in Nat
          /\ IdOf(c, k) >= 1 /\ IdOf(c, k) >= first[c] /\ IdOf(c, k) <= last[c]
    /\ \A j, k \in Elems(keys[c]) : IdOf(c, j) = IdOf(c, k) => j = k

AllGivenRanges == \A c \in Calls : Claimed(c) => GivenRange(c)

(* A call that reserved its range was given such ids.                      *)
LEMMA GivenShape ==
    ASSUME AssignInv, NEW c \in Calls, Claimed(c)
    PROVE  GivenRange(c)
  <1>1. /\ keys[c] \in Seq(Keys) /\ Len(keys[c]) \in Nat /\ first[c] \in Nat
        /\ CallShape(c) /\ AssignTypeOK
    BY DEF AssignInv, AssignTypeOK
  <1>2. Len(keys[c]) >= 1
    <2>1. pc[c] # "idle"
      BY <1>1 DEF CallShape
    <2> QED
      BY <1>1, <2>1, RequestIsSeq DEF CallShape
  <1>3. Elems(keys[c]) # {} /\ Elems(keys[c]) \subseteq Keys
    <2>1. keys[c][1] \in Elems(keys[c])
      BY <1>1, <1>2 DEF Elems
    <2>2. \A i \in 1..Len(keys[c]) : keys[c][i] \in Keys
      BY <1>1
    <2> QED
      BY <2>1, <2>2 DEF Elems
  <1>4. \A k \in Elems(keys[c]) : IndexOf(keys[c], k) \in 1..Len(keys[c]) /\ keys[c][IndexOf(keys[c], k)] = k
    BY <1>1, IndexInRange
  <1>5. \A k \in Elems(keys[c]) : /\ IdOf(c, k) \in Nat /\ IdOf(c, k) >= 1
                                  /\ IdOf(c, k) <= last[c]
    BY <1>1, IdInRange
  <1>6. \A k \in Elems(keys[c]) : IdOf(c, k) >= first[c]
    BY <1>1, <1>4 DEF IdOf
  <1>7. \A j, k \in Elems(keys[c]) : IdOf(c, j) = IdOf(c, k) => j = k
    <2> SUFFICES ASSUME NEW j \in Elems(keys[c]), NEW k \in Elems(keys[c]), IdOf(c, j) = IdOf(c, k)
                 PROVE  j = k
      OBVIOUS
    <2>1. IndexOf(keys[c], j) = IndexOf(keys[c], k)
      BY <1>1, <1>4 DEF IdOf
    <2> QED
      BY <1>4, <2>1
  <1>8. DOMAIN Given(c) = Elems(keys[c]) /\ \A k \in Elems(keys[c]) : Given(c)[k] = IdOf(c, k)
    BY DEF Given
  <1> QED
    BY <1>3, <1>5, <1>6, <1>7, <1>8 DEF GivenRange

(* The same after a step.                                                  *)
LEMMA GivenShapeNext == AssignInv' => AllGivenRanges'
  <1>1. AssignInv => AllGivenRanges
    BY GivenShape DEF AllGivenRanges
  <1> QED
    BY <1>1, PTL

(* What was given at all is no higher than the end of some range.          *)
LEMMA GivenIdsEnd ==
    ASSUME AssignInv, NEW i \in Register!GivenIds
    PROVE  i \in Nat /\ \E d \in Calls : Claimed(d) /\ i <= last[d]
  <1>1. PICK d \in Calls : \E k \in DOMAIN Given(d) : i = Given(d)[k]
    BY DEF Register!GivenIds
  <1>2. PICK k \in DOMAIN Given(d) : i = Given(d)[k]
    BY <1>1
  <1>3. Claimed(d)
    BY <1>2 DEF Given
  <1>4. GivenRange(d)
    BY <1>3, GivenShape
  <1>5. i \in Nat /\ i <= last[d]
    BY <1>2, <1>4 DEF GivenRange
  <1> QED
    BY <1>3, <1>5

(* A call that has no range was given nothing.                             *)
LEMMA NothingGiven ==
    ASSUME NEW c, ~Claimed(c)
    PROVE  Given(c) = [k \in {} |-> 0] /\ DOMAIN Given(c) = {}
  BY DEF Given

(* What a call was given stays as it is.                                   *)
LEMMA GivenStays ==
    ASSUME AssignInv, [AssignNext]_idVars, NEW c \in Calls, Claimed(c) \/ ~Claimed(c)'
    PROVE  Given(c)' = Given(c)
  <1>1. CASE Claimed(c)
    BY <1>1, ClaimedIsFixed DEF Given, IdOf
  <1>2. CASE ~Claimed(c)
    BY <1>2 DEF Given
  <1> QED
    BY <1>1, <1>2

(* A call that reserves a range above all others is given new ids.         *)
LEMMA ReservingGives ==
    ASSUME AssignInv, AssignInv', [AssignNext]_idVars, NEW e \in Calls,
           ~Claimed(e), Claimed(e)', UNCHANGED short,
           \A d \in Calls : Claimed(d) => last[d] < first'[e],
           \A d \in Calls : d # e => (Claimed(d)' <=> Claimed(d))
    PROVE  Register!Give(e)
  <1> DEFINE new == Given(e)'
  <1>1. DOMAIN Given(e) = {}
    BY NothingGiven
  <1>2. /\ DOMAIN new = Elems(keys'[e])
        /\ DOMAIN new # {} /\ DOMAIN new \subseteq Keys
        /\ \A k \in DOMAIN new : new[k] \in Nat /\ new[k] >= 1 /\ new[k] >= first'[e]
        /\ \A j, k \in DOMAIN new : new[j] = new[k] => j = k
    <2>1. GivenRange(e)'
      BY GivenShapeNext DEF AllGivenRanges
    <2> QED
      BY <2>1 DEF GivenRange
  <1>3. \A i \in Register!GivenIds : i \in Nat /\ i < first'[e]
    <2> SUFFICES ASSUME NEW i \in Register!GivenIds PROVE i \in Nat /\ i < first'[e]
      OBVIOUS
    <2>1. PICK d \in Calls : Claimed(d) /\ i <= last[d]
      BY GivenIdsEnd
    <2>2. last[d] \in Nat /\ first'[e] \in Nat /\ i \in Nat /\ last[d] < first'[e]
      BY <2>1, GivenIdsEnd DEF AssignInv, AssignTypeOK
    <2> QED
      BY <2>1, <2>2
  <1>4. \A k \in DOMAIN new : new[k] \in Nat /\ \A i \in {0} \cup Register!GivenIds : new[k] > i
    <2>1. first'[e] \in Nat
      BY DEF AssignInv, AssignTypeOK
    <2> QED
      BY <1>2, <1>3, <2>1
  <1>5. [c \in Calls |-> Given(c)'] = [[c \in Calls |-> Given(c)] EXCEPT ![e] = new]
    <2>1. \A d \in Calls : d # e => Given(d)' = Given(d)
      BY GivenStays
    <2> QED
      BY <2>1
  <1> HIDE DEF new
  <1>6. [c \in Calls |-> Given(c)'][e] = new /\ [c \in Calls |-> Given(c)][e] = Given(e)
    BY DEF new
  <1> QED
    BY <1>1, <1>2, <1>4, <1>5, <1>6 DEF Register!Give

(* What a call stores is what it was given.                                *)
LEMMA StoringEnters ==
    ASSUME AssignInv, AssignInv', NEW e \in Calls, Store(e)
    PROVE  Register!Enter(e)
  <1>1. Claimed(e) /\ UNCHANGED <<keys, first, last>>
    BY DEF AssignInv, CallShape, Store
  <1>2. \A c \in Calls : Given(c)' = Given(c)
    BY <1>1 DEF Given, Claimed, IdOf
  <1>3. /\ DOMAIN Given(e) = Elems(keys[e]) /\ Elems(keys[e]) # {}
        /\ \A k \in Elems(keys[e]) : Given(e)[k] = IdOf(e, k)
    BY <1>1, GivenShape DEF GivenRange
  <1>4. short' = [k \in Keys |-> IF k \in DOMAIN Given(e) THEN Given(e)[k] ELSE short[k]]
    BY <1>3 DEF Store
  <1>5. [c \in Calls |-> Given(c)][e] = Given(e)
    OBVIOUS
  <1>6. [c \in Calls |-> Given(c)'] = [c \in Calls |-> Given(c)]
    BY <1>2
  <1> QED
    BY <1>3, <1>4, <1>5, <1>6 DEF Register!Enter

(* While no call drew inside another, a range that is reserved is above    *)
(* those reserved before it.                                               *)
LEMMA SerialRangesRise ==
    ASSUME AssignInv, NEW e \in Calls, IncrBy(e), overlap[e] = {},
           NEW d \in Calls, Claimed(d), overlap[d] = {}
    PROVE  last[d] < first[e]
  <1>1. ~Claimed(e) /\ Live(e) /\ Live(d) /\ d # e
    BY DEF AssignInv, CallShape, Live, IncrBy, ReserveBy
  <1>2. /\ first[d] \in Nat /\ first[e] \in Nat /\ first[d] # first[e]
        /\ first[e] < first[d] => Claimed(e)
        /\ first[d] < first[e] => last[d] < first[e]
    BY <1>1 DEF AssignInv, AssignTypeOK, Apart
  <1> QED
    BY <1>1, <1>2

(* Every step of calls that stay serial is a step of the register.         *)
LEMMA SerialStep ==
    ASSUME AssignInv, [AssignNext]_idVars, Serial'
    PROVE  [Register!RegisterNext]_(Register!registerVars)
  <1>0. AssignInv'
    BY AssignStep
  <1>1. ASSUME UNCHANGED short, \A c \in Calls : Claimed(c) \/ ~Claimed(c)'
        PROVE  UNCHANGED Register!registerVars
    <2>1. \A c \in Calls : Given(c)' = Given(c)
      BY <1>1, GivenStays
    <2> QED
      BY <1>1, <2>1 DEF Register!registerVars
  <1>2. CASE UNCHANGED idVars
    BY <1>1, <1>2 DEF idVars, callVars, Claimed
  <1>3. ASSUME NEW e \in Calls, NEW s \in Requests, Begin(e, s) \/ BeginOne(e, s)
        PROVE  UNCHANGED Register!registerVars
    BY <1>1, <1>3 DEF Begin, BeginOne, Claimed
  <1>4. ASSUME NEW e \in Calls, Incr(e)
        PROVE  UNCHANGED Register!registerVars
    BY <1>1, <1>4 DEF Incr, Draw, Claimed
  <1>5. ASSUME NEW e \in Calls, IncrOne(e)
        PROVE  Register!Give(e)
    <2>1. /\ first'[e] = counter + 1 /\ last'[e] = counter + 1 /\ counter \in Nat /\ short' = short
          /\ \A d \in Calls : d # e => last'[d] = last[d]
      BY <1>5 DEF AssignInv, AssignTypeOK, IncrOne, Draw
    <2>2. ~Claimed(e) /\ Claimed(e)'
      BY <1>5, <2>1 DEF AssignInv, CallShape, IncrOne, Claimed, NoId
    <2>3. \A d \in Calls : Claimed(d) => last[d] < first'[e]
      BY <2>1 DEF AssignInv, AssignTypeOK, CallShape
    <2>4. \A d \in Calls : d # e => (Claimed(d)' <=> Claimed(d))
      BY <2>1 DEF Claimed
    <2> QED
      BY <1>0, <2>1, <2>2, <2>3, <2>4, ReservingGives
  <1>6. ASSUME NEW e \in Calls, IncrBy(e)
        PROVE  Register!Give(e)
    <2>1. /\ UNCHANGED <<short, first, overlap>>
          /\ \A d \in Calls : d # e => last'[d] = last[d]
          /\ pc'[e] = "store"
      BY <1>6 DEF AssignInv, AssignTypeOK, IncrBy, ReserveBy
    <2>2. ~Claimed(e) /\ Claimed(e)'
      BY <1>0, <1>6, <2>1 DEF AssignInv, CallShape, IncrBy, ReserveBy
    <2>3. \A d \in Calls : overlap[d] = {}
      BY <2>1 DEF Serial
    <2>4. \A d \in Calls : Claimed(d) => last[d] < first'[e]
      BY <1>6, <2>1, <2>3, SerialRangesRise
    <2>5. \A d \in Calls : d # e => (Claimed(d)' <=> Claimed(d))
      BY <2>1 DEF Claimed
    <2> QED
      BY <1>0, <2>1, <2>2, <2>4, <2>5, ReservingGives
  <1>7. ASSUME NEW e \in Calls, Store(e)
        PROVE  Register!Enter(e)
    BY <1>0, <1>7, StoringEnters
  <1>8. ASSUME NEW e \in Calls, Return(e) \/ Lost(e)
        PROVE  UNCHANGED Register!registerVars
    BY <1>1, <1>8 DEF Return, Lost, Claimed
  <1> QED
    BY <1>2, <1>3, <1>4, <1>5, <1>6, <1>7, <1>8 DEF AssignNext, Register!RegisterNext

(* As long as no call drew between the INCR and the INCRBY of another, the *)
(* calls of assign_numeric_id[_batch] are a register, whichever of them    *)
(* stop half way, for any calls, keys and lists.                           *)
THEOREM SerialCallsAreARegister == AssignSpec => SerialIsRegister
  <1>1. AssignInv /\ [AssignNext]_idVars =>
           [Serial' => [Register!RegisterNext]_(Register!registerVars)]_idVars
    BY SerialStep
  <1> QED
    BY <1>1, AssignInvHolds, PTL DEF AssignSpec, SerialIsRegister

(* Calls that are never drawn into implement the register.                 *)
THEOREM SerialCallsImplementRegister == AssignSpec /\ []Serial => Register!RegisterSpec
  <1>1. AssignInit => Register!RegisterInit
    <2> SUFFICES ASSUME AssignInit PROVE Register!RegisterInit
      OBVIOUS
    <2>1. \A c \in Calls : ~Claimed(c)
      BY DEF AssignInit, Claimed
    <2>2. \A c \in Calls : Given(c) = [k \in {} |-> 0]
      BY <2>1, NothingGiven
    <2> QED
      BY <2>2 DEF AssignInit, Register!RegisterInit, NoId
  <1>2. AssignInv /\ [AssignNext]_idVars /\ Serial' => [Register!RegisterNext]_(Register!registerVars)
    BY SerialStep
  <1> QED
    BY <1>1, <1>2, AssignInvHolds, PTL DEF AssignSpec, Register!RegisterSpec

(* As long as no call drew between the INCR and the INCRBY of another, no  *)
(* two keys of Redis lead to one short id.                                 *)
THEOREM SerialShortIdsAreUnique == AssignSpec => [](Serial => Register!OneKeyEach)
  <1>1. AssignInv /\ SerialCallsDisjoint /\ Serial => Register!OneKeyEach
    <2> SUFFICES ASSUME AssignInv, SerialCallsDisjoint, Serial, NEW j \in Keys, NEW k \in Keys,
                        short[j] = short[k], short[j] # 0
                 PROVE  j = k
      BY DEF Register!OneKeyEach
    <2>1. DrawnFor(short[j], j) /\ DrawnFor(short[j], k)
      BY StoredIsDrawn DEF NoId
    <2>2. ~Shared(short[j])
      BY DEF SerialCallsDisjoint, Serial, Shared
    <2> QED
      BY <2>1, <2>2, DrawnForOne
  <1> QED
    BY <1>1, AssignInvHolds, SerialCallsAreDisjoint, PTL

(* Serial calls share no id.                                               *)
LEMMA SerialShareNothing ==
    ASSUME SerialCallsDisjoint, Serial, NEW i
    PROVE  ~Shared(i)
  BY DEF SerialCallsDisjoint, Serial, Shared
=============================================================================
