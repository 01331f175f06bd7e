----------------------------- MODULE NumericIds -----------------------------
(***************************************************************************)
(* The short numeric ids the API shows to its clients, and how the Redis   *)
(* client hands them out (src/app/common/database/async_client.py,         *)
(* assign_numeric_id and assign_numeric_id_batch).                         *)
(*                                                                         *)
(* One entity type (PRODUCT, ACCOUNT, ...) has one counter key,            *)
(* "<entity>:id", and one key "<entity>:<key>" per entity that holds the   *)
(* short id of that entity.  A batch of n keys is numbered with three      *)
(* commands, each of them atomic in Redis, the sequence of them not:       *)
(*                                                                         *)
(*     first = INCR counter;  INCRBY counter (n - 1);                      *)
(*     MSET key_i -> first + i                                             *)
(*                                                                         *)
(* Several workers of the API run such calls at the same time.  A call     *)
(* may stop between two commands: a timeout, or the death of the worker.   *)
(* A command that took effect and whose reply then timed out is the        *)
(* command followed by Lost.                                               *)
(***************************************************************************)
EXTENDS Integers, Sequences

CONSTANTS
    Calls,      \* the calls of assign_numeric_id[_batch]; each runs once
    Keys,       \* the long ids (UPCs, client ids) of one entity type
    Requests    \* the lists of keys a call may be given

(* The callers pass lists without duplicates, and never an empty one: the  *)
(* code returns [] for it before any command.                              *)
ASSUME RequestsAssumption ==
    \A s \in Requests :
        /\ s \in Seq(Keys)
        /\ s # <<>>
        /\ \A i, j \in 1..Len(s) : s[i] = s[j] => i = j

VARIABLES
    counter,    \* the value of "<entity>:id"; INCR on a missing key gives 1
    short,      \* short[k]: the value of "<entity>:<k>", NoId when absent
    pc,         \* where each call stands
    keys,       \* the list each call was given
    first,      \* beginning_value of each call
    last,       \* the last id of its range, NoId until the range is reserved
    overlap     \* history: overlap[c], the calls that drew while c was
                \* between its INCR and its INCRBY

callVars == <<pc, keys, first, last>>
idVars == <<counter, short, callVars, overlap>>

NoId == 0

Phases ==
    {"idle", "incrOne", "incr", "incrby", "store", "stored", "done", "failed"}

Elems(s) == {s[i] : i \in 1..Len(s)}

IndexOf(s, k) == CHOOSE i \in 1..Len(s) : s[i] = k

(* The call has reserved its range.                                        *)
Claimed(c) == last[c] # NoId

(* The ids a call believes to be its own.                                  *)
Owned(c) == IF Claimed(c) THEN first[c]..last[c] ELSE {}

(* Mutant of IdOf: the list is numbered from 1, not from 0.                *)
IdFromOne(c, k) == first[c] + IndexOf(keys[c], k)

(* The id that call c gives to key k of its list.                          *)
IdOf(c, k) == first[c] + IndexOf(keys[c], k) - 1

(* The ids owned by more than one call: what interleaved batches leave.    *)
Shared(i) == \E c, d \in Calls : c # d /\ i \in Owned(c) /\ i \in Owned(d)

(* t lists the keys K of s, each once and in the order of s.               *)
IsSublist(t, s, K) ==
    /\ Elems(t) = K
    /\ \A i, j \in 1..Len(t) : i < j => IndexOf(s, t[i]) < IndexOf(s, t[j])

(* The keys K of list s: what a caller keeps of its list for the batch.    *)
Sublist(s, K) ==
    IF K = {} THEN << >> ELSE CHOOSE t \in Requests : IsSublist(t, s, K)
-----------------------------------------------------------------------------
AssignInit ==
    /\ counter = 0
    /\ short = [k \in Keys |-> NoId]
    /\ pc = [c \in Calls |-> "idle"]
    /\ keys = [c \in Calls |-> <<>>]
    /\ first = [c \in Calls |-> NoId]
    /\ last = [c \in Calls |-> NoId]
    /\ overlap = [c \in Calls |-> {}]

(* assign_numeric_id_batch is called with a list of keys.                  *)
Begin(c, s) ==
    /\ pc[c] = "idle"
    /\ s \in Requests
    /\ pc' = [pc EXCEPT ![c] = "incr"]
    /\ keys' = [keys EXCEPT ![c] = s]
    /\ UNCHANGED <<counter, short, first, last, overlap>>

(* assign_numeric_id is called with one key.                               *)
BeginOne(c, s) ==
    /\ pc[c] = "idle"
    /\ s \in Requests /\ Len(s) = 1
    /\ pc' = [pc EXCEPT ![c] = "incrOne"]
    /\ keys' = [keys EXCEPT ![c] = s]
    /\ UNCHANGED <<counter, short, first, last, overlap>>

(* INCR gives call c its first id.  The calls that sit between their INCR  *)
(* and their INCRBY note that c draws now.                                 *)
Draw(c) ==
    /\ counter' = counter + 1
    /\ first' = [first EXCEPT ![c] = counter + 1]
    /\ overlap' = [d \in Calls |-> IF pc[d] = "incrby"
                                   THEN overlap[d] \cup {c}
                                   ELSE overlap[d]]
    /\ UNCHANGED <<short, keys>>

(* INCR of a batch: it knows where its range begins.                       *)
Incr(c) ==
    /\ pc[c] = "incr"
    /\ Draw(c)
    /\ pc' = [pc EXCEPT ![c] = "incrby"]
    /\ UNCHANGED last

(* INCR of a single call: that is its id.                                  *)
IncrOne(c) ==
    /\ pc[c] = "incrOne"
    /\ Draw(c)
    /\ pc' = [pc EXCEPT ![c] = "store"]
    /\ last' = [last EXCEPT ![c] = counter + 1]

(* The batch goes on with the range from its first id, on what INCRBY n    *)
(* made of the counter.                                                    *)
ReserveBy(c, n) ==
    /\ pc[c] = "incrby"
    /\ counter' = counter + n
    /\ pc' = [pc EXCEPT ![c] = "store"]
    /\ last' = [last EXCEPT ![c] = first[c] + (Len(keys[c]) - 1)]
    /\ UNCHANGED <<short, keys, first, overlap>>

(* Mutant of IncrBy: the rest of the range is given back, not reserved.    *)
DecrBy(c) == ReserveBy(c, 1 - Len(keys[c]))

(* Mutant of IncrBy: the range is not reserved in full.                    *)
IncrByTwoLess(c) == ReserveBy(c, Len(keys[c]) - 2)

(* INCRBY len - 1, whose reply the code does not look at.                  *)
IncrBy(c) == ReserveBy(c, Len(keys[c]) - 1)

(* Mutant of Store: every key gets the first id of the range.              *)
StoreFirst(c) ==
    /\ pc[c] = "store"
    /\ short' = [k \in Keys |-> IF k \in Elems(keys[c]) THEN first[c] ELSE short[k]]
    /\ pc' = [pc EXCEPT ![c] = "stored"]
    /\ UNCHANGED <<counter, keys, first, last, overlap>>

(* SET or MSET of the short ids under the long ones.                       *)
Store(c) ==
    /\ pc[c] = "store"
    /\ short' = [k \in Keys |-> IF k \in Elems(keys[c]) THEN IdOf(c, k) ELSE short[k]]
    /\ pc' = [pc EXCEPT ![c] = "stored"]
    /\ UNCHANGED <<counter, keys, first, last, overlap>>

(* The ids go back to the caller.                                          *)
Return(c) ==
    /\ pc[c] = "stored"
    /\ pc' = [pc EXCEPT ![c] = "done"]
    /\ UNCHANGED <<counter, short, keys, first, last, overlap>>

(* RedisTimeoutError, answered with 503, or the worker died.               *)
Lost(c) ==
    /\ pc[c] \in {"incrOne", "incr", "incrby", "store", "stored"}
    /\ pc' = [pc EXCEPT ![c] = "failed"]
    /\ UNCHANGED <<counter, short, keys, first, last, overlap>>

AssignNext ==
    \E c \in Calls :
        \/ \E s \in Requests : Begin(c, s) \/ BeginOne(c, s)
        \/ Incr(c)
        \/ IncrOne(c)
        \/ IncrBy(c)
        \/ Store(c)
        \/ Return(c)
        \/ Lost(c)

AssignSpec == AssignInit /\ [][AssignNext]_idVars

(* What a call was given: an id for each key of its list, once it has      *)
(* reserved its range.                                                     *)
Given(c) == [k \in (IF Claimed(c) THEN Elems(keys[c]) ELSE {}) |-> IdOf(c, k)]

Register == INSTANCE IdRegister WITH given <- [c \in Calls |-> Given(c)], book <- short
-----------------------------------------------------------------------------
(* The types of the counter, the stored ids, the calls and the history.    *)
AssignTypeOK ==
    /\ counter \in Nat
    /\ short \in [Keys -> Nat]
    /\ pc \in [Calls -> Phases]
    /\ keys \in [Calls -> Seq(Keys)]
    /\ first \in [Calls -> Nat]
    /\ last \in [Calls -> Nat]
    /\ overlap \in [Calls -> SUBSET Calls]

(* The counter is never behind an id in use: whatever interleaving the     *)
(* INCR and INCRBY of several calls had, and however many calls stopped    *)
(* half way, the next INCR of assign_numeric_id[_batch] starts above every *)
(* id that some call owns or that is stored under a key.                   *)
IdsBelowCounter ==
    /\ \A c \in Calls : \A i \in Owned(c) : i <= counter
    /\ \A k \in Keys : short[k] <= counter

(* Calls of assign_numeric_id[_batch] that share an id did interleave: one *)
(* of them drew its first id between the INCR and the INCRBY of the other. *)
(* Two calls that ran one after the other, two single calls, or calls that *)
(* only overlapped elsewhere, never share one.                             *)
SerialCallsDisjoint ==
    \A c, d \in Calls :
        c # d /\ Owned(c) \cap Owned(d) # {} => d \in overlap[c] \/ c \in overlap[d]

(* A short id stored under a key was drawn for that key by a call that had *)
(* finished its INCR/INCRBY: a call lost half way leaves no id behind that *)
(* its range does not back.                                                *)
StoredIdsAreOwned ==
    \A k \in Keys : short[k] # NoId =>
        \E c \in Calls : /\ Claimed(c)
                         /\ k \in Elems(keys[c])
                         /\ short[k] = IdOf(c, k)

(* No call drew between the INCR and the INCRBY of another.                *)
Serial == \A c \in Calls : overlap[c] = {}

(* As long as no call has drawn between the INCR and the INCRBY of         *)
(* another, assign_numeric_id[_batch] is a register: whatever else of the  *)
(* calls interleaves, and whichever of them stop half way, each is given   *)
(* new ids above all given before, and enters those and no others.         *)
SerialIsRegister == [][Serial' => [Register!RegisterNext]_(Register!registerVars)]_idVars
=============================================================================
