----------------------------- MODULE IdRegister -----------------------------
(***************************************************************************)
(* What the numbering of one entity type promises while no two batches     *)
(* draw at once: a register.  A call is given new ids for its keys in one  *)
(* step, all of them different and above every id given before, and enters *)
(* them in the book, where a later entry of a key replaces an earlier one. *)
(***************************************************************************)
EXTENDS Integers

CONSTANTS Calls, Keys

VARIABLES
    given,      \* given[c][k]: the id given to call c for key k
    book        \* book[k]: the id under which k is known, 0 while there is none

registerVars == <<given, book>>

GivenIds == UNION {{given[c][k] : k \in DOMAIN given[c]} : c \in Calls}

RegisterInit ==
    /\ given = [c \in Calls |-> [k \in {} |-> 0]]
    /\ book = [k \in Keys |-> 0]

(* New ids, one for each of its keys, once.                                *)
Give(c) ==
    /\ DOMAIN given[c] = {}
    /\ LET new == given'[c]
       IN  /\ DOMAIN new # {} /\ DOMAIN new \subseteq Keys
           /\ \A k \in DOMAIN new : new[k] \in Nat /\ \A i \in {0} \cup GivenIds : new[k] > i
           /\ \A j, k \in DOMAIN new : new[j] = new[k] => j = k
           /\ given' = [given EXCEPT ![c] = new]
    /\ UNCHANGED book

Enter(c) ==
    /\ DOMAIN given[c] # {}
    /\ book' = [k \in Keys |-> IF k \in DOMAIN given[c] THEN given[c][k] ELSE book[k]]
    /\ UNCHANGED given

RegisterNext == \E c \in Calls : Give(c) \/ Enter(c)

RegisterSpec == RegisterInit /\ [][RegisterNext]_registerVars

(* No two keys are known under one id.                                     *)
OneKeyEach == \A j, k \in Keys : book[j] = book[k] /\ book[j] # 0 => j = k
=============================================================================
