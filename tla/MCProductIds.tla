---------------------------- MODULE MCProductIds ----------------------------
(* Three requests about two products, two of them at a time.  A page is of *)
(* one product or of both, a bound ad group has bids on both.              *)
EXTENDS ProductIds, TLC, FiniteSets

CONSTANTS u1, u2, c1, c2, c3

MCCalls == {c1, c2, c3}
MCKeys == {u1, u2}
MCRequests == {<<u1>>, <<u2>>, <<u1, u2>>}
MCPages == {<<u1>>, <<u1, u2>>}

Symmetric == Permutations(MCCalls)

Finished ==
    /\ \A c \in Calls : stage[c] \in {"done", "failed"}
    /\ UNCHANGED prodVars
MCNext ==
    \/ /\ ProductNext
       /\ Cardinality({c \in Calls : stage'[c] \notin {"idle", "done", "failed"}}) <= 2
       /\ \A c \in Calls : op'[c] = "bind" => Len(upcs'[c]) = 2
    \/ Finished
MCSpec == ProductInit /\ [][MCNext]_prodVars
=============================================================================
