---------------------------- MODULE MCAccountIds ----------------------------
(* Three requests about three accounts: listings of one to all of them,    *)
(* and the account of a campaign.                                          *)
EXTENDS AccountIds, TLC

CONSTANTS a1, a2, a3, c1, c2, c3

MCCalls == {c1, c2, c3}
MCKeys == {a1, a2, a3}
MCListings == {<<a1>>, <<a1, a2>>, <<a2, a3, a1>>}

(* What may be missing of them.                                            *)
MCRequests ==
    {<<a1>>, <<a2>>, <<a3>>, <<a1, a2>>, <<a2, a3>>, <<a2, a1>>, <<a3, a1>>, <<a2, a3, a1>>}

Symmetric == Permutations(MCCalls)

Finished ==
    /\ \A c \in Calls : stage[c] \in {"done", "failed"}
    /\ UNCHANGED acctVars
MCNext == AccountNext \/ Finished
MCSpec == AccountInit /\ [][MCNext]_acctVars
=============================================================================
