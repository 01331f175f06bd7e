----------------------------- MODULE MCAdGroups -----------------------------
(* AdGroups with two requests on one ad group, whose entities and keywords *)
(* are none or three, one of them unfit, and one or more requests of each  *)
(* kind.                                                                   *)
EXTENDS AdGroups, TLC

CONSTANTS x1, x2, x3

Ask(o, f, a, add, del) == [op |-> o, field |-> f, ask |-> a, add |-> add, del |-> del]
OnItems(o, add, del) == Ask(o, "no field", "same", add, del)

MCRequests ==
    {Ask("put", "name", "PAUSED", {}, {}), Ask("put", "amount", "same", {x1}, {}),
     Ask("put", "no field", "ACTIVE", {}, {})}
    \cup {OnItems("patch", {x1}, {}), OnItems("patch", {}, {x1, x2})}
    \cup {OnItems("post", {x1}, {})}
    \cup {OnItems("keywords", {x1}, {x2}), OnItems("keywords", {}, {x1, x2, x3})}
    \cup {Ask("campaign", "budgetType", "same", {}, {})}

(* The requests run once, and are not followed any further once they have  *)
(* met inside: what is checked of a request is about one without company.  *)
Met == disturbed = Handlers

Finished ==
    /\ Met \/ \A h \in Handlers : stage[h] = "over"
    /\ UNCHANGED adGroupVars

(* One kind of lease, and an ad group that is a draft or paused: the other *)
(* statuses are reached by the requests and by what happens upstream.      *)
MCInit ==
    /\ AdGroupInit
    /\ lease = "expires"
    /\ status \in {"DRAFT", "PAUSED"}
    /\ content \in {[p \in Parts |-> {}], [p \in Parts |-> Items]}

MCSpec == MCInit /\ [][(~ Met /\ AdGroupNext) \/ Finished]_adGroupVars

Symmetry == Permutations(Handlers)
=============================================================================
