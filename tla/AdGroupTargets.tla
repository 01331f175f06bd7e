--------------------------- MODULE AdGroupTargets ---------------------------
(***************************************************************************)
(* The targets of an ad group, from the request that creates it to the     *)
(* activation and back into an answer.  No state.  A target has a type, 1  *)
(* for a placement, 2 for a division, 3 for day parting, and an id or, for *)
(* day parting, the first and the last hour.                               *)
(*                                                                         *)
(* Campaigns are product listing ads; those of a carousel have one         *)
(* placement, whatever is asked, and no day parting.                       *)
(***************************************************************************)
EXTENDS Naturals, Sequences, FiniteSets

Placement(p) == [type |-> 1, id |-> p]
DivisionTarget(d) == [type |-> 2, id |-> d]
Hours(first, last) == [type |-> 3, values |-> <<first, last>>]

OfType(targets, n) == {t \in targets : t.type = n}

(* fetch_ad_group_targets: by type; targets of other types are skipped.    *)
FetchTargets(targets) ==
    [placements |-> {t.id : t \in OfType(targets, 1)},
     divisions  |-> {t.id : t \in OfType(targets, 2)},
     dayParting |-> {t.values : t \in OfType(targets, 3)}]

(* validate_ad_group_targets                                               *)
ValidTargets(f) ==
    /\ f.placements # {}
    /\ Cardinality(f.dayParting) <= 1
    /\ \A v \in f.dayParting : Len(v) = 2 /\ 0 <= v[1] /\ v[1] < v[2] /\ v[2] < 24

(* get_location_group_payload: a division without details is left out.     *)
LocationGroup(divisions, detailed) == divisions \cap detailed

(* The channel data of a new activation that come from its targets.        *)
TargetData(f, located) ==
    [placementType |-> f.placements, divisionBanners |-> located, dayParting |-> f.dayParting]

NoTargetData == TargetData(FetchTargets({}), {})

(* Mutant of TargetsFromActivation: midnight counts as no hour.            *)
TargetsFromTruthy(data, numbered) ==
    {Placement(p) : p \in data.placementType}
    \cup {DivisionTarget(d) : d \in data.divisionBanners \cap numbered}
    \cup {Hours(v[1], v[2]) : v \in {w \in data.dayParting : w[1] # 0}}

(* targets_from_activation; divisions come back by their short ids.        *)
TargetsFromActivation(data, numbered) ==
    {Placement(p) : p \in data.placementType}
    \cup {DivisionTarget(d) : d \in data.divisionBanners \cap numbered}
    \cup {Hours(v[1], v[2]) : v \in data.dayParting}
=============================================================================
