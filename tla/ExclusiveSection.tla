-------------------------- MODULE ExclusiveSection --------------------------
(***************************************************************************)
(* What the decorator `locked` promises to the handlers of one entity: a   *)
(* section that admits one of them at a time, under a lease.  A handler    *)
(* whose lease ran out stays in the section, no longer protected from the  *)
(* next one, and can then not be answered as a success.                    *)
(***************************************************************************)
CONSTANT Handlers

VARIABLES
    inside,     \* the handlers in the section
    lapsed,     \* those of them whose lease has run out
    succeeded   \* the handlers answered as a success

secVars == <<inside, lapsed, succeeded>>

SectionInit ==
    /\ inside = {}
    /\ lapsed = {}
    /\ succeeded = {}

Enter(h) ==
    /\ h \notin inside
    /\ inside \subseteq lapsed
    /\ inside' = inside \cup {h}
    /\ UNCHANGED <<lapsed, succeeded>>

Lapse(h) ==
    /\ h \in inside \ lapsed
    /\ lapsed' = lapsed \cup {h}
    /\ UNCHANGED <<inside, succeeded>>

(* A failure may end anywhere, a success only under an unbroken lease.     *)
Leave(h, ok) ==
    /\ h \in inside
    /\ ok => h \notin lapsed
    /\ inside' = inside \ {h}
    /\ lapsed' = lapsed \ {h}
    /\ succeeded' = IF ok THEN succeeded \cup {h} ELSE succeeded

SectionNext ==
    \E h \in Handlers :
        \/ Enter(h)
        \/ Lapse(h)
        \/ \E ok \in BOOLEAN : Leave(h, ok)

SectionSpec == SectionInit /\ [][SectionNext]_secVars
=============================================================================
