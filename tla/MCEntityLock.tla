---------------------------- MODULE MCEntityLock ----------------------------
(* EntityLock with three requests on one entity.                           *)
EXTENDS EntityLock

(* The requests run once: after the last of them nothing happens.          *)
Finished ==
    /\ \A h \in Handlers : stage[h] = "over"
    /\ UNCHANGED lockVars

MCSpec == LockInit /\ [][LockNext \/ Finished]_lockVars /\ LockFairness
=============================================================================
