----------------------------- MODULE EntityLock -----------------------------
(***************************************************************************)
(* The Redis lock around the handlers that update one ad group or one      *)
(* campaign (src/app/common/decorators/harness_locked.py).                 *)
(*                                                                         *)
(* Every request reads the lock's configuration from a feature flag; with  *)
(* the flag off, or the flag service out of reach, it runs without lock.   *)
(* Otherwise it polls SET <name> <token> NX [PX expire] until it wins,     *)
(* runs the handler, and releases the lock with a script that deletes the  *)
(* key only if it still holds the request's token; if not, the lock        *)
(* library raises LockNotOwnedError, which nothing catches.  The flag may  *)
(* leave out 'expire': the key then never expires.                         *)
(*                                                                         *)
(* A worker may die at any point, a command may time out after it took     *)
(* effect, and the key may expire under a handler that takes long.         *)
(***************************************************************************)
CONSTANTS
    Handlers,   \* the requests on one entity
    NoOne       \* the value of an absent key

ASSUME NoOneAssumption == NoOne \notin Handlers

VARIABLES
    lease,      \* "expires" or "never": the flag has an 'expire' or has none
    holder,     \* the request whose token is the value of the lock's key
    stage,      \* where each request stands
    guarded,    \* the requests that found the flag on
    result,     \* what the handler itself ended with
    answer,     \* what the client was answered
    expired     \* history: the requests inside when their key expired

lockVars == <<lease, holder, stage, guarded, result, answer, expired>>

Stages == {"idle", "waiting", "inside", "leaving", "over"}
Results == {"none", "ok", "error"}
Answers == {"none", "ok", "error", "not owned", "unavailable", "lost"}

(* The requests in the section that the lock guards.                       *)
Guarded == {h \in guarded : stage[h] \in {"inside", "leaving"}}

(* Those of them that lost the key to expiry.                              *)
Overrun == Guarded \cap expired

Succeeded == {h \in guarded : answer[h] = "ok"}
-----------------------------------------------------------------------------
LockInit ==
    /\ lease \in {"expires", "never"}
    /\ holder = NoOne
    /\ stage = [h \in Handlers |-> "idle"]
    /\ guarded = {}
    /\ result = [h \in Handlers |-> "none"]
    /\ answer = [h \in Handlers |-> "none"]
    /\ expired = {}

(* fetch_multivariate_flag: the lock is on, or this request runs without.  *)
FetchFlag(h, on) ==
    /\ stage[h] = "idle"
    /\ stage' = [stage EXCEPT ![h] = IF on THEN "waiting" ELSE "inside"]
    /\ guarded' = IF on THEN guarded \cup {h} ELSE guarded
    /\ UNCHANGED <<lease, holder, result, answer, expired>>

(* Mutant of Acquire: SET without NX.                                      *)
AcquireAnyway(h) ==
    /\ stage[h] = "waiting"
    /\ holder' = h
    /\ stage' = [stage EXCEPT ![h] = "inside"]
    /\ UNCHANGED <<lease, guarded, result, answer, expired>>

(* SET NX wins.  A request that finds the key taken sleeps and tries again.*)
Acquire(h) ==
    /\ stage[h] = "waiting"
    /\ holder = NoOne
    /\ holder' = h
    /\ stage' = [stage EXCEPT ![h] = "inside"]
    /\ UNCHANGED <<lease, guarded, result, answer, expired>>

(* Redis cannot be reached, or does not answer in time: 503.  The SET may  *)
(* have taken effect, and nobody will release it.                          *)
AcquireFails(h) ==
    /\ stage[h] = "waiting"
    /\ holder' \in IF holder = NoOne THEN {NoOne, h} ELSE {holder}
    /\ stage' = [stage EXCEPT ![h] = "over"]
    /\ answer' = [answer EXCEPT ![h] = "unavailable"]
    /\ UNCHANGED <<lease, guarded, result, expired>>

(* Mutant of Finish: the answer leaves before the lock is released.        *)
FinishAnswered(h, r) ==
    /\ stage[h] = "inside"
    /\ result' = [result EXCEPT ![h] = r]
    /\ answer' = [answer EXCEPT ![h] = r]
    /\ stage' = [stage EXCEPT ![h] = IF h \in guarded THEN "leaving" ELSE "over"]
    /\ UNCHANGED <<lease, holder, guarded, expired>>

(* The handler returned or raised.                                         *)
Finish(h, r) ==
    /\ stage[h] = "inside"
    /\ result' = [result EXCEPT ![h] = r]
    /\ IF h \in guarded
       THEN /\ stage' = [stage EXCEPT ![h] = "leaving"]
            /\ UNCHANGED answer
       ELSE /\ stage' = [stage EXCEPT ![h] = "over"]
            /\ answer' = [answer EXCEPT ![h] = r]
    /\ UNCHANGED <<lease, holder, guarded, expired>>

(* Mutant of Release: DEL of the key, whoever's token it holds.            *)
ReleaseAnyway(h) ==
    /\ stage[h] = "leaving"
    /\ holder' = NoOne
    /\ answer' = [answer EXCEPT ![h] = result[h]]
    /\ stage' = [stage EXCEPT ![h] = "over"]
    /\ UNCHANGED <<lease, guarded, result, expired>>

(* The release script.  The answer of the handler is replaced by a 500     *)
(* when the key is no longer its own, whatever the handler did.            *)
Release(h) ==
    /\ stage[h] = "leaving"
    /\ IF holder = h
       THEN /\ holder' = NoOne
            /\ answer' = [answer EXCEPT ![h] = result[h]]
       ELSE /\ answer' = [answer EXCEPT ![h] = "not owned"]
            /\ UNCHANGED holder
    /\ stage' = [stage EXCEPT ![h] = "over"]
    /\ UNCHANGED <<lease, guarded, result, expired>>

(* The script's reply did not come: 503, and the key is gone or is not.    *)
ReleaseFails(h) ==
    /\ stage[h] = "leaving"
    /\ holder' \in IF holder = h THEN {NoOne, h} ELSE {holder}
    /\ answer' = [answer EXCEPT ![h] = "unavailable"]
    /\ stage' = [stage EXCEPT ![h] = "over"]
    /\ UNCHANGED <<lease, guarded, result, expired>>

(* The worker that runs the request dies; the key stays.                   *)
Crash(h) ==
    /\ stage[h] \in {"waiting", "inside", "leaving"}
    /\ stage' = [stage EXCEPT ![h] = "over"]
    /\ answer' = [answer EXCEPT ![h] = "lost"]
    /\ UNCHANGED <<lease, holder, guarded, result, expired>>

(* Mutant of Expire: 'expire' is not handed to SET.                        *)
ExpireDropped == FALSE /\ UNCHANGED lockVars

(* PX runs out.                                                            *)
Expire ==
    /\ lease = "expires"
    /\ holder # NoOne
    /\ holder' = NoOne
    /\ expired' = expired \cup ({holder} \cap Guarded)
    /\ UNCHANGED <<lease, stage, guarded, result, answer>>

LockNext ==
    \/ \E h \in Handlers :
          \/ \E on \in BOOLEAN : FetchFlag(h, on)
          \/ Acquire(h)
          \/ AcquireFails(h)
          \/ \E r \in {"ok", "error"} : Finish(h, r)
          \/ Release(h)
          \/ ReleaseFails(h)
          \/ Crash(h)
    \/ Expire

LockSpec == LockInit /\ [][LockNext]_lockVars

(* A waiting request polls for ever (blocking=True, no blocking_timeout)   *)
(* and Redis drops expired keys.  Nothing else is assumed: the upstream    *)
(* calls of a handler have no timeout (async_http_client_service.py, line  *)
(* 36), so a handler may hang inside.                                      *)
LockFairness ==
    /\ WF_lockVars(Expire)
    /\ \A h \in Handlers : WF_lockVars(Acquire(h))
-----------------------------------------------------------------------------
(* The types of the key, the flag and the requests; a request is answered  *)
(* once, when it is over.                                                  *)
LockTypeOK ==
    /\ lease \in {"expires", "never"}
    /\ holder \in Handlers \cup {NoOne}
    /\ stage \in [Handlers -> Stages]
    /\ guarded \subseteq Handlers
    /\ result \in [Handlers -> Results]
    /\ answer \in [Handlers -> Answers]
    /\ expired \subseteq Handlers
    /\ \A h \in Handlers : stage[h] = "over" <=> answer[h] # "none"

(* Of the handlers of one entity that found the flag on, at most one is    *)
(* inside and has not outlived its lease; with no 'expire' in the flag at  *)
(* most one is inside at all, since no key expires.  Timeouts of the       *)
(* acquiring and of the releasing command, releases that come too late and *)
(* dead workers do not change that.                                        *)
Exclusive == \A g, h \in Guarded \ Overrun : g = h

(* The promise of ExclusiveSection, for the requests that found the flag   *)
(* on: nobody enters while an unexpired lease is inside, a handler that    *)
(* overran does not free the lock of the one that came after it, and it is *)
(* never answered as a success.                                            *)
Section == INSTANCE ExclusiveSection WITH
               inside <- Guarded,
               lapsed <- Overrun,
               succeeded <- Succeeded

ImplementsSection == Section!SectionSpec

(* A request that waits for the lock does not wait for ever if the flag    *)
(* has an 'expire', even behind a handler that hangs, a dead worker or a   *)
(* lock set by a request that timed out.  (Without 'expire' it may: only   *)
(* the holder deletes the key.)                                            *)
WaitingEnds ==
    \A h \in Handlers :
        lease = "expires" /\ stage[h] = "waiting" ~> stage[h] # "waiting"
=============================================================================
