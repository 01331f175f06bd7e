-------------------------- MODULE EntityLock_proofs --------------------------
(***************************************************************************)
(* EntityLock, for any set of requests: it is typed, it is exclusive up to *)
(* leases that ran out, and it implements ExclusiveSection.                *)
(***************************************************************************)
EXTENDS EntityLock, TLAPS

(* A request inside with the lock either owns the key or saw it expire;    *)
(* a request that has not entered has seen nothing expire, one whose key   *)
(* expired never owns it again, and one that has not begun did not read    *)
(* the flag.  A handler that is left has ended.                            *)
KeyOwned ==
    /\ \A h \in guarded : stage[h] \in {"inside", "leaving"} => holder = h \/ h \in expired
    /\ \A h \in expired : stage[h] \in {"inside", "leaving", "over"} /\ holder # h
    /\ \A h \in guarded : stage[h] # "idle"
    /\ \A h \in Handlers : stage[h] = "leaving" => result[h] # "none"
    /\ \A h \in Handlers : stage[h] \in {"waiting", "leaving"} => h \in guarded

LockInv == LockTypeOK /\ KeyOwned

(* The initial state satisfies the invariant.                              *)
LEMMA LockInitInv == LockInit => LockInv
BY NoOneAssumption DEF LockInit, LockInv, LockTypeOK, KeyOwned, Stages, Results, Answers

(* Reading the flag preserves the invariant: the request was not in it yet.*)
LEMMA FetchStep ==
    ASSUME LockInv, NEW h \in Handlers, NEW on \in BOOLEAN, FetchFlag(h, on)
    PROVE  LockInv'
<1>1. LockTypeOK'
  BY NoOneAssumption DEF LockInv, LockTypeOK, KeyOwned, Stages, Results, Answers, FetchFlag
<1>2. KeyOwned'
  BY NoOneAssumption DEF LockInv, LockTypeOK, KeyOwned, Stages, Results, Answers, FetchFlag
<1>3. QED  BY <1>1, <1>2 DEF LockInv

(* Winning the key, or failing to, preserves the invariant.                *)
LEMMA AcquireStep ==
    ASSUME LockInv, NEW h \in Handlers, Acquire(h) \/ AcquireFails(h)
    PROVE  LockInv'
<1>1. CASE Acquire(h)
  <2>1. LockTypeOK'
    BY <1>1, NoOneAssumption DEF LockInv, LockTypeOK, KeyOwned, Stages, Results, Answers, Acquire
  <2>2. KeyOwned'
    BY <1>1, NoOneAssumption DEF LockInv, LockTypeOK, KeyOwned, Stages, Results, Answers, Acquire
  <2>3. QED  BY <2>1, <2>2 DEF LockInv
<1>2. CASE AcquireFails(h)
  <2>1. LockTypeOK'
    BY <1>2, NoOneAssumption DEF LockInv, LockTypeOK, KeyOwned, Stages, Results, Answers, AcquireFails
  <2>2. KeyOwned'
    BY <1>2, NoOneAssumption DEF LockInv, LockTypeOK, KeyOwned, Stages, Results, Answers, AcquireFails
  <2>3. QED  BY <2>1, <2>2 DEF LockInv
<1>3. QED  BY <1>1, <1>2

(* The end of the handler preserves the invariant.                         *)
LEMMA FinishStep ==
    ASSUME LockInv, NEW h \in Handlers, NEW r \in {"ok", "error"}, Finish(h, r)
    PROVE  LockInv'
<1>1. CASE h \in guarded
  <2>1. LockTypeOK'
    BY <1>1, NoOneAssumption DEF LockInv, LockTypeOK, KeyOwned, Stages, Results, Answers, Finish
  <2>2. KeyOwned'
    BY <1>1, NoOneAssumption DEF LockInv, LockTypeOK, KeyOwned, Stages, Results, Answers, Finish
  <2>3. QED  BY <2>1, <2>2 DEF LockInv
<1>2. CASE h \notin guarded
  <2>1. LockTypeOK'
    <3>1. r \in Results /\ r \in Answers /\ r # "none"
      BY DEF Results, Answers
    <3>2. stage' = [stage EXCEPT ![h] = "over"] /\ answer' = [answer EXCEPT ![h] = r]
      BY <1>2 DEF Finish
    <3>3. \A g \in Handlers : stage'[g] = "over" <=> answer'[g] # "none"
      BY <3>1, <3>2 DEF LockInv, LockTypeOK
    <3>4. QED  BY <1>2, <3>1, <3>2, <3>3, NoOneAssumption DEF LockInv, LockTypeOK, KeyOwned, Stages, Results, Answers, Finish
  <2>2. KeyOwned'
    BY <1>2, NoOneAssumption DEF LockInv, LockTypeOK, KeyOwned, Stages, Results, Answers, Finish
  <2>3. QED  BY <2>1, <2>2 DEF LockInv
<1>3. QED  BY <1>1, <1>2

(* A release frees only the request's own key, so whoever came after an     *)
(* overrun request keeps its own.                                          *)
LEMMA ReleaseStep ==
    ASSUME LockInv, NEW h \in Handlers, Release(h) \/ ReleaseFails(h)
    PROVE  LockInv'
<1>1. CASE Release(h)
  <2>1. LockTypeOK'
    BY <1>1, NoOneAssumption DEF LockInv, LockTypeOK, KeyOwned, Stages, Results, Answers, Release
  <2>2. KeyOwned'
    BY <1>1, NoOneAssumption DEF LockInv, LockTypeOK, KeyOwned, Stages, Results, Answers, Release
  <2>3. QED  BY <2>1, <2>2 DEF LockInv
<1>2. CASE ReleaseFails(h)
  <2>1. LockTypeOK'
    BY <1>2, NoOneAssumption DEF LockInv, LockTypeOK, KeyOwned, Stages, Results, Answers, ReleaseFails
  <2>2. KeyOwned'
    BY <1>2, NoOneAssumption DEF LockInv, LockTypeOK, KeyOwned, Stages, Results, Answers, ReleaseFails
  <2>3. QED  BY <2>1, <2>2 DEF LockInv
<1>3. QED  BY <1>1, <1>2

(* A dead worker leaves the section, not the key.                          *)
LEMMA CrashStep ==
    ASSUME LockInv, NEW h \in Handlers, Crash(h)
    PROVE  LockInv'
<1>1. LockTypeOK'
  BY NoOneAssumption DEF LockInv, LockTypeOK, KeyOwned, Stages, Results, Answers, Crash
<1>2. KeyOwned'
  BY NoOneAssumption DEF LockInv, LockTypeOK, KeyOwned, Stages, Results, Answers, Crash
<1>3. QED  BY <1>1, <1>2 DEF LockInv

(* An expiry takes the key from the one request that owned it.             *)
LEMMA ExpireStep ==
    ASSUME LockInv, Expire
    PROVE  LockInv'
<1>1. LockTypeOK'
  BY NoOneAssumption DEF LockInv, LockTypeOK, KeyOwned, Expire, Guarded, Stages, Results, Answers
<1>2. KeyOwned'
  BY NoOneAssumption DEF LockInv, LockTypeOK, KeyOwned, Expire, Guarded, Stages, Results, Answers
<1>3. QED  BY <1>1, <1>2 DEF LockInv

(* Every step of the lock and of its requests preserves the invariant.     *)
THEOREM LockInvHolds == LockSpec => []LockInv
<1>1. LockInv /\ [LockNext]_lockVars => LockInv'
  <2> SUFFICES ASSUME LockInv, [LockNext]_lockVars
               PROVE  LockInv'
    OBVIOUS
  <2>1. CASE UNCHANGED lockVars
    BY <2>1 DEF LockInv, LockTypeOK, KeyOwned, lockVars
  <2>2. CASE Expire
    BY <2>2, ExpireStep
  <2>3. ASSUME NEW h \in Handlers,
               \/ \E on \in BOOLEAN : FetchFlag(h, on)
               \/ \E r \in {"ok", "error"} : Finish(h, r)
        PROVE  LockInv'
    BY <2>3, FetchStep, FinishStep
  <2>4. ASSUME NEW h \in Handlers,
               Acquire(h) \/ AcquireFails(h) \/ Release(h) \/ ReleaseFails(h) \/ Crash(h)
        PROVE  LockInv'
    BY <2>4, AcquireStep, ReleaseStep, CrashStep
  <2>5. QED  BY <2>1, <2>2, <2>3, <2>4 DEF LockNext
<1>2. QED  BY <1>1, LockInitInv, PTL DEF LockSpec

(* The types of the lock, for any set of requests.                         *)
THEOREM LockTypeCorrect == LockSpec => []LockTypeOK
<1>1. LockInv => LockTypeOK
  BY DEF LockInv
<1>2. QED  BY <1>1, LockInvHolds, PTL

(* Mutual exclusion of the guarded handlers whose lease has not run out,   *)
(* for any number of requests, timeouts and dead workers.                  *)
THEOREM LockIsExclusive == LockSpec => []Exclusive
<1>1. LockInv => Exclusive
  BY DEF LockInv, KeyOwned, Exclusive, Guarded, Overrun
<1>2. QED  BY <1>1, LockInvHolds, PTL

(* Without an 'expire' in the flag no lease runs out, so the section is    *)
(* exclusive without exception.                                            *)
THEOREM NoExpiryNoOverrun == LockSpec => [](lease = "never" => expired = {})
<1>1. LockInit => (lease = "never" => expired = {})
  BY DEF LockInit
<1>2. (lease = "never" => expired = {}) /\ [LockNext]_lockVars => (lease = "never" => expired = {})'
  BY DEF LockNext, lockVars, FetchFlag, Acquire, AcquireFails, Finish, Release, ReleaseFails, Crash, Expire
<1>3. QED  BY <1>1, <1>2, PTL DEF LockSpec
-----------------------------------------------------------------------------
Sec == <<Guarded, Overrun, Succeeded>>

(* Reading the flag and dying or failing to acquire outside the section    *)
(* are no steps of the section.                                            *)
LEMMA OutsideStutters ==
    ASSUME LockInv, NEW h \in Handlers, NEW on \in BOOLEAN,
           FetchFlag(h, on) \/ AcquireFails(h)
    PROVE  UNCHANGED Sec
<1>1. CASE FetchFlag(h, on)
  <2>1. Guarded' = Guarded /\ Succeeded' = Succeeded
    BY <1>1 DEF LockInv, LockTypeOK, KeyOwned, Guarded, Overrun, Succeeded, Stages, Results, Answers, FetchFlag
  <2>2. QED  BY <1>1, <2>1 DEF Sec, Overrun, FetchFlag
<1>2. CASE AcquireFails(h)
  <2>1. Guarded' = Guarded /\ Succeeded' = Succeeded
    BY <1>2 DEF LockInv, LockTypeOK, KeyOwned, Guarded, Overrun, Succeeded, Stages, Results, Answers, AcquireFails
  <2>2. QED  BY <1>2, <2>1 DEF Sec, Overrun, AcquireFails
<1>3. QED  BY <1>1, <1>2

(* Winning the key is entering the section: whoever is still inside then   *)
(* has lost it.                                                            *)
LEMMA AcquireEnters ==
    ASSUME LockInv, NEW h \in Handlers, Acquire(h), h \in guarded
    PROVE  Section!Enter(h)
<1>1. h \notin Guarded /\ Guarded' = Guarded \cup {h}
  BY DEF LockInv, LockTypeOK, KeyOwned, Guarded, Overrun, Succeeded, Stages, Results, Answers, Acquire
<1>2. Guarded \subseteq Overrun
  BY NoOneAssumption DEF LockInv, LockTypeOK, KeyOwned, Guarded, Overrun, Succeeded, Stages, Results, Answers, Acquire
<1>3. h \notin expired /\ expired' = expired
  BY DEF LockInv, LockTypeOK, KeyOwned, Guarded, Overrun, Succeeded, Stages, Results, Answers, Acquire
<1>4. Overrun' = Overrun
  BY <1>1, <1>3 DEF Overrun
<1>5. Succeeded' = Succeeded
  BY DEF Succeeded, Acquire
<1>6. QED  BY <1>1, <1>2, <1>4, <1>5 DEF Section!Enter

(* The end of a handler is no step of the section.                         *)
LEMMA FinishStutters ==
    ASSUME LockInv, NEW h \in Handlers, NEW r \in {"ok", "error"}, Finish(h, r)
    PROVE  UNCHANGED Sec
<1>1. Guarded' = Guarded /\ Succeeded' = Succeeded
  BY DEF LockInv, LockTypeOK, KeyOwned, Guarded, Overrun, Succeeded, Stages, Results, Answers, Finish
<1>2. QED  BY <1>1 DEF Sec, Overrun, Finish

(* A request that is done with the section leaves it, and as a success     *)
(* only if the key was still its own.                                      *)
LEMMA ReleaseLeaves ==
    ASSUME LockInv, NEW h \in Handlers, h \in guarded,
           Release(h) \/ ReleaseFails(h) \/ (Crash(h) /\ stage[h] # "waiting")
    PROVE  \E ok \in BOOLEAN : Section!Leave(h, ok)
<1>1. h \in Guarded /\ Guarded' = Guarded \ {h} /\ expired' = expired
  BY DEF LockInv, LockTypeOK, KeyOwned, Guarded, Overrun, Succeeded, Stages, Results, Answers, Release, ReleaseFails, Crash
<1>2. Overrun' = Overrun \ {h}
  BY <1>1 DEF Overrun
<1>3. CASE answer'[h] = "ok"
  <2>1. Succeeded' = Succeeded \cup {h}
    BY <1>3 DEF LockInv, LockTypeOK, KeyOwned, Guarded, Overrun, Succeeded, Stages, Results, Answers, Release, ReleaseFails, Crash
  <2>2. holder = h
    BY <1>3 DEF LockInv, LockTypeOK, KeyOwned, Guarded, Overrun, Succeeded, Stages, Results, Answers, Release, ReleaseFails, Crash
  <2>3. h \notin Overrun
    BY <2>2 DEF LockInv, KeyOwned, Overrun
  <2>4. QED  BY <1>1, <1>2, <2>1, <2>3 DEF Section!Leave
<1>4. CASE answer'[h] # "ok"
  <2>1. Succeeded' = Succeeded
    BY <1>4 DEF LockInv, LockTypeOK, KeyOwned, Guarded, Overrun, Succeeded, Stages, Results, Answers, Release, ReleaseFails, Crash
  <2>2. QED  BY <1>1, <1>2, <2>1 DEF Section!Leave
<1>5. QED  BY <1>3, <1>4

(* An expiry is a lapse of the guarded request that held the key, or       *)
(* nothing when the key was an orphan.                                     *)
LEMMA ExpireLapses ==
    ASSUME LockInv, Expire
    PROVE  Section!SectionNext \/ UNCHANGED Sec
<1>1. Guarded' = Guarded /\ Succeeded' = Succeeded
  BY DEF Guarded, Succeeded, Expire
<1>2. CASE holder \in Guarded
  <2>1. holder \in Handlers /\ holder \in Guarded \ Overrun
    BY <1>2 DEF LockInv, LockTypeOK, KeyOwned, Guarded, Overrun
  <2>2. Overrun' = Overrun \cup {holder}
    BY <1>1, <1>2 DEF Overrun, Expire
  <2>3. Section!Lapse(holder)
    BY <1>1, <2>1, <2>2 DEF Section!Lapse
  <2>4. QED  BY <2>1, <2>3 DEF Section!SectionNext
<1>3. CASE holder \notin Guarded
  <2>1. Overrun' = Overrun
    BY <1>1, <1>3 DEF Overrun, Expire
  <2>2. QED  BY <1>1, <2>1 DEF Sec
<1>4. QED  BY <1>2, <1>3

(* The lock implements the section, for any number of requests.            *)
THEOREM LockImplementsSection == LockSpec => ImplementsSection
<1>1. LockInit => Section!SectionInit
  BY DEF LockInit, Section!SectionInit, Guarded, Overrun, Succeeded
<1>2. LockInv /\ [LockNext]_lockVars => [Section!SectionNext]_Sec
  <2> SUFFICES ASSUME LockInv, [LockNext]_lockVars
               PROVE  Section!SectionNext \/ UNCHANGED Sec
    OBVIOUS
  <2>1. CASE UNCHANGED lockVars
    BY <2>1 DEF lockVars, Sec, Guarded, Overrun, Succeeded
  <2>2. CASE Expire
    BY <2>2, ExpireLapses
  <2>3. ASSUME NEW h \in Handlers, NEW on \in BOOLEAN,
               FetchFlag(h, on) \/ AcquireFails(h)
        PROVE  UNCHANGED Sec
    BY <2>3, OutsideStutters
  <2>4. ASSUME NEW h \in Handlers, Acquire(h)
        PROVE  Section!SectionNext
    <3>1. h \in guarded
      BY <2>4 DEF LockInv, KeyOwned, Acquire
    <3>2. QED  BY <2>4, <3>1, AcquireEnters DEF Section!SectionNext
  <2>5. ASSUME NEW h \in Handlers, NEW r \in {"ok", "error"}, Finish(h, r)
        PROVE  UNCHANGED Sec
    BY <2>5, FinishStutters
  <2>6. ASSUME NEW h \in Handlers, Release(h) \/ ReleaseFails(h)
        PROVE  Section!SectionNext
    <3>1. h \in guarded
      BY <2>6 DEF LockInv, KeyOwned, Release, ReleaseFails
    <3>2. QED  BY <2>6, <3>1, ReleaseLeaves DEF Section!SectionNext
  <2>7. ASSUME NEW h \in Handlers, Crash(h)
        PROVE  Section!SectionNext \/ UNCHANGED Sec
    <3>1. CASE h \in guarded /\ stage[h] # "waiting"
      BY <2>7, <3>1, ReleaseLeaves DEF Section!SectionNext
    <3>2. CASE h \notin guarded \/ stage[h] = "waiting"
      <4>1. Guarded' = Guarded /\ Succeeded' = Succeeded
        BY <2>7, <3>2 DEF LockInv, LockTypeOK, KeyOwned, Guarded, Overrun, Succeeded, Stages, Results, Answers, Crash
      <4>2. QED  BY <2>7, <4>1 DEF Sec, Overrun, Crash
    <3>3. QED  BY <3>1, <3>2
  <2>8. QED  BY <2>1, <2>2, <2>3, <2>4, <2>5, <2>6, <2>7 DEF LockNext
<1>3. QED  BY <1>1, <1>2, LockInvHolds, PTL
          DEF LockSpec, ImplementsSection, Section!SectionSpec, Section!secVars, Sec
=============================================================================
