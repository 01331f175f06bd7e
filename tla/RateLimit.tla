------------------------------ MODULE RateLimit ------------------------------
(***************************************************************************)
(* The decorators around a handler: cid_rate_limited, which counts the     *)
(* requests of a client to a function in a key of Redis that lives a       *)
(* minute, and backoff_wait_rate_limited, which tries a request that is    *)
(* over the limit again after a pause.  Each command to Redis is a step of *)
(* its own, and the key may end its life between any two of them.          *)
(*                                                                         *)
(* Time passes in ticks, a fraction of the minute; a life that ends        *)
(* within a tick ends at the next one.                                     *)
(***************************************************************************)
EXTENDS Identity, HttpAnswers, Integers, TLC

CONSTANTS
    Requests,
    Clients,        \* the client ids, "default" among them
    Limit,          \* requests_per_minute
    Window,         \* the life of a key, 60 s
    Repairs, Sheds, Trims,  \* the new lives of a key, drawn at random: 35 to
                            \* 57 s, 5 to 23 s, 15 to 45 s
    Shares,         \* by what the count of a key that lost its life is divided
    Pause,          \* pause_seconds between two attempts
    MaxAttempts,    \* max_retries: attempts, the first included
    MaxFaults       \* bound on the failures of Redis and of the services

ASSUME LimitAssumption ==
    /\ Limit \in Nat /\ Window \in Nat \ {0} /\ Pause \in Nat
    /\ MaxAttempts \in Nat \ {0} /\ MaxFaults \in Nat
    /\ Repairs \cup Sheds \cup Trims \cup Shares \subseteq Nat \ {0}

Handlers == {"report", "campaigns"}
Limits == Clients \X Handlers

(* TTL of a key that is not there, and of one that never ends.             *)
Gone == -2
Endless == -1
Lives == {Gone, Endless} \cup (Nat \ {0})

VARIABLES
    ask,        \* ask[r]: the request
    flags,      \* the feature flags and the configuration
    at,         \* at[r]: what a request does next
    answer,     \* answer[r]: its status, 0 while it has none
    faults,     \* failures so far
    count, ttl, \* of the keys of the limits
    seen,       \* seen[r]: the count a request works with
    tries,      \* tries[r]: its attempts so far
    pause,      \* pause[r]: the ticks until the next
    ran,        \* ran[r]: how often its handler was entered
    met,        \* attempts that were at a key together with another
    alone       \* alone[k]: the attempts let in since the key was made or
                \* divided, those that met another left out

limitVars == <<count, ttl, seen, tries, pause, ran, met, alone>>
rateVars == <<ask, flags, at, answer, faults, limitVars>>

Limited(r) == ask[r].kind \in Handlers
Key(r) == <<ContextClient(ask[r]), ask[r].kind>>

Counting == {"get", "open", "ttl", "repair", "trim", "check"}
AtKey(k) == {r \in Requests : at[r] \in Counting \ {"get"} /\ Key(r) = k}

Goto(r, next) == at' = [at EXCEPT ![r] = next]

(* What is read goes with the request, what it remembers with its answer.  *)
Answered(r, outcome) ==
    /\ Goto(r, "answered")
    /\ answer' = [answer EXCEPT ![r] = RouteAnswer(outcome)]
    /\ seen' = [seen EXCEPT ![r] = 0]
    /\ met' = met \ {r}
    /\ UNCHANGED <<tries, pause>>

(* Mutant of Retried: whatever the handler raises is tried again.          *)
AllRetried(outcome) == outcome.raised # "nothing"

(* rate_limit_exceeded: what the retry of backoff_wait_rate_limited tries  *)
(* again.                                                                  *)
Retried(outcome) == outcome.raised = "RateLimitExceededException"

(* An exception inside the decorators, where a retry may catch it, ...     *)
RaisedInside(r, outcome) ==
    IF flags.backoff /\ Retried(outcome) /\ tries[r] < MaxAttempts
    THEN /\ Goto(r, "paused")
         /\ pause' = [pause EXCEPT ![r] = Pause]
         /\ tries' = [tries EXCEPT ![r] = @ + 1]
         /\ seen' = [seen EXCEPT ![r] = 0]
         /\ met' = met \ {r}
         /\ UNCHANGED answer
    ELSE Answered(r, outcome)

(* ... and the handler, entered inside both.                               *)
Entered(r) ==
    /\ Goto(r, IF ask[r].kind = "report" THEN "token" ELSE "roles")
    /\ ran' = [ran EXCEPT ![r] = @ + 1]
    /\ UNCHANGED <<answer, tries, pause>>
-----------------------------------------------------------------------------
SetKey(k, n, life) ==
    /\ count' = [count EXCEPT ![k] = n]
    /\ ttl' = [ttl EXCEPT ![k] = life]

(* The flag of the limit is off.                                           *)
Unlimited(r) ==
    /\ at[r] = "get" /\ ~ flags.limit
    /\ Entered(r)
    /\ UNCHANGED <<ask, flags, faults, count, ttl, seen, met, alone>>

(* GET the count.                                                          *)
LimitGet(r) ==
    /\ at[r] = "get" /\ flags.limit
    /\ Goto(r, IF ttl[Key(r)] = Gone THEN "open" ELSE "ttl")
    /\ seen' = [seen EXCEPT ![r] = IF ttl[Key(r)] = Gone THEN 0 ELSE count[Key(r)]]
    /\ LET others == AtKey(Key(r))
       IN  met' = IF others = {} THEN met \ {r} ELSE met \cup others \cup {r}
    /\ UNCHANGED <<ask, flags, faults, answer, count, ttl, tries, pause, ran, alone>>

(* There was none: SET it to 0 for a minute.                               *)
LimitOpen(r) ==
    /\ at[r] = "open"
    /\ SetKey(Key(r), 0, Window)
    /\ Goto(r, "ttl")
    /\ UNCHANGED <<ask, flags, faults, answer, seen, tries, pause, ran, met, alone>>

(* Mutant of AfterTtl: a key that never ends is taken as it is.            *)
EndlessTaken(life) == IF life > Window THEN "trim" ELSE "check"

AfterTtl(life) ==
    CASE life < 0 -> "repair"
      [] life > Window -> "trim"
      [] OTHER -> "check"

(* TTL of the key.                                                         *)
LimitTtl(r) ==
    /\ at[r] = "ttl"
    /\ Goto(r, AfterTtl(ttl[Key(r)]))
    /\ UNCHANGED <<ask, flags, faults, answer, limitVars>>

(* The key ended since, or never will: it is SET again, with what was read *)
(* of it, or, when that is at the limit, with a share of it, and the       *)
(* request is let in.                                                      *)
LimitRepair(r) ==
    /\ at[r] = "repair"
    /\ \/ /\ seen[r] < Limit
          /\ \E life \in Repairs : SetKey(Key(r), seen[r], life)
          /\ UNCHANGED <<seen, alone>>
       \/ /\ seen[r] >= Limit
          /\ \E share \in Shares, life \in Sheds : SetKey(Key(r), seen[r] \div share, life)
          /\ seen' = [seen EXCEPT ![r] = 0]
          /\ alone' = [alone EXCEPT ![Key(r)] = 0]
    /\ Goto(r, "check")
    /\ UNCHANGED <<ask, flags, faults, answer, tries, pause, ran, met>>

(* It lives longer than a minute, which nothing here sets.                 *)
LimitTrim(r) ==
    /\ at[r] = "trim"
    /\ \E life \in Trims : SetKey(Key(r), seen[r], life)
    /\ Goto(r, "check")
    /\ UNCHANGED <<ask, flags, faults, answer, seen, tries, pause, ran, met, alone>>

(* Mutant of Below: one too many.                                          *)
UpTo(n) == n <= Limit

Below(n) == n < Limit

(* INCR, which makes an endless key of one that ended, and enter.          *)
LimitPass(r) ==
    /\ at[r] = "check" /\ Below(seen[r])
    /\ LET k == Key(r)
           made == ttl[k] = Gone
       IN  /\ SetKey(k, IF made THEN 1 ELSE count[k] + 1, IF made THEN Endless ELSE ttl[k])
           /\ alone' = IF r \in met THEN alone ELSE [alone EXCEPT ![k] = @ + 1]
    /\ Entered(r)
    /\ seen' = [seen EXCEPT ![r] = 0]
    /\ met' = met \ {r}
    /\ UNCHANGED <<ask, flags, faults>>

LimitRefuse(r) ==
    /\ at[r] = "check" /\ ~ Below(seen[r])
    /\ RaisedInside(r, Raise("RateLimitExceededException"))
    /\ UNCHANGED <<ask, flags, faults, count, ttl, ran, alone>>

Again(r) ==
    /\ at[r] = "paused" /\ pause[r] = 0
    /\ Goto(r, "get")
    /\ UNCHANGED <<ask, flags, faults, answer, limitVars>>

(* A command to Redis that fails is an exception like any other.           *)
LimitFails(r) ==
    /\ at[r] \in Counting /\ flags.limit /\ faults < MaxFaults
    /\ faults' = faults + 1
    /\ RaisedInside(r, Raise("RedisError"))
    /\ UNCHANGED <<ask, flags, count, ttl, ran, alone>>

(* External: time.                                                         *)
Tick ==
    /\ \/ \E k \in Limits : ttl[k] > 0
       \/ \E r \in Requests : pause[r] > 0
    /\ ttl' = [k \in Limits |-> CASE ttl[k] > 1 -> ttl[k] - 1 [] ttl[k] = 1 -> Gone [] OTHER -> ttl[k]]
    /\ count' = [k \in Limits |-> IF ttl[k] = 1 THEN 0 ELSE count[k]]
    /\ alone' = [k \in Limits |-> IF ttl[k] = 1 THEN 0 ELSE alone[k]]
    /\ pause' = [r \in Requests |-> IF pause[r] > 0 THEN pause[r] - 1 ELSE 0]
    /\ UNCHANGED <<ask, flags, faults, at, answer, seen, tries, ran, met>>
=============================================================================
