------------------------- MODULE RequestPath_proofs -------------------------
(***************************************************************************)
(* For any requests, users, clients and limits: the types of RequestPath,  *)
(* that a window lets no more in than its limit, and that what is inside   *)
(* the limit runs once.  The steps of a handler are gathered first into    *)
(* three kinds: one stays at its stage, one goes on to the next, one ends. *)
(***************************************************************************)
EXTENDS RequestPath, TLAPS

(* No outcome of a call or of a check is taken for a refusal of the limit, *)
(* and none but a success is answered 200.                                 *)
Safe(outcome) ==
    /\ ~ Retried(outcome)
    /\ RouteAnswer(outcome) \in Statuses \ {0, 429}
    /\ RouteAnswer(outcome) = 200 => outcome = Returned

LEMMA KnownStatuses ==
    /\ StatusOf["nothing"] = 200 /\ StatusOf["TransportError"] = 504
    /\ StatusOf["RequestValidationError"] = 400 /\ StatusOf["RateLimitExceededException"] = 429
    /\ DOMAIN StatusOf = {"nothing", "TransportError", "RequestValidationError",
                          "RateLimitExceededException", "ActivationLockedException",
                          "CampaignNotPublishedException"}
BY DEF StatusOf

LEMMA KnownOutcomes ==
    /\ Safe(Returned) /\ Safe(Raise("TransportError")) /\ Safe(Raise("ValueError"))
    /\ Safe(Raise("RequestValidationError")) /\ Safe(Raise("RedisError"))
    /\ \A code \in {400, 401, 403, 404, 500, 503, 504} : Safe(Http(code))
<1>1. \A code \in {400, 401, 403, 404, 500, 503, 504} : Safe(Http(code))
  <2>1. \A code : ~ Retried(Http(code)) /\ RouteAnswer(Http(code)) = code
    BY KnownStatuses DEF Retried, RouteAnswer, Http
  <2>2. QED  BY <2>1 DEF Safe, Statuses
<1>2. Safe(Returned)
  BY KnownStatuses DEF Safe, Retried, RouteAnswer, Statuses, Returned
<1>3. Safe(Raise("TransportError"))
  BY KnownStatuses DEF Safe, Retried, RouteAnswer, Statuses, Returned, Raise
<1>4. Safe(Raise("ValueError"))
  BY KnownStatuses DEF Safe, Retried, RouteAnswer, Statuses, Returned, Raise
<1>5. Safe(Raise("RequestValidationError"))
  BY KnownStatuses DEF Safe, Retried, RouteAnswer, Statuses, Returned, Raise
<1>6. Safe(Raise("RedisError"))
  BY KnownStatuses DEF Safe, Retried, RouteAnswer, Statuses, Returned, Raise
<1>7. QED  BY <1>1, <1>2, <1>3, <1>4, <1>5, <1>6

LEMMA RefusalIsAnswered ==
    LET refusal == Raise("RateLimitExceededException")
    IN  Retried(refusal) /\ RouteAnswer(refusal) = 429
BY KnownStatuses DEF Retried, RouteAnswer, Raise

(* A handler is chosen among those that fit, the first of them.            *)
LEMMA SmallestIsIn ==
    ASSUME NEW S, S \subseteq 1 .. 4, S # {}
    PROVE  Min(S) \in S /\ \A y \in S : Min(S) <= y
<1>1. \E x \in S : \A y \in S : x <= y
  <2>1. CASE 1 \in S
    BY <2>1
  <2>2. CASE 1 \notin S /\ 2 \in S
    BY <2>2
  <2>3. CASE 1 \notin S /\ 2 \notin S /\ 3 \in S
    BY <2>3
  <2>4. CASE 1 \notin S /\ 2 \notin S /\ 3 \notin S
    <3>1. \A x \in S : x \in Int /\ 1 <= x /\ x <= 4
      OBVIOUS
    <3>2. \A x \in S : x = 4
      BY <2>4, <3>1
    <3>3. PICK x \in S : x = 4
      BY <3>2
    <3>4. QED  BY <3>2, <3>3
  <2>5. QED  BY <2>1, <2>2, <2>3, <2>4
<1>2. QED  BY <1>1 DEF Min

LEMMA Concatenated ==
    ASSUME NEW a, NEW b, NEW c, NEW d
    PROVE  LET s == <<a, b>> \o <<c, d>>
           IN  DOMAIN s = 1 .. 4 /\ s[1] = a /\ s[2] = b /\ s[3] = c /\ s[4] = d
OBVIOUS

(* The handlers of the search for campaigns, in their order.               *)
LEMMA SearchHandlers ==
    LET list == CampaignSearchHandler.handlers
    IN  /\ DOMAIN list = 1 .. 4
        /\ list[1] = On(200 .. 299, "data") /\ list[2] = On({404}, "empty")
        /\ list[3] = On(400 .. 499, "client_error") /\ list[4] = On(500 .. 599, "server_error")
        /\ CampaignSearchHandler.default = "unexpected"
<1> DEFINE list == CampaignSearchHandler.handlers
<1>1. /\ list = <<On(200 .. 299, "data"), On({404}, "empty")>> \o
                    <<On(400 .. 499, "client_error"), On(500 .. 599, "server_error")>>
      /\ CampaignSearchHandler.default = "unexpected"
  BY DEF CampaignSearchHandler, Appended, DefaultResponseHandler
<1>2. QED  BY ONLY <1>1, Concatenated

LEMMA SearchChoices ==
    ASSUME NEW code \in {200, 302, 401, 404, 500}
    PROVE  LET does == Chosen(CampaignSearchHandler, code)
           IN  /\ does = "data" => code = 200
               /\ does = "empty" => code = 404
               /\ does = "client_error" => code \in {401, 404}
               /\ does \in {"data", "empty", "client_error", "server_error", "unexpected"}
<1> DEFINE list == CampaignSearchHandler.handlers
           fit == {i \in DOMAIN list : code \in list[i].codes}
<1>1. /\ DOMAIN list = 1 .. 4
      /\ list[1] = On(200 .. 299, "data") /\ list[2] = On({404}, "empty")
      /\ list[3] = On(400 .. 499, "client_error") /\ list[4] = On(500 .. 599, "server_error")
      /\ CampaignSearchHandler.default = "unexpected"
  BY SearchHandlers
<1>2. Chosen(CampaignSearchHandler, code) =
          IF fit = {} THEN CampaignSearchHandler.default ELSE list[Min(fit)].does
  BY DEF Chosen
<1> HIDE DEF list
<1>3. fit \subseteq 1 .. 4
  BY <1>1
<1>4. fit # {} => Min(fit) \in fit
  BY <1>3, SmallestIsIn
<1> HIDE DEF fit
<1>5. CASE fit = {}
  BY <1>1, <1>2, <1>5
<1>6. CASE fit # {}
  <2>1. PICK m \in fit : Chosen(CampaignSearchHandler, code) = list[m].does
    BY <1>2, <1>4, <1>6
  <2>2. m \in 1 .. 4 /\ code \in list[m].codes
    BY <1>1 DEF fit
  <2>3. CASE m = 1
    BY <1>1, <2>1, <2>2, <2>3 DEF On
  <2>4. CASE m = 2
    BY <1>1, <2>1, <2>2, <2>4 DEF On
  <2>5. CASE m = 3
    BY <1>1, <2>1, <2>2, <2>5 DEF On
  <2>6. CASE m = 4
    BY <1>1, <2>1, <2>2, <2>6 DEF On
  <2>7. QED  BY <2>2, <2>3, <2>4, <2>5, <2>6
<1>7. QED  BY <1>5, <1>6

(* A reply is one of those a service is modelled to give.                  *)
LEMMA ReplyFields ==
    ASSUME NEW reply \in Replies \cup {Refusal}
    PROVE  /\ reply.code \in {0, 200, 302, 401, 404, 500}
           /\ reply.json \in BOOLEAN /\ reply.data \in BOOLEAN
           /\ (reply.code = 200 /\ reply.json /\ reply.data) => reply = Well
<1>1. CASE reply = Well
  BY <1>1 DEF Well, Reply
<1>2. CASE reply = Refusal
  BY <1>2 DEF Refusal, Reply
<1>3. CASE reply \in {Reply(302, FALSE, FALSE), Reply(500, FALSE, FALSE), Reply(0, FALSE, FALSE)}
  <2>1. reply.code \in {0, 302, 500} /\ reply.json = FALSE /\ reply.data = FALSE
    BY <1>3 DEF Reply
  <2>2. QED  BY <2>1
<1>4. CASE reply = Reply(200, FALSE, FALSE)
  BY <1>4 DEF Reply
<1>5. CASE reply = Reply(200, TRUE, FALSE)
  BY <1>5 DEF Reply
<1>6. CASE reply = Reply(404, TRUE, FALSE)
  BY <1>6 DEF Reply
<1>7. QED  BY <1>1, <1>2, <1>3, <1>4, <1>5, <1>6 DEF Replies

(* The outcomes a call can have.                                           *)
CallOutcomes == {Returned, Raise("TransportError"), Raise("ValueError"),
                 Http(401), Http(404), Http(500), Http(503)}

LEMMA TokenOutcomes ==
    ASSUME NEW reply \in Replies \cup {Refusal}, reply.code # 0
    PROVE  /\ TokenAnswer(reply) \in CallOutcomes
           /\ TokenAnswer(reply) = Returned => IsSuccess(reply.code)
<1>1. reply.code \in {200, 302, 401, 404, 500}
  BY ReplyFields
<1>2. QED
  BY <1>1 DEF TokenAnswer, CallOutcomes, Returned, ServerTrouble, ClientTrouble, Unexpected, Http,
     IsSuccess, IsClientError, IsServerError

LEMMA SearchOutcomes ==
    ASSUME NEW reply \in Replies \cup {Refusal}, reply.code # 0
    PROVE  /\ HandlerAnswer(CampaignSearchHandler, reply) \in CallOutcomes
           /\ HandlerAnswer(CampaignSearchHandler, reply) = Returned => Fine("search", reply)
<1>1. /\ reply.code \in {200, 302, 401, 404, 500}
      /\ reply.json \in BOOLEAN /\ reply.data \in BOOLEAN
      /\ (reply.code = 200 /\ reply.json /\ reply.data) => reply = Well
  BY ReplyFields
<1>2. PICK does : does = Chosen(CampaignSearchHandler, reply.code)
  OBVIOUS
<1>3. /\ does = "data" => reply.code = 200
      /\ does = "empty" => reply.code = 404
      /\ does = "client_error" => reply.code \in {401, 404}
      /\ does \in {"data", "empty", "client_error", "server_error", "unexpected"}
  BY <1>1, <1>2, SearchChoices
<1>4. HandlerAnswer(CampaignSearchHandler, reply) =
          CASE does = "data"  -> IF reply.json /\ reply.data THEN Returned ELSE Raise("ValueError")
            [] does = "empty" -> Returned
            [] does = "client_error" -> ClientTrouble(reply)
            [] does = "server_error" -> ServerTrouble
            [] OTHER -> Unexpected
  BY <1>2 DEF HandlerAnswer
<1>5. QED
  BY <1>1, <1>3, <1>4 DEF Fine, CallOutcomes, Returned, Raise, Http, ServerTrouble, ClientTrouble, Unexpected

(* What a code is decides what is made of it.                              *)
LEMMA CodeClasses ==
    ASSUME NEW reply \in Replies \cup {Refusal}, reply.code # 0
    PROVE  \/ /\ reply.code = 200
              /\ IsSuccess(reply.code) /\ ~ IsServerError(reply.code) /\ ~ IsClientError(reply.code)
           \/ /\ reply.code = 302
              /\ ~ IsSuccess(reply.code) /\ ~ IsServerError(reply.code) /\ ~ IsClientError(reply.code)
           \/ /\ reply.code \in {401, 404}
              /\ ~ IsSuccess(reply.code) /\ ~ IsServerError(reply.code) /\ IsClientError(reply.code)
           \/ /\ reply.code = 500
              /\ ~ IsSuccess(reply.code) /\ IsServerError(reply.code) /\ ~ IsClientError(reply.code)
BY ReplyFields DEF IsSuccess, IsServerError, IsClientError

(* What a stage makes of a reply is safe, and it takes no other for a      *)
(* success than those it can do with.                                      *)
LEMMA OutcomesAreSafe ==
    ASSUME NEW stage \in Stages, NEW reply \in Replies \cup {Refusal}
    PROVE  /\ Safe(OutcomeOf(stage, reply))
           /\ OutcomeOf(stage, reply) = Returned => Fine(stage, reply)
<1>1. \A one \in CallOutcomes : Safe(one)
  BY KnownOutcomes DEF CallOutcomes
<1>2. (reply.code = 200 /\ reply.json /\ reply.data) => reply = Well
  BY ReplyFields
<1>3. /\ Returned \in CallOutcomes /\ ServerTrouble \in CallOutcomes /\ Unexpected \in CallOutcomes
      /\ Raise("TransportError") \in CallOutcomes /\ Http(500) \in CallOutcomes
      /\ reply.code \in {401, 404} => ClientTrouble(reply) \in CallOutcomes
      /\ Returned \notin {ServerTrouble, Unexpected, Raise("TransportError"), Http(500), ClientTrouble(reply)}
  BY DEF CallOutcomes, Returned, ServerTrouble, Unexpected, ClientTrouble, Raise, Http
<1>4. CASE reply.code = 0
  <2>1. OutcomeOf(stage, reply) = Raise("TransportError")
    BY <1>3, <1>4 DEF OutcomeOf, HandledAnswer
  <2>2. QED  BY <1>1, <1>3, <2>1
<1>5. CASE reply.code # 0
  <2>1. CASE stage \in {"me", "access", "roles", "cpg", "agency"}
    <3>1. OutcomeOf(stage, reply) =
              CASE IsSuccess(reply.code) ->
                      IF reply.json /\ reply.data THEN Returned ELSE ServerTrouble
                [] IsServerError(reply.code) -> ServerTrouble
                [] IsClientError(reply.code) -> ClientTrouble(reply)
                [] OTHER -> Unexpected
      BY <1>5, <2>1 DEF OutcomeOf, HandledAnswer, JsonAnswer
    <3>2. QED  BY <1>1, <1>2, <1>3, <1>5, <3>1, CodeClasses DEF Fine
  <2>2. CASE stage = "token"
    <3>1. CASE None # "json"
      <4>1. OutcomeOf(stage, reply) = TokenAnswer(reply)
        BY <1>5, <2>2, <3>1 DEF OutcomeOf, HandledAnswer
      <4>2. QED  BY <1>1, <1>5, <2>2, <4>1, TokenOutcomes DEF Fine
    <3>2. CASE None = "json"
      <4>1. OutcomeOf(stage, reply) =
                CASE IsSuccess(reply.code) -> IF reply.json THEN TokenAnswer(reply) ELSE ServerTrouble
                  [] IsServerError(reply.code) -> ServerTrouble
                  [] IsClientError(reply.code) -> ClientTrouble(reply)
                  [] OTHER -> Unexpected
        BY <1>3, <1>5, <2>2, <3>2, CodeClasses DEF OutcomeOf, HandledAnswer, JsonAnswer
      <4>2. QED  BY <1>1, <1>3, <1>5, <2>2, <4>1, TokenOutcomes, CodeClasses DEF Fine
    <3>3. QED  BY <3>1, <3>2
  <2>3. CASE stage = "post"
    <3>1. OutcomeOf(stage, reply) =
              CASE IsSuccess(reply.code) ->
                      IF reply.json THEN IF reply.data THEN Returned ELSE Http(500) ELSE ServerTrouble
                [] IsServerError(reply.code) -> ServerTrouble
                [] IsClientError(reply.code) -> ClientTrouble(reply)
                [] OTHER -> Unexpected
      BY <1>3, <1>5, <2>3, CodeClasses DEF OutcomeOf, HandledAnswer, JsonAnswer
    <3>2. QED  BY <1>1, <1>2, <1>3, <1>5, <3>1, CodeClasses DEF Fine
  <2>4. CASE stage = "search"
    <3> DEFINE handled == HandlerAnswer(CampaignSearchHandler, reply)
    <3>1. handled \in CallOutcomes /\ (handled = Returned => Fine(stage, reply))
      BY <1>5, <2>4, SearchOutcomes
    <3>2. CASE None # "json"
      <4>1. OutcomeOf(stage, reply) = handled
        BY <1>5, <2>4, <3>2 DEF OutcomeOf, HandledAnswer
      <4>2. QED  BY <1>1, <3>1, <4>1
    <3>3. CASE None = "json"
      <4>1. OutcomeOf(stage, reply) =
                CASE IsSuccess(reply.code) -> IF reply.json THEN handled ELSE ServerTrouble
                  [] IsServerError(reply.code) -> ServerTrouble
                  [] IsClientError(reply.code) -> ClientTrouble(reply)
                  [] OTHER -> Unexpected
        BY <1>3, <1>5, <2>4, <3>3, CodeClasses DEF OutcomeOf, HandledAnswer, JsonAnswer
      <4>2. QED  BY <1>1, <1>3, <1>5, <3>1, <4>1, CodeClasses
    <3>4. QED  BY <3>2, <3>3
  <2>5. QED  BY <2>1, <2>2, <2>3, <2>4 DEF Stages
<1>6. QED  BY <1>4, <1>5
-----------------------------------------------------------------------------
(* What a step of the path does to its request.                            *)
OnTheWay(r, next) ==
    \/ at[r] = "idle" /\ next = "me"
    \/ at[r] = "me" /\ next = "access"
    \/ at[r] = "access" /\ next = IF Limited(r) THEN "get" ELSE "roles"
    \/ at[r] = "roles" /\ next = IF Limited(r) THEN "search" ELSE "cpg"
    \/ at[r] = "cpg" /\ next = "agency"
    \/ at[r] = "token" /\ next = "post"

Stays == UNCHANGED <<at, answer, seen, tries, pause, met, spoilt>>

GoesOn(r) ==
    /\ \E next \in AtValues : OnTheWay(r, next) /\ Goto(r, next)
    /\ UNCHANGED <<answer, seen, tries, pause, met, spoilt>>

Ends(r) ==
    /\ at[r] \in Stages \cup {"idle"}
    /\ \E outcome : /\ Safe(outcome) /\ Answered(r, outcome)
                    /\ outcome = Returned =>
                          spoilt' = spoilt /\ at[r] \in {"cpg", "agency", "post", "search"}
                    /\ spoilt' \in {spoilt, spoilt \cup {r}}

PathEffect(r) == UNCHANGED rest /\ (Stays \/ GoesOn(r) \/ Ends(r))

(* What is no refusal of the limit is answered at once.                    *)
LEMMA SafeIsAnswered ==
    ASSUME NEW r, NEW outcome, Safe(outcome), Raises(r, outcome)
    PROVE  Answered(r, outcome)
BY DEF Safe, Raises, RaisedInside

LEMMA EndEffect ==
    ASSUME NEW r, NEW outcome, End(r, outcome), UNCHANGED rest, Safe(outcome),
           at[r] \in Stages \cup {"idle"},
           outcome = Returned => at[r] \in {"cpg", "agency", "post", "search"}
    PROVE  PathEffect(r)
<1>1. Answered(r, outcome) /\ spoilt' = spoilt
  BY SafeIsAnswered DEF End
<1>2. Ends(r)
  BY <1>1 DEF Ends
<1>3. QED  BY <1>2 DEF PathEffect

LEMMA AskEffect ==
    ASSUME NEW r \in Requests, Ask(r)
    PROVE  PathEffect(r)
<1>1. at[r] \in Stages
  BY DEF Ask
<1>2. PICK reply \in Given(r), whose \in Users \cup {None} :
          LET mixed == whose # None
              outcome == OutcomeOf(at[r], reply)
              again == TokenRetried(r, outcome)
          IN  /\ spoilt' = IF again \/ Fine(at[r], reply) THEN spoilt ELSE spoilt \cup {r}
              /\ UNCHANGED rest
              /\ CASE again -> UNCHANGED <<at, answer, seen, tries, pause, met>>
                   [] ~ again /\ outcome = Returned -> UNCHANGED <<at, answer, seen, tries, pause, met>>
                   [] OTHER -> Raises(r, outcome)
  BY DEF Ask
<1> DEFINE outcome == OutcomeOf(at[r], reply)
           again == TokenRetried(r, outcome)
<1>3. reply \in Replies \cup {Refusal}
  BY DEF Given
<1>4. Safe(outcome) /\ (outcome = Returned => Fine(at[r], reply))
  BY <1>1, <1>3, OutcomesAreSafe
<1>5. UNCHANGED rest
  BY <1>2
<1>6. CASE again \/ outcome = Returned
  <2>1. Stays
    BY <1>2, <1>4, <1>6 DEF Stays
  <2>2. QED  BY <1>5, <2>1 DEF PathEffect
<1>7. CASE ~ again /\ outcome # Returned
  <2>1. Raises(r, outcome) /\ spoilt' \in {spoilt, spoilt \cup {r}}
    BY <1>2, <1>7
  <2>2. Answered(r, outcome)
    BY <1>4, <2>1, SafeIsAnswered
  <2>3. Ends(r)
    BY <1>1, <1>4, <1>7, <2>1, <2>2 DEF Ends
  <2>4. QED  BY <1>5, <2>3 DEF PathEffect
<1>8. QED  BY <1>6, <1>7

LEMMA GoOnEffect ==
    ASSUME NEW r, NEW next \in AtValues, GoOn(r, next), UNCHANGED rest, OnTheWay(r, next)
    PROVE  PathEffect(r)
BY DEF GoOn, Stage, GoesOn, PathEffect

(* __user_identity_check passes, or the user is told of a mismatch.        *)
LEMMA Checks ==
    ASSUME NEW r, NEW me
    PROVE  IdentityCheck(r, me) \in {Returned, Http(500), Http(503)}
BY DEF IdentityCheck

LEMMA PathSteps ==
    ASSUME NEW r \in Requests, PathStep(r)
    PROVE  PathEffect(r)
<1>0. /\ Safe(Returned) /\ Safe(Raise("RequestValidationError"))
      /\ Safe(Http(401)) /\ Safe(Http(403)) /\ Safe(Http(500)) /\ Safe(Http(503))
      /\ Returned \notin {Http(401), Http(403), Http(500), Http(503), Raise("RequestValidationError")}
  BY KnownOutcomes DEF Returned, Http, Raise
<1>1. CASE Begin(r)
  <2>1. CASE ask[r].header = "none"
    BY <1>0, <1>1, <2>1, EndEffect DEF Begin
  <2>2. CASE ask[r].header # "none"
    <3>1. GoesOn(r)
      BY <1>1, <2>2 DEF Begin, Stage, GoesOn, OnTheWay, AtValues, Stages
    <3>2. QED  BY <1>1, <3>1 DEF Begin, PathEffect
  <2>3. QED  BY <2>1, <2>2
<1>2. CASE KeyFails(r)
  BY <1>0, <1>2, EndEffect DEF KeyFails
<1>3. CASE Look(r)
  BY <1>3 DEF Look, PathEffect, Stays, rateVars, limitVars, rest
<1>4. CASE Ask(r)
  BY <1>4, AskEffect
<1>5. CASE Keep(r)
  BY <1>5 DEF Keep, PathEffect, Stays, rateVars, limitVars, rest
<1>6. CASE UseMe(r)
  <2> DEFINE me == held[r].me
             checked == IF Consumer(me) THEN Returned ELSE IdentityCheck(r, me)
  <2>1. checked \in {Returned, Http(500), Http(503)}
    BY Checks
  <2>2. at[r] = "me" /\ UNCHANGED rest
    BY <1>6 DEF UseMe, Using
  <2>3. (End(r, checked) /\ checked # Returned) \/ GoOn(r, "access") \/ End(r, Http(401))
    BY <1>6 DEF UseMe
  <2> HIDE DEF checked
  <2>4. CASE End(r, checked) /\ checked # Returned
    BY <1>0, <2>1, <2>2, <2>4, EndEffect DEF Stages
  <2>5. CASE GoOn(r, "access")
    BY <2>2, <2>5, GoOnEffect DEF OnTheWay, AtValues, Stages
  <2>6. CASE End(r, Http(401))
    BY <1>0, <2>2, <2>6, EndEffect DEF Stages
  <2>7. QED  BY <2>3, <2>4, <2>5, <2>6
<1>7. CASE UseAccess(r)
  <2> DEFINE me == held[r].me
             checked == IF Consumer(me) THEN Returned ELSE IdentityCheck(r, me)
             next == IF Limited(r) THEN "get" ELSE "roles"
  <2>1. checked \in {Returned, Http(500), Http(503)}
    BY Checks
  <2>2. at[r] = "access" /\ UNCHANGED rest
    BY <1>7 DEF UseAccess, Using
  <2>3. \/ End(r, checked) /\ checked # Returned
        \/ End(r, Raise("RequestValidationError")) \/ GoOn(r, next)
    BY <1>7 DEF UseAccess
  <2> HIDE DEF checked
  <2>4. CASE End(r, checked) /\ checked # Returned
    BY <1>0, <2>1, <2>2, <2>4, EndEffect DEF Stages
  <2>5. CASE GoOn(r, next)
    <3>1. next \in AtValues /\ OnTheWay(r, next)
      BY <2>2 DEF OnTheWay, AtValues, Stages, Counting
    <3>2. QED  BY <2>2, <2>5, <3>1, GoOnEffect
  <2>6. CASE End(r, Raise("RequestValidationError"))
    BY <1>0, <2>2, <2>6, EndEffect DEF Stages
  <2>7. QED  BY <2>3, <2>4, <2>5, <2>6
<1>8. CASE UseRoles(r)
  <2> DEFINE next == IF Limited(r) THEN "search" ELSE "cpg"
  <2>1. at[r] = "roles" /\ UNCHANGED rest
    BY <1>8 DEF UseRoles, Using
  <2>2. GoOn(r, next) \/ End(r, Http(403))
    BY <1>8 DEF UseRoles
  <2>3. next \in AtValues /\ OnTheWay(r, next)
    BY <2>1 DEF OnTheWay, AtValues, Stages
  <2>4. CASE GoOn(r, next)
    BY <2>1, <2>3, <2>4, GoOnEffect
  <2>5. CASE End(r, Http(403))
    BY <1>0, <2>1, <2>5, EndEffect DEF Stages
  <2>6. QED  BY <2>2, <2>4, <2>5
<1>9. CASE UseList(r)
  <2>1. at[r] = "cpg" /\ UNCHANGED rest /\ (GoOn(r, "agency") \/ End(r, Returned))
    BY <1>9 DEF UseList, Using
  <2>2. CASE GoOn(r, "agency")
    BY <2>1, <2>2, GoOnEffect DEF OnTheWay, AtValues, Stages
  <2>3. CASE End(r, Returned)
    BY <1>0, <2>1, <2>3, EndEffect DEF Stages
  <2>4. QED  BY <2>1, <2>2, <2>3
<1>10. CASE UseAgencyList(r)
  BY <1>0, <1>10, EndEffect DEF UseAgencyList, Using, Stages
<1>11. CASE UseToken(r)
  BY <1>11, GoOnEffect DEF UseToken, Using, OnTheWay, AtValues, Stages
<1>12. CASE UseReport(r)
  BY <1>0, <1>12, EndEffect DEF UseReport, Using, Stages
<1>13. CASE UseCampaigns(r)
  BY <1>0, <1>13, EndEffect DEF UseCampaigns, Using, Stages
<1>14. QED
  BY <1>1, <1>2, <1>3, <1>4, <1>5, <1>6, <1>7, <1>8, <1>9, <1>10, <1>11, <1>12, <1>13 DEF PathStep
-----------------------------------------------------------------------------
(* The inductive invariant: the shape of the variables, the requests at a  *)
(* limit having one, ...                                                   *)
Shape ==
    /\ at \in [Requests -> AtValues] /\ answer \in [Requests -> Statuses]
    /\ seen \in [Requests -> Nat] /\ ran \in [Requests -> Nat]
    /\ tries \in [Requests -> 1 .. MaxAttempts] /\ pause \in [Requests -> 0 .. Pause]
    /\ count \in [Limits -> Nat] /\ ttl \in [Limits -> Lives] /\ alone \in [Limits -> Nat]

Counted ==
    \A r \in Requests : /\ ContextClient(ask[r]) \in Clients
                        /\ at[r] \in Counting \cup {"paused"} => Limited(r)

(* ... what a window has let in being at most the count of the key and the *)
(* count every request between GET and INCR works with, of which one that  *)
(* met no other is the only one, ...                                       *)
Waits(q, k) == at[q] \in Counting \ {"get"} /\ Key(q) = k

WindowInv ==
    \A k \in Limits :
        /\ alone[k] <= Limit /\ alone[k] <= count[k]
        /\ ttl[k] = Gone => alone[k] = 0
        /\ \A q \in Requests : Waits(q, k) =>
               /\ alone[k] <= seen[q]
               /\ at[q] = "open" => seen[q] = 0
               /\ q \notin met => \A p \in Requests : Waits(p, k) => p = q

(* ... and how often a handler was entered, by what is next.               *)
RunsOf(r) ==
    /\ ran[r] <= 1
    /\ at[r] \in {"idle", "paused", "me", "access"} \cup Counting => ran[r] = 0
    /\ at[r] \in {"token", "post", "search"} => ran[r] = 1
    /\ at[r] = "roles" /\ Limited(r) => ran[r] = 1
    /\ at[r] \in {"cpg", "agency"} => ~ Limited(r)
    /\ at[r] # "answered" => answer[r] = 0 /\ r \notin spoilt
    /\ answer[r] = 429 => ran[r] = 0
    /\ answer[r] = 200 => r \notin spoilt /\ (Limited(r) => ran[r] = 1)

RunsInv == \A r \in Requests : RunsOf(r)

LEMMA KeyIsCounted ==
    ASSUME Counted, NEW r \in Requests, at[r] \in Counting
    PROVE  Key(r) \in Limits
BY DEF Counted, Key, Limits, Limited

LEMMA SharesAreCounts ==
    ASSUME NEW n \in Nat, NEW share \in Nat \ {0}
    PROVE  n \div share \in Nat
OBVIOUS

(* Only one request changes, and it is not at its key: any way out.        *)
LEMMA WindowLeft ==
    ASSUME WindowInv, NEW r \in Requests,
           UNCHANGED <<ask, count, ttl, alone>>, at'[r] \notin Counting \ {"get"},
           \A q \in Requests \ {r} : at'[q] = at[q] /\ seen'[q] = seen[q] /\ (q \in met' <=> q \in met)
    PROVE  WindowInv'
<1>1. \A q \in Requests, k \in Limits : Waits(q, k)' => q # r /\ Waits(q, k)
  BY DEF Waits, Key
<1>2. SUFFICES ASSUME NEW k \in Limits
               PROVE  /\ alone[k]' <= Limit /\ alone[k]' <= count[k]'
                      /\ ttl[k]' = Gone => alone[k]' = 0
                      /\ \A q \in Requests : Waits(q, k)' =>
                             /\ alone[k]' <= seen[q]'
                             /\ at[q]' = "open" => seen[q]' = 0
                             /\ q \notin met' => \A p \in Requests : Waits(p, k)' => p = q
  BY DEF WindowInv
<1>3. QED  BY <1>1 DEF WindowInv

LEMMA LimitGetKeepsWindow ==
    ASSUME Shape, Counted, WindowInv, NEW r \in Requests, LimitGet(r)
    PROVE  WindowInv'
<1> DEFINE K == Key(r)
<1>1. K \in Limits
  BY KeyIsCounted DEF LimitGet, Counting
<1>2. /\ UNCHANGED <<ask, count, ttl, alone>> /\ at[r] = "get"
      /\ at' = [at EXCEPT ![r] = IF ttl[K] = Gone THEN "open" ELSE "ttl"]
      /\ seen' = [seen EXCEPT ![r] = IF ttl[K] = Gone THEN 0 ELSE count[K]]
      /\ met' = IF AtKey(K) = {} THEN met \ {r} ELSE met \cup AtKey(K) \cup {r}
  BY DEF LimitGet, Goto
<1>3. \A q \in Requests : q \in AtKey(K) <=> Waits(q, K)
  BY DEF AtKey, Waits
<1>4. \A q \in Requests, k \in Limits : Waits(q, k)' <=> (Waits(q, k) \/ (q = r /\ k = K))
  BY <1>2 DEF Waits, Key, Shape, Counting
<1> HIDE DEF K
<1>5. SUFFICES ASSUME NEW k \in Limits
               PROVE  /\ alone[k]' <= Limit /\ alone[k]' <= count[k]'
                      /\ ttl[k]' = Gone => alone[k]' = 0
                      /\ \A q \in Requests : Waits(q, k)' =>
                             /\ alone[k]' <= seen[q]'
                             /\ at[q]' = "open" => seen[q]' = 0
                             /\ q \notin met' => \A p \in Requests : Waits(p, k)' => p = q
  BY DEF WindowInv
<1>6. /\ alone[k]' <= Limit /\ alone[k]' <= count[k]'
      /\ ttl[k]' = Gone => alone[k]' = 0
  BY <1>2 DEF WindowInv
<1>7. ASSUME NEW q \in Requests, Waits(q, k)'
      PROVE  /\ alone[k]' <= seen[q]'
             /\ at[q]' = "open" => seen[q]' = 0
             /\ q \notin met' => \A p \in Requests : Waits(p, k)' => p = q
  <2>1. CASE q = r
    <3>1. k = K /\ ~ Waits(r, K)
      BY <1>2, <1>4, <1>7, <2>1 DEF Waits, Counting, K, Key
    <3>2. alone[K] <= seen'[r] /\ (at'[r] = "open" => seen'[r] = 0)
      BY <1>1, <1>2 DEF WindowInv, Shape
    <3>3. r \notin met' => \A p \in Requests : ~ Waits(p, K)
      BY <1>2, <1>3
    <3>4. QED  BY <1>2, <1>4, <2>1, <3>1, <3>2, <3>3
  <2>2. CASE q # r
    <3>1. Waits(q, k)
      BY <1>4, <1>7, <2>2
    <3>2. alone[k]' <= seen[q]' /\ (at[q]' = "open" => seen[q]' = 0)
      BY <1>2, <2>2, <3>1 DEF WindowInv, Shape
    <3>3. ASSUME q \notin met', NEW p \in Requests, Waits(p, k)'
          PROVE  p = q
      <4>1. k # K /\ q \notin met
        BY <1>2, <1>3, <2>2, <3>1, <3>3
      <4>2. Waits(p, k)
        BY <1>4, <3>3, <4>1
      <4>3. QED  BY <3>1, <4>1, <4>2 DEF WindowInv
    <3>4. QED  BY <3>2, <3>3
  <2>3. QED  BY <2>1, <2>2
<1>8. QED  BY <1>6, <1>7

(* It changes its key and goes on at it.                                   *)
LEMMA WindowHeldAt ==
    ASSUME Shape, WindowInv, NEW r \in Requests, NEW K \in Limits, Waits(r, K),
           NEW next \in Counting \ {"get", "open"}, Goto(r, next),
           UNCHANGED <<ask, met>>,
           \A k \in Limits \ {K} : count'[k] = count[k] /\ ttl'[k] = ttl[k] /\ alone'[k] = alone[k],
           \A q \in Requests \ {r} : seen'[q] = seen[q],
           alone'[K] \in 0 .. alone[K], alone'[K] <= count'[K], alone'[K] <= seen'[r],
           ttl'[K] = Gone => alone'[K] = 0
    PROVE  WindowInv'
<1>1. at' = [at EXCEPT ![r] = next]
  BY DEF Goto
<1>2. \A q \in Requests, k \in Limits : Waits(q, k)' <=> Waits(q, k)
  BY <1>1 DEF Waits, Key, Shape
<1>3. SUFFICES ASSUME NEW k \in Limits
               PROVE  /\ alone[k]' <= Limit /\ alone[k]' <= count[k]'
                      /\ ttl[k]' = Gone => alone[k]' = 0
                      /\ \A q \in Requests : Waits(q, k)' =>
                             /\ alone[k]' <= seen[q]'
                             /\ at[q]' = "open" => seen[q]' = 0
                             /\ q \notin met' => \A p \in Requests : Waits(p, k)' => p = q
  BY DEF WindowInv
<1>4. LimitAssumption
  BY LimitAssumption
<1>5. CASE k # K
  <2>1. /\ alone[k]' <= Limit /\ alone[k]' <= count[k]'
        /\ ttl[k]' = Gone => alone[k]' = 0
    BY <1>5 DEF WindowInv
  <2>2. \A q \in Requests : Waits(q, k) => q # r
    BY <1>5 DEF Waits
  <2>3. QED  BY <1>1, <1>2, <1>5, <2>1, <2>2 DEF WindowInv, Shape
<1>6. CASE k = K
  <2>1. /\ alone[K] \in Nat /\ alone[K] <= Limit
        /\ \A q \in Requests : seen[q] \in Nat
    BY DEF Shape, WindowInv
  <2>2. alone'[K] <= Limit
    BY <1>4, <2>1 DEF LimitAssumption
  <2>3. ASSUME NEW q \in Requests, Waits(q, K)'
        PROVE  alone'[K] <= seen'[q] /\ (at'[q] = "open" => seen'[q] = 0)
    <3>1. CASE q = r
      BY <1>1, <3>1 DEF Shape
    <3>2. CASE q # r
      <4>1. /\ alone[K] <= seen[q] /\ (at[q] = "open" => seen[q] = 0)
            /\ seen'[q] = seen[q] /\ at'[q] = at[q]
        BY <1>1, <1>2, <2>3, <3>2 DEF WindowInv, Shape
      <4>2. QED  BY <2>1, <4>1
    <3>3. QED  BY <3>1, <3>2
  <2>4. QED  BY <1>2, <1>6, <2>2, <2>3 DEF WindowInv
<1>7. QED  BY <1>5, <1>6

LEMMA LimitOpenKeepsWindow ==
    ASSUME Shape, Counted, WindowInv, NEW r \in Requests, LimitOpen(r)
    PROVE  WindowInv'
<1> DEFINE K == Key(r)
<1>1. K \in Limits /\ Waits(r, K)
  BY KeyIsCounted DEF LimitOpen, Counting, Waits
<1>2. /\ count' = [count EXCEPT ![K] = 0] /\ ttl' = [ttl EXCEPT ![K] = Window]
      /\ UNCHANGED <<ask, met, alone, seen>> /\ Goto(r, "ttl")
  BY DEF LimitOpen, SetKey
<1> HIDE DEF K
<1>3. alone[K] = 0 /\ seen[r] = 0
  BY <1>1 DEF WindowInv, Shape, LimitOpen
<1>4. Window # Gone
  BY LimitAssumption DEF LimitAssumption, Gone
<1>5. "ttl" \in Counting \ {"get", "open"}
  BY DEF Counting
<1>6. alone'[K] \in 0 .. alone[K] /\ alone'[K] <= count'[K] /\ alone'[K] <= seen'[r]
  BY <1>1, <1>2, <1>3 DEF Shape
<1>7. (ttl'[K] = Gone => alone'[K] = 0)
      /\ \A k \in Limits \ {K} : count'[k] = count[k] /\ ttl'[k] = ttl[k] /\ alone'[k] = alone[k]
  BY <1>1, <1>2, <1>3, <1>4 DEF Shape
<1>8. QED  BY <1>1, <1>2, <1>5, <1>6, <1>7, WindowHeldAt

LEMMA LimitTtlKeepsWindow ==
    ASSUME Shape, Counted, WindowInv, NEW r \in Requests, LimitTtl(r)
    PROVE  WindowInv'
<1> DEFINE K == Key(r) next == AfterTtl(ttl[K])
<1>1. K \in Limits /\ Waits(r, K)
  BY KeyIsCounted DEF LimitTtl, Counting, Waits
<1>2. UNCHANGED <<ask, met, alone, seen, count, ttl>> /\ Goto(r, next)
  BY DEF LimitTtl, limitVars
<1>3. next \in Counting \ {"get", "open"}
  BY DEF Counting, AfterTtl
<1> HIDE DEF K, next
<1>4. /\ alone'[K] \in 0 .. alone[K] /\ alone'[K] <= count'[K] /\ alone'[K] <= seen'[r]
      /\ ttl'[K] = Gone => alone'[K] = 0
  BY <1>1, <1>2 DEF Shape, WindowInv
<1>5. QED  BY <1>1, <1>2, <1>3, <1>4, WindowHeldAt

LEMMA LimitTrimKeepsWindow ==
    ASSUME Shape, Counted, WindowInv, NEW r \in Requests, LimitTrim(r)
    PROVE  WindowInv'
<1> DEFINE K == Key(r)
<1>1. K \in Limits /\ Waits(r, K)
  BY KeyIsCounted DEF LimitTrim, Counting, Waits
<1>2. PICK life \in Trims :
          /\ count' = [count EXCEPT ![K] = seen[r]] /\ ttl' = [ttl EXCEPT ![K] = life]
          /\ UNCHANGED <<ask, met, alone, seen>> /\ Goto(r, "check")
  BY DEF LimitTrim, SetKey
<1> HIDE DEF K
<1>3. life # Gone
  BY LimitAssumption DEF LimitAssumption, Gone
<1>4. "check" \in Counting \ {"get", "open"}
  BY DEF Counting
<1>5. alone'[K] \in 0 .. alone[K] /\ alone'[K] <= count'[K] /\ alone'[K] <= seen'[r]
  BY <1>1, <1>2 DEF Shape, WindowInv
<1>6. (ttl'[K] = Gone => alone'[K] = 0)
      /\ \A k \in Limits \ {K} : count'[k] = count[k] /\ ttl'[k] = ttl[k] /\ alone'[k] = alone[k]
  BY <1>1, <1>2, <1>3 DEF Shape
<1>7. QED  BY <1>1, <1>2, <1>4, <1>5, <1>6, WindowHeldAt

LEMMA LimitRepairKeepsWindow ==
    ASSUME Shape, Counted, WindowInv, NEW r \in Requests, LimitRepair(r)
    PROVE  WindowInv'
<1>1. PICK K \in Limits : K = Key(r)
  BY KeyIsCounted DEF LimitRepair, Counting
<1>2. /\ Waits(r, K) /\ UNCHANGED <<ask, met>> /\ Goto(r, "check")
      /\ "check" \in Counting \ {"get", "open"}
  BY <1>1 DEF LimitRepair, Waits, Counting
<1>3. seen[r] \in Nat /\ alone[K] \in Nat /\ alone[K] <= seen[r]
  BY <1>2 DEF Shape, WindowInv
<1>4. Gone \notin Repairs \cup Sheds
  BY LimitAssumption DEF LimitAssumption, Gone
<1>5. CASE /\ \E life \in Repairs : SetKey(K, seen[r], life)
           /\ UNCHANGED <<seen, alone>>
  <2>1. PICK life \in Repairs : SetKey(K, seen[r], life)
    BY <1>5
  <2>2. /\ ttl'[K] = life /\ count'[K] = seen[r]
        /\ \A k \in Limits \ {K} : count'[k] = count[k] /\ ttl'[k] = ttl[k]
    BY <2>1 DEF SetKey, Shape
  <2>3. alone'[K] \in 0 .. alone[K] /\ alone'[K] <= count'[K] /\ alone'[K] <= seen'[r]
    BY <1>3, <1>5, <2>2
  <2>4. QED  BY <1>2, <1>4, <1>5, <2>2, <2>3, WindowHeldAt
<1>6. CASE /\ \E share \in Shares, life \in Sheds : SetKey(K, seen[r] \div share, life)
           /\ seen' = [seen EXCEPT ![r] = 0] /\ alone' = [alone EXCEPT ![K] = 0]
  <2>1. PICK share \in Shares, life \in Sheds : SetKey(K, seen[r] \div share, life)
    BY <1>6
  <2>2. seen[r] \div share \in Nat
    BY <1>3, SharesAreCounts, LimitAssumption DEF LimitAssumption
  <2>3. /\ ttl'[K] = life /\ count'[K] \in Nat
        /\ \A k \in Limits \ {K} : count'[k] = count[k] /\ ttl'[k] = ttl[k] /\ alone'[k] = alone[k]
        /\ \A q \in Requests \ {r} : seen'[q] = seen[q]
        /\ alone'[K] = 0 /\ seen'[r] = 0
    BY <1>6, <2>1, <2>2 DEF SetKey, Shape
  <2>4. alone'[K] \in 0 .. alone[K] /\ alone'[K] <= count'[K] /\ alone'[K] <= seen'[r]
    BY <1>3, <2>3
  <2>5. QED  BY <1>2, <2>3, <2>4, WindowHeldAt
<1>7. QED  BY <1>1, <1>5, <1>6 DEF LimitRepair

(* It is let in: alone at the key it counts, and there is room for it.     *)
LEMMA LimitPassKeepsWindow ==
    ASSUME Shape, Counted, WindowInv, NEW r \in Requests, LimitPass(r)
    PROVE  WindowInv'
<1>0. PICK K \in Limits : K = Key(r)
  BY KeyIsCounted DEF LimitPass, Counting
<1> DEFINE made == ttl[K] = Gone
<1>1. K \in Limits /\ Waits(r, K)
  BY <1>0 DEF LimitPass, Counting, Waits
<1>2. /\ count' = [count EXCEPT ![K] = IF made THEN 1 ELSE count[K] + 1]
      /\ ttl' = [ttl EXCEPT ![K] = IF made THEN Endless ELSE ttl[K]]
      /\ alone' = IF r \in met THEN alone ELSE [alone EXCEPT ![K] = alone[K] + 1]
      /\ seen' = [seen EXCEPT ![r] = 0] /\ met' = met \ {r} /\ ask' = ask
      /\ seen[r] < Limit
      /\ at' = [at EXCEPT ![r] = IF ask[r].kind = "report" THEN "token" ELSE "roles"]
  BY <1>0 DEF LimitPass, SetKey, Below, Entered, Goto
<1>3. \A q \in Requests, k \in Limits : Waits(q, k)' <=> (Waits(q, k) /\ q # r)
  BY <1>2 DEF Waits, Key, Shape, Counting
<1>4. SUFFICES ASSUME NEW k \in Limits
               PROVE  /\ alone[k]' <= Limit /\ alone[k]' <= count[k]'
                      /\ ttl[k]' = Gone => alone[k]' = 0
                      /\ \A q \in Requests : Waits(q, k)' =>
                             /\ alone[k]' <= seen[q]'
                             /\ at[q]' = "open" => seen[q]' = 0
                             /\ q \notin met' => \A p \in Requests : Waits(p, k)' => p = q
  BY DEF WindowInv
<1>5. CASE k # K
  <2>1. /\ alone[k]' <= Limit /\ alone[k]' <= count[k]'
        /\ ttl[k]' = Gone => alone[k]' = 0
    BY <1>2, <1>5 DEF WindowInv, Shape
  <2>2. alone'[k] = alone[k]
    BY <1>2, <1>5 DEF Shape
  <2>3. QED  BY <1>2, <1>3, <2>1, <2>2 DEF WindowInv, Shape
<1>6. CASE k = K
  <2>1. /\ alone[K] \in Nat /\ count[K] \in Nat /\ seen[r] \in Nat /\ Limit \in Nat
        /\ alone[K] <= Limit /\ alone[K] <= count[K] /\ alone[K] <= seen[r]
        /\ made => alone[K] = 0
    BY <1>1, LimitAssumption DEF Shape, WindowInv, LimitAssumption
  <2>2. count'[K] = (IF made THEN 1 ELSE count[K] + 1) /\ ttl'[K] # Gone
    BY <1>1, <1>2 DEF Shape, Gone, Endless
  <2> HIDE DEF made
  <2>3. CASE r \in met
    <3>1. alone'[K] = alone[K]
      BY <1>2, <2>3
    <3>2. alone'[K] <= Limit /\ alone'[K] <= count'[K]
      BY <2>1, <2>2, <3>1
    <3>3. ASSUME NEW q \in Requests, Waits(q, K)'
          PROVE  /\ alone'[K] <= seen'[q]
                 /\ at'[q] = "open" => seen'[q] = 0
                 /\ q \notin met' => \A p \in Requests : Waits(p, K)' => p = q
      BY <1>1, <1>2, <1>3, <3>1, <3>3 DEF WindowInv, Shape
    <3>4. QED  BY <1>6, <2>2, <3>2, <3>3
  <2>4. CASE r \notin met
    <3>1. alone'[K] = alone[K] + 1
      BY <1>1, <1>2, <2>4 DEF Shape
    <3>2. alone'[K] <= Limit /\ alone'[K] <= count'[K]
      BY <1>2, <2>1, <2>2, <3>1
    <3>3. \A q \in Requests : ~ Waits(q, K)'
      BY <1>1, <1>3, <2>4 DEF WindowInv
    <3>4. QED  BY <1>6, <2>2, <3>2, <3>3
  <2>5. QED  BY <2>3, <2>4
<1>7. QED  BY <1>5, <1>6

LEMMA TickKeepsWindow ==
    ASSUME Shape, WindowInv, Tick
    PROVE  WindowInv'
<1>1. /\ ttl' = [k \in Limits |-> CASE ttl[k] > 1 -> ttl[k] - 1 [] ttl[k] = 1 -> Gone [] OTHER -> ttl[k]]
      /\ count' = [k \in Limits |-> IF ttl[k] = 1 THEN 0 ELSE count[k]]
      /\ alone' = [k \in Limits |-> IF ttl[k] = 1 THEN 0 ELSE alone[k]]
      /\ UNCHANGED <<ask, at, seen, met>>
  BY DEF Tick
<1>2. \A q \in Requests, k \in Limits : Waits(q, k)' <=> Waits(q, k)
  BY <1>1 DEF Waits, Key
<1>3. \A k \in Limits : alone'[k] \in {0, alone[k]} /\ (ttl'[k] = Gone => alone'[k] = 0)
  <2> SUFFICES ASSUME NEW k \in Limits
               PROVE  alone'[k] \in {0, alone[k]} /\ (ttl'[k] = Gone => alone'[k] = 0)
    OBVIOUS
  <2>1. CASE ttl[k] = 1
    BY <1>1, <2>1
  <2>2. CASE ttl[k] > 1
    BY <1>1, <2>2 DEF Gone, Shape, Lives, Endless
  <2>3. CASE ttl[k] \in {Gone, Endless}
    BY <1>1, <2>3 DEF Gone, Endless, WindowInv
  <2>4. QED  BY <2>1, <2>2, <2>3 DEF Shape, Lives
<1>4. \A k \in Limits : alone'[k] <= count'[k] /\ alone'[k] <= Limit
  BY <1>1, LimitAssumption DEF WindowInv, Shape, LimitAssumption
<1>5. \A k \in Limits : alone'[k] <= alone[k] /\ alone'[k] \in Nat /\ alone[k] \in Nat
  BY <1>3 DEF Shape
<1>6. \A q \in Requests : seen[q] \in Nat
  BY DEF Shape
<1>7. SUFFICES ASSUME NEW k \in Limits, NEW q \in Requests, Waits(q, k)
               PROVE  /\ alone'[k] <= seen[q]
                      /\ at[q] = "open" => seen[q] = 0
                      /\ q \notin met => \A p \in Requests : Waits(p, k) => p = q
  BY <1>1, <1>2, <1>3, <1>4 DEF WindowInv
<1>8. alone[k] <= seen[q]
  BY <1>7 DEF WindowInv
<1>9. QED  BY <1>5, <1>6, <1>7, <1>8 DEF WindowInv

(* An exception inside the decorators: another attempt, or the answer.     *)
LEMMA RaisedEffect ==
    ASSUME NEW r \in Requests, NEW outcome, RaisedInside(r, outcome)
    PROVE  /\ seen' = [seen EXCEPT ![r] = 0] /\ met' = met \ {r}
           /\ \/ /\ Retried(outcome) /\ tries[r] < MaxAttempts
                 /\ Goto(r, "paused") /\ answer' = answer
                 /\ pause' = [pause EXCEPT ![r] = Pause]
                 /\ tries' = [tries EXCEPT ![r] = @ + 1]
              \/ Answered(r, outcome)
BY DEF RaisedInside, Answered

LEMMA RaisedKeepsShape ==
    ASSUME Shape, NEW r \in Requests, NEW outcome, RaisedInside(r, outcome),
           RouteAnswer(outcome) \in Statuses,
           UNCHANGED <<count, ttl, alone, ran>>
    PROVE  Shape'
<1>1. "paused" \in AtValues /\ "answered" \in AtValues
  BY DEF AtValues
<1>2. seen' \in [Requests -> Nat]
  BY RaisedEffect DEF Shape
<1>3. CASE Answered(r, outcome)
  BY <1>1, <1>2, <1>3 DEF Shape, Answered, Goto
<1>4. CASE /\ tries[r] < MaxAttempts /\ Goto(r, "paused") /\ answer' = answer
           /\ pause' = [pause EXCEPT ![r] = Pause]
           /\ tries' = [tries EXCEPT ![r] = @ + 1]
  <2>1. MaxAttempts \in Nat /\ Pause \in Nat
    BY LimitAssumption DEF LimitAssumption
  <2>2. tries' \in [Requests -> 1 .. MaxAttempts]
    BY <1>4, <2>1 DEF Shape
  <2>3. pause' \in [Requests -> 0 .. Pause]
    BY <1>4, <2>1 DEF Shape
  <2>4. QED  BY <1>1, <1>2, <1>4, <2>2, <2>3 DEF Shape, Goto
<1>5. QED  BY <1>3, <1>4, RaisedEffect

LEMMA LimitKeepsShape ==
    ASSUME Shape, Counted, NEW r \in Requests, Limiting(r)
    PROVE  Shape'
<1> USE DEF AtValues, Counting, Stages
<1>0. at[r] \in Counting => Key(r) \in Limits
  BY KeyIsCounted
<1>1. CASE Unlimited(r)
  BY <1>1 DEF Shape, Unlimited, Entered, Goto
<1>2. CASE LimitGet(r)
  BY <1>0, <1>2 DEF Shape, LimitGet, Goto
<1>3. CASE LimitOpen(r)
  <2>1. Window \in Lives
    BY LimitAssumption DEF LimitAssumption, Lives
  <2>2. QED  BY <1>0, <1>3, <2>1 DEF Shape, LimitOpen, SetKey, Goto
<1>4. CASE LimitTtl(r)
  <2>1. AfterTtl(ttl[Key(r)]) \in AtValues
    BY DEF AfterTtl
  <2>2. QED  BY <1>4, <2>1 DEF Shape, LimitTtl, limitVars, Goto
<1>5. CASE LimitRepair(r)
  <2>1. \E n \in Nat, life \in Lives : SetKey(Key(r), n, life)
    <3>1. CASE \E life \in Repairs : SetKey(Key(r), seen[r], life)
      BY <3>1, LimitAssumption DEF LimitAssumption, Lives, Shape
    <3>2. CASE \E share \in Shares, life \in Sheds : SetKey(Key(r), seen[r] \div share, life)
      <4>1. PICK share \in Shares, life \in Sheds : SetKey(Key(r), seen[r] \div share, life)
        BY <3>2
      <4>2. seen[r] \div share \in Nat
        BY SharesAreCounts, LimitAssumption DEF LimitAssumption, Shape
      <4>3. life \in Lives
        BY LimitAssumption DEF LimitAssumption, Lives
      <4>4. QED  BY <4>1, <4>2, <4>3
    <3>3. QED  BY <1>5, <3>1, <3>2 DEF LimitRepair
  <2>2. count' \in [Limits -> Nat] /\ ttl' \in [Limits -> Lives]
    BY <2>1 DEF SetKey, Shape
  <2>3. seen' \in [Requests -> Nat] /\ alone' \in [Limits -> Nat]
    BY <1>5 DEF LimitRepair, Shape
  <2>4. QED  BY <1>5, <2>2, <2>3 DEF Shape, LimitRepair, Goto
<1>6. CASE LimitTrim(r)
  <2>1. Trims \subseteq Lives
    BY LimitAssumption DEF LimitAssumption, Lives
  <2>2. count' \in [Limits -> Nat] /\ ttl' \in [Limits -> Lives]
    BY <1>6, <2>1 DEF LimitTrim, SetKey, Shape
  <2>3. QED  BY <1>6, <2>2 DEF Shape, LimitTrim, Goto
<1>7. CASE LimitPass(r)
  <2>1. count' \in [Limits -> Nat]
    BY <1>0, <1>7 DEF LimitPass, SetKey, Shape
  <2>2. ttl' \in [Limits -> Lives]
    BY <1>0, <1>7 DEF LimitPass, SetKey, Shape, Lives
  <2>3. alone' \in [Limits -> Nat]
    BY <1>0, <1>7 DEF LimitPass, Shape
  <2>4. QED  BY <1>7, <2>1, <2>2, <2>3 DEF Shape, LimitPass, Entered, Goto
<1>8. CASE LimitRefuse(r)
  <2>1. RouteAnswer(Raise("RateLimitExceededException")) \in Statuses
    BY RefusalIsAnswered DEF Statuses
  <2>2. QED  BY <1>8, <2>1, RaisedKeepsShape DEF LimitRefuse
<1>9. CASE Again(r)
  BY <1>9 DEF Shape, Again, limitVars, Goto
<1>10. CASE LimitFails(r)
  <2>1. RouteAnswer(Raise("RedisError")) \in Statuses
    BY KnownOutcomes DEF Safe
  <2>2. QED  BY <1>10, <2>1, RaisedKeepsShape DEF LimitFails
<1>11. QED  BY <1>1, <1>2, <1>3, <1>4, <1>5, <1>6, <1>7, <1>8, <1>9, <1>10 DEF Limiting

LEMMA LimitTouchesOne ==
    ASSUME Shape, NEW r \in Requests, Limiting(r)
    PROVE  /\ ask' = ask /\ at[r] \in Counting \cup {"paused"} /\ at'[r] # "idle"
           /\ \A q \in Requests \ {r} : /\ at'[q] = at[q] /\ ran'[q] = ran[q]
                                         /\ answer'[q] = answer[q]
<1> USE DEF Counting, Shape, Goto
<1>1. CASE Unlimited(r)
  BY <1>1 DEF Unlimited, Entered
<1>2. CASE LimitGet(r)
  BY <1>2 DEF LimitGet
<1>3. CASE LimitOpen(r)
  BY <1>3 DEF LimitOpen
<1>4. CASE LimitTtl(r)
  BY <1>4 DEF LimitTtl, limitVars, AfterTtl
<1>5. CASE LimitRepair(r)
  BY <1>5 DEF LimitRepair
<1>6. CASE LimitTrim(r)
  BY <1>6 DEF LimitTrim
<1>7. CASE LimitPass(r)
  BY <1>7 DEF LimitPass, Entered
<1>8. CASE LimitRefuse(r)
  BY <1>8, RaisedEffect DEF LimitRefuse, Answered
<1>9. CASE Again(r)
  BY <1>9 DEF Again, limitVars
<1>10. CASE LimitFails(r)
  BY <1>10, RaisedEffect DEF LimitFails, Answered
<1>11. QED  BY <1>1, <1>2, <1>3, <1>4, <1>5, <1>6, <1>7, <1>8, <1>9, <1>10 DEF Limiting

LEMMA LimitKeepsCounted ==
    ASSUME Shape, Counted, NEW r \in Requests, Limiting(r)
    PROVE  Counted'
BY LimitTouchesOne DEF Counted, Limited

LEMMA RaisedKeepsWindow ==
    ASSUME Shape, WindowInv, NEW r \in Requests, NEW outcome, RaisedInside(r, outcome),
           UNCHANGED <<ask, count, ttl, alone>>
    PROVE  WindowInv'
<1>1. at' = [at EXCEPT ![r] = "paused"] \/ at' = [at EXCEPT ![r] = "answered"]
  BY RaisedEffect DEF Answered, Goto
<1>2. at'[r] \notin Counting \ {"get"}
  BY <1>1 DEF Shape, Counting
<1>3. \A q \in Requests \ {r} : at'[q] = at[q] /\ seen'[q] = seen[q] /\ (q \in met' <=> q \in met)
  BY <1>1, RaisedEffect DEF Shape
<1>4. QED  BY <1>2, <1>3, WindowLeft

LEMMA LimitKeepsWindow ==
    ASSUME Shape, Counted, WindowInv, NEW r \in Requests, Limiting(r)
    PROVE  WindowInv'
<1>1. CASE Unlimited(r)
  <2>1. /\ at' = [at EXCEPT ![r] = IF ask[r].kind = "report" THEN "token" ELSE "roles"]
        /\ UNCHANGED <<ask, count, ttl, alone, seen, met>>
    BY <1>1 DEF Unlimited, Entered, Goto
  <2>2. at'[r] \notin Counting \ {"get"} /\ \A q \in Requests \ {r} : at'[q] = at[q]
    BY <2>1 DEF Shape, Counting
  <2>3. QED  BY <2>1, <2>2, WindowLeft
<1>2. CASE Again(r)
  <2>1. at' = [at EXCEPT ![r] = "get"] /\ UNCHANGED <<ask, count, ttl, alone, seen, met>>
    BY <1>2 DEF Again, limitVars, Goto
  <2>2. at'[r] \notin Counting \ {"get"} /\ \A q \in Requests \ {r} : at'[q] = at[q]
    BY <2>1 DEF Shape, Counting
  <2>3. QED  BY <2>1, <2>2, WindowLeft
<1>3. CASE LimitRefuse(r)
  BY <1>3, RaisedKeepsWindow DEF LimitRefuse
<1>4. CASE LimitFails(r)
  BY <1>4, RaisedKeepsWindow DEF LimitFails
<1>5. QED
  BY <1>1, <1>2, <1>3, <1>4, LimitGetKeepsWindow, LimitOpenKeepsWindow, LimitTtlKeepsWindow,
     LimitRepairKeepsWindow, LimitTrimKeepsWindow, LimitPassKeepsWindow DEF Limiting

LEMMA RunsStep ==
    ASSUME RunsInv, NEW r \in Requests, ask' = ask, RunsOf(r)',
           \A q \in Requests \ {r} : /\ at'[q] = at[q] /\ ran'[q] = ran[q] /\ answer'[q] = answer[q]
                                     /\ q \in spoilt' <=> q \in spoilt
    PROVE  RunsInv'
BY DEF RunsInv, RunsOf, Limited

LEMMA RaisedKeepsRuns ==
    ASSUME Shape, RunsInv, NEW r \in Requests, at[r] \in Counting, NEW outcome,
           RaisedInside(r, outcome), RouteAnswer(outcome) \notin {0, 200}, UNCHANGED <<ask, ran, spoilt>>
    PROVE  RunsOf(r)'
<1>1. ran[r] = 0 /\ answer[r] = 0 /\ r \notin spoilt
  BY DEF RunsInv, RunsOf, Counting
<1>2. CASE Goto(r, "paused") /\ answer' = answer
  BY <1>1, <1>2 DEF RunsOf, Goto, Shape
<1>3. CASE Answered(r, outcome)
  <2>1. at'[r] = "answered" /\ answer'[r] # 200 /\ ran'[r] = 0
    BY <1>1, <1>3 DEF Answered, Goto, Shape
  <2>2. QED  BY <2>1 DEF RunsOf, Counting
<1>4. QED  BY <1>2, <1>3, RaisedEffect

LEMMA LimitKeepsRuns ==
    ASSUME Shape, Counted, RunsInv, NEW r \in Requests, Limiting(r), UNCHANGED spoilt
    PROVE  RunsInv'
<1>1. ran[r] = 0 /\ answer[r] = 0 /\ r \notin spoilt /\ Limited(r)
  BY LimitTouchesOne DEF RunsInv, RunsOf, Counted, Counting
<1>2. ask' = ask
  BY LimitTouchesOne
<1>3. RunsOf(r)'
  <2>1. CASE Entered(r)
    <3>1. at'[r] \in {"token", "roles"} /\ ran'[r] = 1 /\ answer'[r] = 0
      BY <1>1, <2>1 DEF Entered, Goto, Shape
    <3>2. QED  BY <1>1, <1>2, <3>1 DEF RunsOf, Counting
  <2>2. CASE UNCHANGED <<ran, answer>> /\ \E next \in Counting : Goto(r, next)
    <3>1. at'[r] \in Counting /\ ran'[r] = 0 /\ answer'[r] = 0
      BY <1>1, <2>2 DEF Goto, Shape
    <3>2. QED  BY <1>1, <3>1 DEF RunsOf, Counting
  <2>3. CASE LimitRefuse(r)
    <3>1. RouteAnswer(Raise("RateLimitExceededException")) \notin {0, 200}
      BY RefusalIsAnswered
    <3>2. QED  BY <2>3, <3>1, RaisedKeepsRuns DEF LimitRefuse, Counting
  <2>4. CASE LimitFails(r)
    <3>1. RouteAnswer(Raise("RedisError")) \notin {0, 200}
      BY KnownOutcomes DEF Safe, Raise, Returned
    <3>2. QED  BY <2>4, <3>1, RaisedKeepsRuns DEF LimitFails
  <2>5. LimitGet(r) \/ LimitOpen(r) \/ LimitTtl(r) \/ LimitRepair(r) \/ LimitTrim(r) \/ Again(r)
            => UNCHANGED <<ran, answer>> /\ \E next \in Counting : Goto(r, next)
    <3>1. AfterTtl(ttl[Key(r)]) \in Counting
      BY DEF AfterTtl, Counting
    <3>2. QED
      BY <3>1 DEF LimitGet, LimitOpen, LimitTtl, LimitRepair, LimitTrim, Again, limitVars, Counting
  <2>6. Unlimited(r) \/ LimitPass(r) => Entered(r)
    BY DEF Unlimited, LimitPass
  <2>7. QED  BY <2>1, <2>2, <2>3, <2>4, <2>5, <2>6 DEF Limiting
<1>4. QED  BY <1>2, <1>3, LimitTouchesOne, RunsStep
-----------------------------------------------------------------------------
(* The steps of the path.                                                  *)
LEMMA PathKeepsShape ==
    ASSUME Shape, NEW r \in Requests, PathEffect(r)
    PROVE  Shape'
<1>0. UNCHANGED <<count, ttl, alone, ran>>
  BY DEF PathEffect, rest
<1>1. CASE Stays
  BY <1>0, <1>1 DEF Stays, Shape
<1>2. CASE GoesOn(r)
  BY <1>0, <1>2 DEF GoesOn, Goto, Shape
<1>3. CASE Ends(r)
  <2>1. PICK outcome : RouteAnswer(outcome) \in Statuses /\ Answered(r, outcome)
    BY <1>3 DEF Ends, Safe
  <2>2. QED  BY <1>0, <2>1 DEF Answered, Goto, Shape, AtValues
<1>4. QED  BY <1>1, <1>2, <1>3 DEF PathEffect

LEMMA PathTouchesOne ==
    ASSUME Shape, NEW r \in Requests, PathEffect(r), ~ Stays
    PROVE  /\ at[r] \in Stages \cup {"idle"}
           /\ at'[r] = "answered" \/ OnTheWay(r, at'[r])
           /\ \A q \in Requests \ {r} : /\ at'[q] = at[q] /\ seen'[q] = seen[q] /\ answer'[q] = answer[q]
                                         /\ (q \in met' <=> q \in met) /\ (q \in spoilt' <=> q \in spoilt)
<1>1. CASE GoesOn(r)
  <2>1. PICK next \in AtValues : OnTheWay(r, next) /\ Goto(r, next)
    BY <1>1 DEF GoesOn
  <2>2. at'[r] = next /\ at[r] \in Stages \cup {"idle"}
    BY <2>1 DEF Goto, Shape, OnTheWay, Stages
  <2>3. QED  BY <1>1, <2>1, <2>2 DEF GoesOn, Goto, Shape
<1>2. CASE Ends(r)
  BY <1>2 DEF Ends, Answered, Goto, Shape
<1>3. QED  BY <1>1, <1>2 DEF PathEffect

LEMMA PathKeepsCounted ==
    ASSUME Shape, Counted, NEW r \in Requests, PathEffect(r)
    PROVE  Counted'
<1>1. ask' = ask
  BY DEF PathEffect, rest
<1>2. CASE Stays
  BY <1>1, <1>2 DEF Stays, Counted, Limited
<1>3. CASE ~ Stays
  <2>1. at'[r] \in Counting \cup {"paused"} => Limited(r)
    BY <1>3, PathTouchesOne DEF OnTheWay, Counting
  <2>2. QED  BY <1>1, <1>3, <2>1, PathTouchesOne DEF Counted, Limited
<1>4. QED  BY <1>2, <1>3

LEMMA PathKeepsWindow ==
    ASSUME Shape, WindowInv, NEW r \in Requests, PathEffect(r)
    PROVE  WindowInv'
<1>1. UNCHANGED <<ask, count, ttl, alone>>
  BY DEF PathEffect, rest
<1>2. CASE Stays
  BY <1>1, <1>2 DEF Stays, WindowInv, Waits, Key
<1>3. CASE ~ Stays
  <2>1. at'[r] \notin Counting \ {"get"}
    BY <1>3, PathTouchesOne DEF OnTheWay, Counting
  <2>2. QED  BY <1>1, <1>3, <2>1, PathTouchesOne, WindowLeft
<1>4. QED  BY <1>2, <1>3

LEMMA PathKeepsRuns ==
    ASSUME Shape, RunsInv, NEW r \in Requests, PathEffect(r)
    PROVE  RunsInv'
<1>1. UNCHANGED <<ask, ran>>
  BY DEF PathEffect, rest
<1>2. CASE Stays
  BY <1>1, <1>2 DEF Stays, RunsInv, RunsOf, Limited
<1>3. CASE GoesOn(r)
  <2>1. PICK next \in AtValues : OnTheWay(r, next) /\ Goto(r, next) /\ UNCHANGED <<answer, spoilt>>
    BY <1>3 DEF GoesOn
  <2>2. at'[r] = next /\ \A q \in Requests \ {r} : at'[q] = at[q]
    BY <2>1 DEF Goto, Shape
  <2>3. RunsOf(r)
    BY DEF RunsInv
  <2>4. RunsOf(r)'
    BY <1>1, <2>1, <2>2, <2>3 DEF RunsOf, OnTheWay, Limited, Counting
  <2>5. QED  BY <1>1, <2>1, <2>2, <2>4, RunsStep
<1>4. CASE Ends(r)
  <2>1. PICK outcome : /\ Safe(outcome) /\ Answered(r, outcome)
                       /\ outcome = Returned =>
                             spoilt' = spoilt /\ at[r] \in {"cpg", "agency", "post", "search"}
    BY <1>4 DEF Ends
  <2>2. at'[r] = "answered" /\ answer'[r] = RouteAnswer(outcome)
    BY <2>1 DEF Answered, Goto, Shape
  <2>3. RunsOf(r) /\ at[r] # "answered"
    BY <1>4 DEF RunsInv, Ends, Stages
  <2>4. answer'[r] # 429 /\ (answer'[r] = 200 => outcome = Returned)
    BY <2>1, <2>2 DEF Safe
  <2>5. answer'[r] = 200 => r \notin spoilt' /\ (Limited(r) => ran[r] = 1)
    BY <2>1, <2>3, <2>4 DEF RunsOf
  <2>6. RunsOf(r)'
    BY <1>1, <2>2, <2>3, <2>4, <2>5 DEF RunsOf, Counting, Limited
  <2>7. \A q \in Requests \ {r} : /\ at'[q] = at[q] /\ ran'[q] = ran[q] /\ answer'[q] = answer[q]
                                  /\ q \in spoilt' <=> q \in spoilt
    BY <1>1, <1>4, <2>1 DEF Ends, Answered, Goto, Shape
  <2>8. QED  BY <1>1, <2>6, <2>7, RunsStep
<1>5. QED  BY <1>2, <1>3, <1>4 DEF PathEffect
-----------------------------------------------------------------------------
(* The answers a request has: none before it begins and after its end, and *)
(* those of the stages else.                                               *)
HeldOf(r) ==
    /\ phase[r] \in {"call", "keep", "use"}
    /\ DOMAIN held[r] \subseteq Stages
    /\ at[r] \in {"idle", "answered"} => held[r] = Nothing /\ since[r] = {}

HeldInv ==
    /\ DOMAIN phase = Requests /\ DOMAIN held = Requests /\ DOMAIN since = Requests
    /\ \A r \in Requests : HeldOf(r)

(* Every request that is one is answered, and with a status.               *)
AnswerInv ==
    /\ faults \in 0 .. MaxFaults
    /\ \A r \in Requests :
          /\ at[r] = "answered" /\ ask[r].kind # "none" => answer[r] # 0
          /\ ask[r].kind = "none" => at[r] = "answered" /\ answer[r] = 0

LEMMA NothingIsEmpty == DOMAIN Nothing = {}
BY DEF Nothing

LEMMA HeldStep ==
    ASSUME HeldInv, NEW r \in Requests, HeldOf(r)',
           DOMAIN phase' = Requests, DOMAIN held' = Requests, DOMAIN since' = Requests,
           \A q \in Requests \ {r} : /\ at'[q] = at[q] /\ phase'[q] = phase[q]
                                     /\ held'[q] = held[q] /\ since'[q] = since[q]
    PROVE  HeldInv'
BY DEF HeldInv, HeldOf

LEMMA ClearedKeepsHeld ==
    ASSUME HeldInv, NEW r \in Requests, Cleared(r), \A q \in Requests \ {r} : at'[q] = at[q]
    PROVE  HeldInv'
<1>1. /\ DOMAIN phase' = Requests /\ DOMAIN held' = Requests /\ DOMAIN since' = Requests
      /\ phase'[r] = "call" /\ held'[r] = Nothing /\ since'[r] = {}
      /\ \A q \in Requests \ {r} : phase'[q] = phase[q] /\ held'[q] = held[q] /\ since'[q] = since[q]
  BY DEF Cleared, HeldInv
<1>2. HeldOf(r)'
  BY <1>1, NothingIsEmpty DEF HeldOf
<1>3. QED  BY <1>1, <1>2, HeldStep

LEMMA GoOnKeepsHeld ==
    ASSUME Shape, HeldInv, NEW r \in Requests, NEW next \in AtValues \ {"idle", "answered"}, GoOn(r, next)
    PROVE  HeldInv'
<1>1. /\ at' = [at EXCEPT ![r] = next] /\ phase' = [phase EXCEPT ![r] = "call"]
      /\ UNCHANGED <<held, since>>
  BY DEF GoOn, Stage, Goto
<1>2. HeldOf(r)'
  BY <1>1 DEF HeldOf, HeldInv, Shape
<1>3. QED  BY <1>1, <1>2, HeldStep DEF Shape, HeldInv

LEMMA EndKeepsHeld ==
    ASSUME Shape, HeldInv, NEW r \in Requests, NEW outcome, End(r, outcome)
    PROVE  HeldInv'
<1>1. Raises(r, outcome) /\ Cleared(r)
  BY DEF End
<1>2. \A q \in Requests \ {r} : at'[q] = at[q]
  BY <1>1, RaisedEffect DEF Raises, Answered, Goto, Shape
<1>3. QED  BY <1>1, <1>2, ClearedKeepsHeld

LEMMA LimitKeepsHeld ==
    ASSUME Shape, HeldInv, NEW r \in Requests, LimitStep(r)
    PROVE  HeldInv'
<1>1. Limiting(r) /\ at'[r] # "idle" /\ \A q \in Requests \ {r} : at'[q] = at[q]
  BY LimitTouchesOne DEF LimitStep
<1>2. CASE at'[r] = "answered"
  BY <1>1, <1>2, ClearedKeepsHeld DEF LimitStep
<1>3. CASE at'[r] # "answered"
  <2>1. UNCHANGED <<phase, held, since>>
    BY <1>3 DEF LimitStep
  <2>2. QED  BY <1>1, <1>3, <2>1 DEF HeldInv, HeldOf
<1>4. QED  BY <1>2, <1>3

(* What is added to the answers is that of the stage.                      *)
LEMMA AddedKeepsHeld ==
    ASSUME HeldInv, NEW r \in Requests, at[r] \in Stages, NEW value, NEW next \in {"keep", "use"},
           held' = [held EXCEPT ![r] = Having(@, at[r], value)],
           phase' = [phase EXCEPT ![r] = next], UNCHANGED <<at, since>>
    PROVE  HeldInv'
<1>1. /\ DOMAIN phase' = Requests /\ DOMAIN held' = Requests
      /\ phase'[r] = next /\ held'[r] = Having(held[r], at[r], value)
      /\ \A q \in Requests \ {r} : phase'[q] = phase[q] /\ held'[q] = held[q]
  BY DEF HeldInv
<1>2. DOMAIN held'[r] \subseteq Stages
  BY <1>1 DEF Having, HeldInv, HeldOf
<1>3. at'[r] \notin {"idle", "answered"}
  BY DEF Stages
<1>4. HeldOf(r)'
  BY <1>1, <1>2, <1>3 DEF HeldOf
<1>5. QED  BY <1>1, <1>4, HeldStep DEF HeldInv

LEMMA AskKeepsHeld ==
    ASSUME Shape, HeldInv, NEW r \in Requests, Ask(r)
    PROVE  HeldInv'
<1>1. at[r] \in Stages
  BY DEF Ask
<1>2. PICK reply \in Given(r), whose \in Users \cup {None} :
          LET mixed == whose # None
              outcome == OutcomeOf(at[r], reply)
              again == TokenRetried(r, outcome)
          IN  CASE again -> UNCHANGED <<at, phase, held, since>>
                [] ~ again /\ outcome = Returned ->
                     /\ held' = [held EXCEPT ![r] =
                             Having(@, at[r], IF mixed THEN Profile[whose] ELSE Worth(r, at[r]))]
                     /\ phase' = [phase EXCEPT ![r] = IF Kept(at[r]) THEN "keep" ELSE "use"]
                     /\ UNCHANGED <<at, since>>
                [] OTHER -> Raises(r, outcome) /\ Cleared(r)
  BY DEF Ask
<1> DEFINE outcome == OutcomeOf(at[r], reply)
           again == TokenRetried(r, outcome)
           value == IF whose # None THEN Profile[whose] ELSE Worth(r, at[r])
           next == IF Kept(at[r]) THEN "keep" ELSE "use"
<1>3. CASE again
  BY <1>2, <1>3 DEF HeldInv, HeldOf
<1>4. CASE ~ again /\ outcome = Returned
  <2>1. /\ held' = [held EXCEPT ![r] = Having(@, at[r], value)]
        /\ phase' = [phase EXCEPT ![r] = next] /\ UNCHANGED <<at, since>>
    BY <1>2, <1>4
  <2>2. next \in {"keep", "use"}
    OBVIOUS
  <2> HIDE DEF value, next
  <2>3. QED  BY <1>1, <2>1, <2>2, AddedKeepsHeld
<1>5. CASE ~ again /\ outcome # Returned
  <2>1. Raises(r, outcome) /\ Cleared(r)
    BY <1>2, <1>5
  <2>2. \A q \in Requests \ {r} : at'[q] = at[q]
    BY <2>1, RaisedEffect DEF Raises, Answered, Goto, Shape
  <2>3. QED  BY <2>1, <2>2, ClearedKeepsHeld
<1>6. QED  BY <1>3, <1>4, <1>5

LEMMA PathKeepsHeld ==
    ASSUME Shape, HeldInv, NEW r \in Requests, PathStep(r)
    PROVE  HeldInv'
<1>0. {"me", "access", "get", "roles", "search", "cpg", "agency", "post"}
          \subseteq AtValues \ {"idle", "answered"}
  BY DEF AtValues, Stages, Counting
<1>1. CASE Begin(r)
  <2>1. CASE ask[r].header = "none"
    BY <1>1, <2>1, EndKeepsHeld DEF Begin
  <2>2. CASE ask[r].header # "none"
    <3>1. /\ at' = [at EXCEPT ![r] = "me"] /\ phase' = [phase EXCEPT ![r] = "call"] /\ held' = held
          /\ \E begun : since' = [since EXCEPT ![r] = begun]
      BY <1>1, <2>2 DEF Begin, Stage, Goto
    <3>2. HeldOf(r)'
      BY <3>1 DEF HeldOf, HeldInv, Shape
    <3>3. QED  BY <3>1, <3>2, HeldStep DEF Shape, HeldInv
  <2>3. QED  BY <2>1, <2>2
<1>2. CASE KeyFails(r)
  BY <1>2, EndKeepsHeld DEF KeyFails
<1>3. CASE Look(r)
  <2>1. /\ at[r] \in Stages /\ UNCHANGED <<at, since>> /\ phase' = [phase EXCEPT ![r] = "use"]
        /\ held' = [held EXCEPT ![r] = Having(@, at[r], cache[CacheKey(r, at[r])])]
    BY <1>3 DEF Look, rateVars
  <2>2. QED  BY <2>1, AddedKeepsHeld
<1>4. CASE Ask(r)
  BY <1>4, AskKeepsHeld
<1>5. CASE Keep(r)
  <2>1. UNCHANGED <<at, held, since>> /\ phase' = [phase EXCEPT ![r] = "use"]
    BY <1>5 DEF Keep, rateVars
  <2>2. HeldOf(r)'
    BY <2>1 DEF HeldOf, HeldInv
  <2>3. QED  BY <2>1, <2>2, HeldStep DEF HeldInv
<1>6. CASE UseMe(r) \/ UseRoles(r) \/ UseList(r) \/ UseAgencyList(r) \/ UseToken(r) \/ UseReport(r)
           \/ UseCampaigns(r) \/ UseAccess(r)
  <2>1. \/ \E outcome : End(r, outcome)
        \/ \E next \in {"me", "access", "get", "roles", "search", "cpg", "agency", "post"} : GoOn(r, next)
    <3>1. CASE UseMe(r)
      BY <3>1 DEF UseMe
    <3>2. CASE UseAccess(r)
      BY <3>2 DEF UseAccess
    <3>3. CASE UseRoles(r)
      BY <3>3 DEF UseRoles
    <3>4. CASE UseList(r)
      BY <3>4 DEF UseList
    <3>5. CASE UseAgencyList(r) \/ UseToken(r) \/ UseReport(r) \/ UseCampaigns(r)
      BY <3>5 DEF UseAgencyList, UseToken, UseReport, UseCampaigns
    <3>6. QED  BY <1>6, <3>1, <3>2, <3>3, <3>4, <3>5
  <2>2. QED  BY <1>0, <2>1, EndKeepsHeld, GoOnKeepsHeld
<1>7. QED  BY <1>1, <1>2, <1>3, <1>4, <1>5, <1>6 DEF PathStep

LEMMA RaisedIsTold ==
    ASSUME Shape, NEW r \in Requests, NEW outcome, RaisedInside(r, outcome), RouteAnswer(outcome) # 0
    PROVE  at'[r] = "answered" => answer'[r] # 0
<1>1. CASE Answered(r, outcome)
  BY <1>1 DEF Answered, Shape
<1>2. CASE Goto(r, "paused")
  BY <1>2 DEF Goto, Shape
<1>3. QED  BY <1>1, <1>2, RaisedEffect

LEMMA LimitKeepsAnswers ==
    ASSUME Shape, AnswerInv, NEW r \in Requests, Limiting(r)
    PROVE  AnswerInv'
<1>1. at'[r] = "answered" => answer'[r] # 0
  <2>1. CASE LimitRefuse(r)
    <3>1. RouteAnswer(Raise("RateLimitExceededException")) # 0
      BY RefusalIsAnswered
    <3>2. QED  BY <2>1, <3>1, RaisedIsTold DEF LimitRefuse
  <2>2. CASE LimitFails(r)
    <3>1. RouteAnswer(Raise("RedisError")) # 0
      BY KnownOutcomes DEF Safe
    <3>2. QED  BY <2>2, <3>1, RaisedIsTold DEF LimitFails
  <2>3. CASE Unlimited(r) \/ LimitPass(r)
    BY <2>3 DEF Unlimited, LimitPass, Entered, Goto, Shape
  <2>4. CASE LimitGet(r) \/ LimitOpen(r) \/ LimitTtl(r) \/ LimitRepair(r) \/ LimitTrim(r) \/ Again(r)
    BY <2>4 DEF LimitGet, LimitOpen, LimitTtl, LimitRepair, LimitTrim, Again, AfterTtl, Goto, Shape
  <2>5. QED  BY <2>1, <2>2, <2>3, <2>4 DEF Limiting
<1>2. faults' \in 0 .. MaxFaults
  <2>1. CASE LimitFails(r)
    BY <2>1, LimitAssumption DEF LimitFails, AnswerInv, LimitAssumption
  <2>2. CASE ~ LimitFails(r)
    <3>1. faults' = faults
      BY <2>2 DEF Limiting, Unlimited, LimitGet, LimitOpen, LimitTtl, LimitRepair, LimitTrim,
         LimitPass, LimitRefuse, Again
    <3>2. QED  BY <3>1 DEF AnswerInv
  <2>3. QED  BY <2>1, <2>2
<1>3. at[r] # "answered"
  BY LimitTouchesOne DEF Counting
<1>4. QED  BY <1>1, <1>2, <1>3, LimitTouchesOne DEF AnswerInv

LEMMA PathKeepsFaults ==
    ASSUME NEW r \in Requests, PathStep(r), faults \in 0 .. MaxFaults
    PROVE  faults' \in 0 .. MaxFaults
<1>1. CASE Ask(r)
  <2>1. PICK reply, whose :
            LET mixed == whose # None
                fault == mixed \/ reply \notin {Well, Refusal}
            IN  faults' = faults + (IF fault THEN 1 ELSE 0) /\ faults' <= MaxFaults
    BY <1>1 DEF Ask
  <2>2. faults' \in {faults, faults + 1} /\ faults' <= MaxFaults
    BY <2>1
  <2>3. QED  BY <2>2, LimitAssumption DEF LimitAssumption
<1>2. CASE ~ Ask(r)
  <2>1. faults' = faults
    BY <1>2 DEF PathStep, Begin, KeyFails, Look, Keep, rateVars, UseMe, UseAccess, UseRoles, UseList,
       UseAgencyList, UseToken, UseReport, UseCampaigns, Using
  <2>2. QED  BY <2>1
<1>3. QED  BY <1>1, <1>2

LEMMA PathKeepsAnswers ==
    ASSUME Shape, AnswerInv, NEW r \in Requests, PathStep(r)
    PROVE  AnswerInv'
<1>1. PathEffect(r)
  BY PathSteps
<1>2. ask' = ask /\ faults' \in 0 .. MaxFaults
  BY <1>1, PathKeepsFaults DEF PathEffect, rest, AnswerInv
<1>3. CASE Stays
  BY <1>2, <1>3 DEF Stays, AnswerInv
<1>4. CASE ~ Stays
  <2>1. /\ at[r] # "answered"
        /\ \A q \in Requests \ {r} : at'[q] = at[q] /\ answer'[q] = answer[q]
    BY <1>1, <1>4, PathTouchesOne DEF Stages
  <2>2. at'[r] = "answered" => answer'[r] # 0
    <3>1. CASE GoesOn(r)
      BY <3>1 DEF GoesOn, OnTheWay, Goto, Shape
    <3>2. CASE Ends(r)
      BY <3>2 DEF Ends, Answered, Safe, Shape
    <3>3. QED  BY <1>1, <1>4, <3>1, <3>2 DEF PathEffect
  <2>3. QED  BY <1>2, <2>1, <2>2 DEF AnswerInv
<1>5. QED  BY <1>3, <1>4
-----------------------------------------------------------------------------
RequestInv == Shape /\ Counted /\ WindowInv /\ RunsInv /\ HeldInv /\ AnswerInv

LEMMA InitialRequests == Init => RequestInv
<1> SUFFICES ASSUME Init
             PROVE  RequestInv
  OBVIOUS
<1>1. PICK mix \in Mixes :
          /\ ask = mix.ask /\ flags = mix.flags /\ faults = mix.faults
          /\ count = [k \in Limits |-> mix.before.count]
          /\ ttl = [k \in Limits |-> mix.before.ttl]
          /\ at = [r \in Requests |-> IF ask[r].kind = "none" THEN "answered"
                                    ELSE IF r \in mix.waiting THEN "get" ELSE "idle"]
  BY DEF Init
<1>2. /\ faults \in 0 .. MaxFaults /\ mix.before.count \in Nat /\ mix.before.ttl \in Lives
      /\ \A r \in Requests : ContextClient(ask[r]) \in Clients
      /\ \A r \in mix.waiting : ask[r].kind \in Handlers
  BY <1>1, MixesAssumption DEF MixesAssumption
<1>3. \A r \in Requests :
          /\ at[r] \in {"answered", "get", "idle"}
          /\ at[r] = "answered" <=> ask[r].kind = "none"
          /\ at[r] = "get" => r \in mix.waiting
  BY <1>1
<1>4. /\ answer = [r \in Requests |-> 0] /\ seen = [r \in Requests |-> 0]
      /\ tries = [r \in Requests |-> 1] /\ pause = [r \in Requests |-> 0]
      /\ ran = [r \in Requests |-> 0] /\ alone = [k \in Limits |-> 0] /\ spoilt = {}
  BY DEF Init
<1>5. Shape
  <2>1. at \in [Requests -> AtValues]
    BY <1>1 DEF AtValues, Counting
  <2>2. tries \in [Requests -> 1 .. MaxAttempts] /\ pause \in [Requests -> 0 .. Pause]
    BY <1>4, LimitAssumption DEF LimitAssumption
  <2>3. QED  BY <1>1, <1>2, <1>4, <2>1, <2>2 DEF Shape, Statuses
<1>6. Counted
  BY <1>2, <1>3 DEF Counted, Limited, Counting
<1>7. WindowInv
  <2>1. \A q \in Requests, k \in Limits : ~ Waits(q, k)
    BY <1>3 DEF Waits, Counting
  <2>2. QED  BY <1>1, <1>2, <1>4, <2>1, LimitAssumption DEF WindowInv, LimitAssumption
<1>8. RunsInv
  BY <1>3, <1>4 DEF RunsInv, RunsOf
<1>9. HeldInv
  <2>1. /\ phase = [r \in Requests |-> "call"]
        /\ held = [r \in Requests |-> IF at[r] = "get"
                                      THEN [me |-> Profile[User(r)], access |-> AccessBefore[User(r)]]
                                      ELSE Nothing]
        /\ since = [r \in Requests |-> IF at[r] = "get" THEN {AccessBefore[User(r)]} ELSE {}]
    BY DEF Init
  <2>2. ASSUME NEW r \in Requests
        PROVE  HeldOf(r)
    <3>1. CASE at[r] = "get"
      <4>1. DOMAIN held[r] = {"me", "access"}
        BY <2>1, <3>1
      <4>2. QED  BY <2>1, <3>1, <4>1 DEF HeldOf, Stages
    <3>2. CASE at[r] # "get"
      BY <2>1, <3>2, NothingIsEmpty DEF HeldOf
    <3>3. QED  BY <3>1, <3>2
  <2>3. QED  BY <2>1, <2>2 DEF HeldInv
<1>10. AnswerInv
  BY <1>2, <1>3, <1>4 DEF AnswerInv
<1>11. QED  BY <1>5, <1>6, <1>7, <1>8, <1>9, <1>10 DEF RequestInv

LEMMA RevokeKeeps ==
    ASSUME RequestInv, NEW u, Revoke(u)
    PROVE  RequestInv'
<1>1. UNCHANGED <<ask, at, answer, faults, count, ttl, seen, tries, pause, ran, met, alone>>
      /\ UNCHANGED <<phase, held, spoilt>>
  BY DEF Revoke, rateVars, limitVars
<1>2. DOMAIN since' = Requests /\ \A r \in Requests : since[r] = {} => since'[r] = {}
  BY DEF Revoke
<1>3. Shape' /\ Counted' /\ AnswerInv'
  BY <1>1 DEF RequestInv, Shape, Counted, Limited, AnswerInv
<1>4. WindowInv'
  BY <1>1 DEF RequestInv, WindowInv, Waits, Key
<1>5. RunsInv'
  BY <1>1 DEF RequestInv, RunsInv, RunsOf, Limited
<1>6. HeldInv'
  BY <1>1, <1>2 DEF RequestInv, HeldInv, HeldOf
<1>7. QED  BY <1>3, <1>4, <1>5, <1>6 DEF RequestInv

LEMMA TimeKeeps ==
    ASSUME RequestInv, TimePasses
    PROVE  RequestInv'
<1>1. UNCHANGED <<ask, at, answer, faults, seen, tries, ran, met>> /\ UNCHANGED <<phase, held, since, spoilt>>
  BY DEF TimePasses, Tick, pathVars
<1>2. Tick
  BY DEF TimePasses
<1>3. Shape'
  <2>1. count' \in [Limits -> Nat] /\ alone' \in [Limits -> Nat]
    BY <1>2 DEF Tick, RequestInv, Shape
  <2>2. ttl' \in [Limits -> Lives]
    BY <1>2 DEF Tick, RequestInv, Shape, Lives, Gone, Endless
  <2>3. pause' \in [Requests -> 0 .. Pause]
    BY <1>2, LimitAssumption DEF Tick, RequestInv, Shape, LimitAssumption
  <2>4. QED  BY <1>1, <2>1, <2>2, <2>3 DEF RequestInv, Shape
<1>4. WindowInv'
  BY <1>2, TickKeepsWindow DEF RequestInv
<1>5. Counted' /\ AnswerInv'
  BY <1>1 DEF RequestInv, Counted, Limited, AnswerInv
<1>6. RunsInv'
  BY <1>1 DEF RequestInv, RunsInv, RunsOf, Limited
<1>7. HeldInv'
  BY <1>1 DEF RequestInv, HeldInv, HeldOf
<1>8. QED  BY <1>3, <1>4, <1>5, <1>6, <1>7 DEF RequestInv

LEMMA StepsOfRequests == RequestInv /\ [Next]_vars => RequestInv'
<1> SUFFICES ASSUME RequestInv, [Next]_vars
             PROVE  RequestInv'
  OBVIOUS
<1>1. Shape /\ Counted /\ WindowInv /\ RunsInv /\ HeldInv /\ AnswerInv
  BY DEF RequestInv
<1>2. ASSUME NEW r \in Requests, LimitStep(r)
      PROVE  RequestInv'
  <2>1. Limiting(r) /\ spoilt' = spoilt
    BY <1>2 DEF LimitStep
  <2>2. QED
    BY <1>1, <1>2, <2>1, LimitKeepsShape, LimitKeepsCounted, LimitKeepsWindow, LimitKeepsRuns,
       LimitKeepsHeld, LimitKeepsAnswers DEF RequestInv
<1>3. ASSUME NEW r \in Requests, PathStep(r)
      PROVE  RequestInv'
  BY <1>1, <1>3, PathSteps, PathKeepsShape, PathKeepsCounted, PathKeepsWindow, PathKeepsRuns,
     PathKeepsHeld, PathKeepsAnswers DEF RequestInv
<1>4. CASE \E u \in Revocable : Revoke(u)
  BY <1>4, RevokeKeeps
<1>5. CASE TimePasses
  BY <1>5, TimeKeeps
<1>6. CASE UNCHANGED vars
  <2>1. /\ UNCHANGED <<ask, at, answer, faults, count, ttl, seen, tries, pause, ran, met, alone>>
        /\ UNCHANGED <<phase, held, since, spoilt>>
    BY <1>6 DEF vars, rateVars, limitVars, pathVars
  <2>2. Shape' /\ Counted' /\ AnswerInv'
    BY <1>1, <2>1 DEF Shape, Counted, Limited, AnswerInv
  <2>3. WindowInv' /\ RunsInv'
    BY <1>1, <2>1 DEF WindowInv, Waits, Key, RunsInv, RunsOf, Limited
  <2>4. HeldInv'
    BY <1>1, <2>1 DEF HeldInv, HeldOf
  <2>5. QED  BY <2>2, <2>3, <2>4 DEF RequestInv
<1>7. QED  BY <1>2, <1>3, <1>4, <1>5, <1>6 DEF Next

(* The invariant holds in every state of every run.                        *)
THEOREM RequestsInvariant == Spec => []RequestInv
<1>1. QED  BY InitialRequests, StepsOfRequests, PTL DEF Spec

(* For any clients, limits and requests: a window lets in no more requests *)
(* than the limit, apart from those that were between GET and INCR         *)
(* together.  [cid_rate_limited.py:31]                                     *)
THEOREM WindowHoldsAlways == Spec => []WindowHolds
<1>1. RequestInv => WindowHolds
  BY DEF RequestInv, WindowInv, WindowHolds
<1>2. QED  BY <1>1, RequestsInvariant, PTL

(* For any of them, whatever the services answer: a handler under the      *)
(* retry runs once, a request told to come back later has not run, and one *)
(* told 200 was given nothing but good replies.                            *)
(* [backoff_wait_rate_limited.py:41, http_response.py:48]                  *)
THEOREM RunsOnceAlways == Spec => []RunsOnce
<1>1. RequestInv => RunsOnce
  BY DEF RequestInv, RunsInv, RunsOf, RunsOnce
<1>2. QED  BY <1>1, RequestsInvariant, PTL

(* For any of them: the types, an answer for every request that ended, and *)
(* no contexts left behind.                                                *)
THEOREM RequestTypes == Spec => []RequestTypeOK
<1>1. RequestInv => RequestTypeOK
  <2> SUFFICES ASSUME RequestInv
               PROVE  RequestTypeOK
    OBVIOUS
  <2>1. Shape /\ HeldInv /\ AnswerInv /\ RunsInv
    BY DEF RequestInv
  <2>2. \A r \in Requests : (answer[r] # 0) <=> (at[r] = "answered" /\ ask[r].kind # "none")
    BY <2>1 DEF AnswerInv, RunsInv, RunsOf
  <2>3. \A r \in Requests : tries[r] \in 1 .. MaxAttempts /\ pause[r] \in 0 .. Pause
    BY <2>1 DEF Shape
  <2>4. \A r \in Requests : HeldOf(r)
    BY <2>1 DEF HeldInv
  <2>5. \A k \in Limits : count[k] \in Nat /\ ttl[k] \in Lives
    BY <2>1 DEF Shape
  <2>6. QED  BY <2>1, <2>2, <2>3, <2>4, <2>5 DEF RequestTypeOK, Shape, HeldOf, AnswerInv
<1>2. QED  BY <1>1, RequestsInvariant, PTL
-----------------------------------------------------------------------------
(* For any requests, users and flags: nobody is served on what the         *)
(* enterprise client service said of another.  What has to be kept track   *)
(* of is whose every answer is: of those a request has, and of those in    *)
(* the cache, which any request with the same key may be given.            *)

(* What an answer of a stage may be for a request, kept by whichever one.  *)
(* A profile may be another's, as the service may mix them up before the   *)
(* check, and a list may be that of the agency of the user.                *)
Due(r, stage, value) ==
    /\ User(r) \in Users
    /\ stage = "me" => \E u \in Users : value = Profile[u]
    /\ stage = "access" => value \in ever[User(r)]
    /\ stage = "roles" => value = RolesOf[User(r)]
    /\ stage \in {"cpg", "agency"} /\ AccessBefore[User(r)].agency = None =>
          value = ask[r].account

(* Everything in the cache is due to whoever has its key, ...              *)
CacheInv ==
    \A r \in Requests, stage \in Stages :
        CacheKey(r, stage) \in DOMAIN cache => Due(r, stage, cache[CacheKey(r, stage)])

(* ... every access is one its user has had, of the same agency, ...       *)
Remembered(u) ==
    /\ DOMAIN access[u] = {"internal", "agency", "accounts"}
    /\ access[u] \in ever[u]
    /\ \A had \in ever[u] : had.agency = AccessBefore[u].agency

AccessInv ==
    /\ DOMAIN access = Users /\ DOMAIN ever = Users
    /\ \A u \in Users : Remembered(u)

(* ... and so is every answer a request has, which without the cache is    *)
(* the one the service gave the request itself; ...                        *)
DueOf(r) ==
    /\ \A stage \in DOMAIN held[r] : Due(r, stage, held[r][stage])
    /\ phase[r] # "call" => at[r] \in Stages /\ at[r] \in DOMAIN held[r]
    /\ at[r] \notin {"idle", "answered"} /\ User(r) \in Users => access[User(r)] \in since[r]
    /\ "access" \in DOMAIN held[r] /\ ~ flags.cache => held[r].access \in since[r]
    /\ "cpg" \in DOMAIN held[r] /\ ~ flags.cache => held[r].cpg = ask[r].account
    /\ "agency" \in DOMAIN held[r] => at[r] = "agency"
    /\ at[r] = "agency" => held[r].access.agency # None
    /\ "agency" \in DOMAIN held[r] /\ ~ flags.cache => held[r].agency = held[r].access.agency

(* ... past the check of its profile it has one that will do, past that of *)
(* its access one, and past those of its roles the rights.                 *)
PastMe == Counting \cup {"paused"} \cup (Stages \ {"me"})
PastAccess == PastMe \ {"access"}

PassedOf(r) ==
    /\ at[r] \in PastMe => "me" \in DOMAIN held[r] /\ OwnProfile(r)
    /\ at[r] \in PastAccess => "access" \in DOMAIN held[r]
    /\ at[r] \in {"cpg", "agency", "search"} =>
          Required \subseteq RolesOf[User(r)] /\ Allowed(held[r].access, ask[r].account)

EntitledInv ==
    /\ CacheInv /\ AccessInv
    /\ \A r \in Requests : DueOf(r) /\ PassedOf(r)

(* What there is of users only grows.                                      *)
Grows == \A u \in Users : ever[u] \subseteq ever'[u]

LEMMA DueStays ==
    ASSUME NEW r, NEW stage, NEW value, Due(r, stage, value), ask' = ask, Grows
    PROVE  Due(r, stage, value)'
BY DEF Due, Grows, User

LEMMA CacheStays ==
    ASSUME CacheInv, UNCHANGED <<ask, cache>>, Grows
    PROVE  CacheInv'
<1>1. SUFFICES ASSUME NEW r \in Requests, NEW stage \in Stages, CacheKey(r, stage)' \in DOMAIN cache'
               PROVE  Due(r, stage, cache[CacheKey(r, stage)])'
  BY DEF CacheInv
<1>2. PICK value : value = cache[CacheKey(r, stage)]
  OBVIOUS
<1>3. CacheKey(r, stage)' = CacheKey(r, stage)
  BY DEF CacheKey, User
<1>4. Due(r, stage, value)
  BY <1>1, <1>2, <1>3 DEF CacheInv
<1>5. Due(r, stage, value)'
  BY <1>4, DueStays
<1>6. QED  BY <1>2, <1>3, <1>5 DEF Due

(* Requests with the same key are of the same user, and, if it is of a     *)
(* list, of the same account.                                              *)
LEMMA OneKeyOneOwner ==
    ASSUME NEW r, NEW q, NEW stage \in Stages, NEW other \in Stages, NEW value,
           CacheKey(r, stage) = CacheKey(q, other), Due(r, stage, value)
    PROVE  Due(q, other, value)
<1>1. CASE stage \in {"cpg", "agency"} /\ other \in {"cpg", "agency"}
  <2>1. <<ask[r].kind, ask[r].account, User(r)>> = <<ask[q].kind, ask[q].account, User(q)>>
    BY <1>1 DEF CacheKey
  <2>2. User(r) = User(q) /\ ask[r].account = ask[q].account
    BY <2>1
  <2>3. QED  BY <1>1, <2>2 DEF Due
<1>2. CASE stage \notin {"cpg", "agency"} /\ other \notin {"cpg", "agency"}
  <2>1. <<stage, User(r)>> = <<other, User(q)>>
    BY <1>2 DEF CacheKey
  <2>2. User(r) = User(q) /\ stage = other
    BY <2>1
  <2>3. QED  BY <1>2, <2>2 DEF Due
<1>3. CASE stage \in {"cpg", "agency"} /\ other \notin {"cpg", "agency"}
  <2>1. <<ask[r].kind, ask[r].account, User(r)>> = <<other, User(q)>>
    BY <1>3 DEF CacheKey
  <2>2. QED  BY <2>1
<1>4. CASE stage \notin {"cpg", "agency"} /\ other \in {"cpg", "agency"}
  <2>1. <<stage, User(r)>> = <<ask[q].kind, ask[q].account, User(q)>>
    BY <1>4 DEF CacheKey
  <2>2. QED  BY <2>1
<1>5. QED  BY <1>1, <1>2, <1>3, <1>4

(* A request that keeps its place and its answers keeps what is due to it. *)
LEMMA OthersKeep ==
    ASSUME NEW q, DueOf(q), PassedOf(q), UNCHANGED <<ask, flags, access>>, Grows,
           at'[q] = at[q], phase'[q] = phase[q], held'[q] = held[q], since'[q] = since[q]
    PROVE  DueOf(q)' /\ PassedOf(q)'
<1>1. \A stage \in DOMAIN held[q] : Due(q, stage, held[q][stage])'
  <2> TAKE stage \in DOMAIN held[q]
  <2>1. PICK value : value = held[q][stage]
    OBVIOUS
  <2>2. Due(q, stage, value)'
    BY <2>1, DueStays DEF DueOf
  <2>3. QED  BY <2>1, <2>2 DEF Due
<1>2. DueOf(q)'
  BY <1>1 DEF DueOf, User
<1>3. PassedOf(q)'
  BY DEF PassedOf, OwnProfile, Consumer, User
<1>4. QED  BY <1>2, <1>3

(* One request changes and nothing else.                                   *)
LEMMA OneRequest ==
    ASSUME EntitledInv, NEW r \in Requests, UNCHANGED <<ask, flags, access, ever>>,
           CacheInv', DueOf(r)', PassedOf(r)',
           \A q \in Requests \ {r} : /\ at'[q] = at[q] /\ phase'[q] = phase[q]
                                     /\ held'[q] = held[q] /\ since'[q] = since[q]
    PROVE  EntitledInv'
<1>1. AccessInv'
  BY DEF EntitledInv, AccessInv, Remembered
<1>2. \A q \in Requests \ {r} : DueOf(q)' /\ PassedOf(q)'
  BY OthersKeep DEF EntitledInv, Grows
<1>3. QED  BY <1>1, <1>2 DEF EntitledInv

LEMMA ClearedIsEntitled ==
    ASSUME HeldInv, EntitledInv, NEW r \in Requests, Cleared(r), at'[r] = "answered",
           \A q \in Requests \ {r} : at'[q] = at[q],
           UNCHANGED <<ask, flags, access, ever, cache>>
    PROVE  EntitledInv'
<1>1. /\ phase'[r] = "call" /\ held'[r] = Nothing
      /\ \A q \in Requests \ {r} : phase'[q] = phase[q] /\ held'[q] = held[q] /\ since'[q] = since[q]
  BY DEF Cleared, HeldInv
<1>2. DueOf(r)'
  BY <1>1, NothingIsEmpty DEF DueOf
<1>3. PassedOf(r)'
  BY DEF PassedOf, PastMe, PastAccess, Counting, Stages
<1>4. CacheInv'
  BY CacheStays DEF EntitledInv, Grows
<1>5. QED  BY <1>1, <1>2, <1>3, <1>4, OneRequest

LEMMA EndIsEntitled ==
    ASSUME Shape, HeldInv, EntitledInv, NEW r \in Requests, NEW outcome, End(r, outcome), Safe(outcome),
           UNCHANGED rest
    PROVE  EntitledInv'
<1>1. Answered(r, outcome) /\ Cleared(r) /\ UNCHANGED <<access, cache, ever>>
  BY SafeIsAnswered DEF End
<1>2. at'[r] = "answered" /\ \A q \in Requests \ {r} : at'[q] = at[q]
  BY <1>1 DEF Answered, Goto, Shape
<1>3. UNCHANGED <<ask, flags>>
  BY DEF rest
<1>4. QED  BY <1>1, <1>2, <1>3, ClearedIsEntitled

(* An answer that is due is added.                                         *)
LEMMA AddedIsEntitled ==
    ASSUME HeldInv, EntitledInv, NEW r \in Requests, at[r] \in Stages, NEW value, NEW next,
           Due(r, at[r], value),
           ~ flags.cache => /\ at[r] = "access" => value \in since[r]
                            /\ at[r] = "cpg" => value = ask[r].account
                            /\ at[r] = "agency" => value = held[r].access.agency,
           held' = [held EXCEPT ![r] = Having(@, at[r], value)],
           phase' = [phase EXCEPT ![r] = next],
           UNCHANGED <<ask, flags, at, access, ever, cache, since>>
    PROVE  EntitledInv'
<1>1. PICK stage \in Stages : stage = at[r]
  OBVIOUS
<1>2. DueOf(r) /\ PassedOf(r)
  BY DEF EntitledInv
<1>3. /\ \A q \in Requests \ {r} : phase'[q] = phase[q] /\ held'[q] = held[q]
      /\ held'[r] = Having(held[r], stage, value) /\ phase'[r] = next
  BY <1>1 DEF HeldInv
<1>4. /\ DOMAIN held'[r] = DOMAIN held[r] \cup {stage} /\ held'[r][stage] = value
      /\ \A s \in DOMAIN held[r] : s # stage => held'[r][s] = held[r][s]
  BY <1>3 DEF Having
<1>5. \A s \in DOMAIN held'[r] : Due(r, s, held'[r][s])
  BY <1>1, <1>2, <1>4 DEF DueOf
<1>6. \A s \in DOMAIN held'[r] : Due(r, s, held[r][s])'
  <2> TAKE s \in DOMAIN held'[r]
  <2>1. PICK had : had = held'[r][s]
    OBVIOUS
  <2>2. Due(r, s, had)'
    BY <1>5, <2>1, DueStays DEF Grows
  <2>3. QED  BY <2>1, <2>2 DEF Due
<1>7. User(r)' = User(r)
  BY DEF User
<1>8. DueOf(r)'
  <2>1. phase'[r] # "call" => at'[r] \in Stages /\ at'[r] \in DOMAIN held'[r]
    BY <1>1, <1>4
  <2>2. at'[r] \notin {"idle", "answered"} /\ User(r)' \in Users => access'[User(r)'] \in since'[r]
    BY <1>2, <1>7 DEF DueOf
  <2>3. "access" \in DOMAIN held'[r] /\ ~ flags'.cache => held'[r].access \in since'[r]
    BY <1>1, <1>2, <1>4 DEF DueOf
  <2>4. "cpg" \in DOMAIN held'[r] /\ ~ flags'.cache => held'[r].cpg = ask'[r].account
    BY <1>1, <1>2, <1>4 DEF DueOf
  <2>5. "agency" \in DOMAIN held'[r] => at'[r] = "agency"
    BY <1>1, <1>2, <1>4 DEF DueOf
  <2>6. at'[r] = "agency" => held'[r].access = held[r].access
    BY <1>1, <1>2, <1>4 DEF PassedOf, PastAccess, PastMe, Stages
  <2>7. at'[r] = "agency" => held'[r].access.agency # None
    BY <1>2, <2>6 DEF DueOf
  <2>8. "agency" \in DOMAIN held'[r] /\ ~ flags'.cache => held'[r].agency = held'[r].access.agency
    BY <1>1, <1>2, <1>4, <2>5, <2>6 DEF DueOf
  <2>9. QED  BY <1>6, <2>1, <2>2, <2>3, <2>4, <2>5, <2>7, <2>8 DEF DueOf
<1>9. PassedOf(r)'
  <2>1. at'[r] \in PastMe => "me" \in DOMAIN held'[r] /\ held'[r].me = held[r].me
    BY <1>1, <1>2, <1>4 DEF PassedOf, PastMe, Counting, Stages
  <2>2. at'[r] \in PastMe => OwnProfile(r)'
    BY <1>2, <1>7, <2>1 DEF PassedOf, OwnProfile, Consumer
  <2>3. at'[r] \in PastAccess => "access" \in DOMAIN held'[r] /\ held'[r].access = held[r].access
    BY <1>1, <1>2, <1>4 DEF PassedOf, PastAccess, PastMe, Counting, Stages
  <2>4. at'[r] \in {"cpg", "agency", "search"} =>
            Required \subseteq RolesOf[User(r)'] /\ Allowed(held'[r].access, ask'[r].account)
    BY <1>2, <1>7, <2>3 DEF PassedOf, PastAccess, PastMe, Stages
  <2>5. QED  BY <2>1, <2>2, <2>3, <2>4 DEF PassedOf
<1>10. CacheInv'
  BY CacheStays DEF EntitledInv, Grows
<1>11. QED  BY <1>3, <1>8, <1>9, <1>10, OneRequest
-----------------------------------------------------------------------------
(* The steps of the path.                                                  *)
LEMMA LookIsEntitled ==
    ASSUME HeldInv, EntitledInv, NEW r \in Requests, Look(r)
    PROVE  EntitledInv'
<1>1. PICK value : value = cache[CacheKey(r, at[r])]
  OBVIOUS
<1>2. /\ at[r] \in Stages /\ CacheKey(r, at[r]) \in DOMAIN cache /\ Kept(at[r])
      /\ held' = [held EXCEPT ![r] = Having(@, at[r], value)] /\ phase' = [phase EXCEPT ![r] = "use"]
      /\ UNCHANGED <<ask, flags, at, access, ever, cache, since>>
  BY <1>1 DEF Look, rateVars
<1>3. Due(r, at[r], value)
  BY <1>1, <1>2 DEF EntitledInv, CacheInv
<1>4. ~ flags.cache => at[r] = "roles"
  BY <1>2 DEF Kept
<1>5. QED  BY <1>2, <1>3, <1>4, AddedIsEntitled

(* A token that is no user's gets nowhere.                                 *)
LEMMA RefusalEnds ==
    ASSUME NEW stage \in Stages
    PROVE  OutcomeOf(stage, Refusal) # Returned
<1>1. ~ Fine(stage, Refusal)
  BY DEF Fine, Refusal, Well, Reply, IsSuccess
<1>2. QED  BY <1>1, OutcomesAreSafe

LEMMA AskIsEntitled ==
    ASSUME Shape, HeldInv, EntitledInv, NEW r \in Requests, Ask(r)
    PROVE  EntitledInv'
<1>1. at[r] \in Stages /\ UNCHANGED <<ask, flags, access, ever, cache>>
  BY DEF Ask, rest
<1>2. PICK reply \in Given(r), whose \in Users \cup {None} :
          LET mixed == whose # None
              outcome == OutcomeOf(at[r], reply)
              again == TokenRetried(r, outcome)
          IN  /\ mixed => at[r] = "me" /\ reply = Well
              /\ CASE again -> UNCHANGED <<at, phase, held, since>>
                   [] ~ again /\ outcome = Returned ->
                        /\ held' = [held EXCEPT ![r] =
                                Having(@, at[r], IF mixed THEN Profile[whose] ELSE Worth(r, at[r]))]
                        /\ phase' = [phase EXCEPT ![r] = IF Kept(at[r]) THEN "keep" ELSE "use"]
                        /\ UNCHANGED <<at, since>>
                   [] OTHER -> Raises(r, outcome) /\ Cleared(r)
  BY DEF Ask
<1> DEFINE outcome == OutcomeOf(at[r], reply)
           again == TokenRetried(r, outcome)
<1>3. CASE again
  <2>1. UNCHANGED <<at, phase, held, since>>
    BY <1>2, <1>3
  <2>2. CacheInv' /\ DueOf(r)' /\ PassedOf(r)'
    BY <1>1, <2>1, CacheStays, OthersKeep DEF EntitledInv, Grows
  <2>3. QED  BY <1>1, <2>1, <2>2, OneRequest
<1>4. CASE ~ again /\ outcome = Returned
  <2>1. PICK value : value = IF whose # None THEN Profile[whose] ELSE Worth(r, at[r])
    OBVIOUS
  <2>2. PICK next : next = IF Kept(at[r]) THEN "keep" ELSE "use"
    OBVIOUS
  <2>3. /\ held' = [held EXCEPT ![r] = Having(@, at[r], value)]
        /\ phase' = [phase EXCEPT ![r] = next] /\ UNCHANGED <<at, since>>
    BY <1>2, <1>4, <2>1, <2>2
  <2>4. User(r) \in Users
    BY <1>1, <1>2, <1>4, RefusalEnds DEF Given
  <2>5. /\ access[User(r)] \in ever[User(r)] /\ access[User(r)] \in since[r]
        /\ at[r] = "agency" => held[r].access.agency # None /\ held[r].access \in ever[User(r)]
    <3>1. DueOf(r) /\ PassedOf(r) /\ Remembered(User(r))
      BY <2>4 DEF EntitledInv, AccessInv
    <3>2. at[r] = "agency" => held[r].access \in ever[User(r)]
      BY <3>1 DEF DueOf, PassedOf, PastAccess, PastMe, Stages, Due
    <3>3. QED  BY <1>1, <2>4, <3>1, <3>2 DEF DueOf, Remembered, Stages
  <2>6. /\ at[r] = "me" => \E u \in Users : value = Profile[u]
        /\ at[r] = "access" => value = access[User(r)]
        /\ at[r] = "roles" => value = RolesOf[User(r)]
        /\ at[r] = "cpg" => value = ask[r].account
        /\ at[r] = "agency" => value = held[r].access.agency
    <3>1. CASE whose # None
      BY <1>2, <2>1, <3>1
    <3>2. CASE whose = None
      BY <2>1, <2>4, <3>2 DEF Worth
    <3>3. QED  BY <3>1, <3>2
  <2>7. at[r] = "agency" => AccessBefore[User(r)].agency # None
    BY <2>4, <2>5 DEF EntitledInv, AccessInv, Remembered
  <2>8. Due(r, at[r], value)
    BY <2>4, <2>5, <2>6, <2>7 DEF Due
  <2>9. QED  BY <1>1, <2>3, <2>5, <2>6, <2>8, AddedIsEntitled
<1>5. CASE ~ again /\ outcome # Returned
  <2>1. Raises(r, outcome) /\ Cleared(r)
    BY <1>2, <1>5
  <2>2. reply \in Replies \cup {Refusal}
    BY DEF Given
  <2>3. Answered(r, outcome)
    BY <1>1, <2>1, <2>2, OutcomesAreSafe, SafeIsAnswered
  <2>4. at'[r] = "answered" /\ \A q \in Requests \ {r} : at'[q] = at[q]
    BY <2>3 DEF Answered, Goto, Shape
  <2>5. QED  BY <1>1, <2>1, <2>4, ClearedIsEntitled
<1>6. QED  BY <1>3, <1>4, <1>5

(* What is kept is due to everyone with its key.                           *)
LEMMA KeepIsEntitled ==
    ASSUME HeldInv, EntitledInv, NEW r \in Requests, Keep(r)
    PROVE  EntitledInv'
<1>1. PICK stage, value : stage = at[r] /\ value = held[r][stage]
  OBVIOUS
<1>2. /\ phase[r] = "keep" /\ cache' = Having(cache, CacheKey(r, stage), value)
      /\ phase' = [phase EXCEPT ![r] = "use"]
      /\ UNCHANGED <<ask, flags, at, access, held, ever, since>>
  BY <1>1 DEF Keep, rateVars
<1>3. DueOf(r) /\ PassedOf(r) /\ Grows
  BY <1>2 DEF EntitledInv, Grows
<1>4. stage \in Stages /\ Due(r, stage, value)
  BY <1>1, <1>2, <1>3 DEF DueOf
<1>5. CacheInv'
  <2>1. SUFFICES ASSUME NEW q \in Requests, NEW other \in Stages, CacheKey(q, other)' \in DOMAIN cache'
                 PROVE  Due(q, other, cache[CacheKey(q, other)])'
    BY DEF CacheInv
  <2>2. PICK key : key = CacheKey(q, other)
    OBVIOUS
  <2>3. PICK had : had = cache'[key]
    OBVIOUS
  <2>4. CacheKey(q, other)' = key
    BY <1>2, <2>2 DEF CacheKey, User
  <2>5. Due(q, other, had)
    <3>1. CASE key = CacheKey(r, stage)
      <4>1. had = value
        BY <1>2, <2>3, <3>1 DEF Having
      <4>2. QED  BY <1>4, <2>2, <3>1, <4>1, OneKeyOneOwner
    <3>2. CASE key # CacheKey(r, stage)
      <4>1. key \in DOMAIN cache /\ had = cache[key]
        BY <1>2, <2>1, <2>3, <2>4, <3>2 DEF Having
      <4>2. QED  BY <2>2, <4>1 DEF EntitledInv, CacheInv
    <3>3. QED  BY <3>1, <3>2
  <2>6. Due(q, other, had)'
    BY <1>2, <1>3, <2>5, DueStays
  <2>7. QED  BY <2>3, <2>4, <2>6 DEF Due
<1>6. \A q \in Requests \ {r} : phase'[q] = phase[q]
  BY <1>2 DEF HeldInv
<1>7. \A s \in DOMAIN held[r] : Due(r, s, held[r][s])'
  <2> TAKE s \in DOMAIN held[r]
  <2>1. PICK had : had = held[r][s]
    OBVIOUS
  <2>2. Due(r, s, had)'
    BY <1>2, <1>3, <2>1, DueStays DEF DueOf
  <2>3. QED  BY <1>2, <2>1, <2>2 DEF Due
<1>8. DueOf(r)'
  BY <1>2, <1>3, <1>7 DEF DueOf, User
<1>9. PassedOf(r)'
  BY <1>2, <1>3 DEF PassedOf, OwnProfile, Consumer, User
<1>10. QED  BY <1>2, <1>5, <1>6, <1>8, <1>9, OneRequest

(* A request goes on when the next stage is one it may be at.              *)
LEMMA GoOnIsEntitled ==
    ASSUME Shape, HeldInv, EntitledInv, NEW r \in Requests, at[r] \in Stages \ {"agency"},
           NEW next \in AtValues \ {"idle", "answered"}, GoOn(r, next), UNCHANGED <<ask, flags>>,
           next \in PastMe => "me" \in DOMAIN held[r] /\ OwnProfile(r),
           next \in PastAccess => "access" \in DOMAIN held[r],
           next \in {"cpg", "agency", "search"} =>
               Required \subseteq RolesOf[User(r)] /\ Allowed(held[r].access, ask[r].account),
           next = "agency" => held[r].access.agency # None
    PROVE  EntitledInv'
<1>1. /\ at' = [at EXCEPT ![r] = next] /\ phase' = [phase EXCEPT ![r] = "call"]
      /\ UNCHANGED <<access, cache, held, ever, since>>
  BY DEF GoOn, Stage, Goto
<1>2. /\ at'[r] = next /\ phase'[r] = "call"
      /\ \A q \in Requests \ {r} : at'[q] = at[q] /\ phase'[q] = phase[q]
  BY <1>1 DEF Shape, HeldInv
<1>3. DueOf(r) /\ Grows
  BY <1>1 DEF EntitledInv, Grows
<1>4. \A stage \in DOMAIN held[r] : Due(r, stage, held[r][stage])'
  <2> TAKE stage \in DOMAIN held[r]
  <2>1. PICK value : value = held[r][stage]
    OBVIOUS
  <2>2. Due(r, stage, value)'
    BY <1>3, <2>1, DueStays DEF DueOf
  <2>3. QED  BY <1>1, <2>1, <2>2 DEF Due
<1>5. at[r] \notin {"idle", "answered"} /\ "agency" \notin DOMAIN held[r]
  BY <1>3 DEF DueOf, Stages
<1>6. DueOf(r)'
  BY <1>1, <1>2, <1>3, <1>4, <1>5 DEF DueOf, User
<1>7. PassedOf(r)'
  BY <1>1, <1>2 DEF PassedOf, OwnProfile, Consumer, User
<1>8. CacheInv'
  BY <1>1, <1>3, CacheStays DEF EntitledInv
<1>9. QED  BY <1>1, <1>2, <1>6, <1>7, <1>8, OneRequest

LEMMA BeginIsEntitled ==
    ASSUME Shape, HeldInv, EntitledInv, NEW r \in Requests, Begin(r)
    PROVE  EntitledInv'
<1>1. at[r] = "idle" /\ UNCHANGED rest
  BY DEF Begin
<1>2. CASE ask[r].header = "none"
  BY <1>1, <1>2, KnownOutcomes, EndIsEntitled DEF Begin
<1>3. CASE ask[r].header # "none"
  <2>1. /\ at' = [at EXCEPT ![r] = "me"] /\ phase' = [phase EXCEPT ![r] = "call"]
        /\ since' = [since EXCEPT ![r] = IF User(r) \in Users THEN {access[User(r)]} ELSE {}]
        /\ UNCHANGED <<ask, flags, access, cache, held, ever>>
    BY <1>1, <1>3 DEF Begin, Stage, Goto, rest
  <2>2. /\ at'[r] = "me" /\ phase'[r] = "call" /\ held'[r] = Nothing
        /\ User(r) \in Users => access[User(r)] \in since'[r]
        /\ \A q \in Requests \ {r} : at'[q] = at[q] /\ phase'[q] = phase[q] /\ since'[q] = since[q]
    BY <1>1, <2>1 DEF Shape, HeldInv, HeldOf
  <2>3. DueOf(r)'
    BY <2>1, <2>2, NothingIsEmpty DEF DueOf, User
  <2>4. PassedOf(r)'
    BY <2>2 DEF PassedOf, PastMe, PastAccess, Counting, Stages
  <2>5. CacheInv'
    BY <2>1, CacheStays DEF EntitledInv, Grows
  <2>6. QED  BY <2>1, <2>2, <2>3, <2>4, <2>5, OneRequest
<1>4. QED  BY <1>2, <1>3

(* __user_identity_check, and the API consumers who are spared it, leave   *)
(* a profile that will do.                                                 *)
LEMMA CheckedProfileWillDo ==
    ASSUME NEW r, Due(r, "me", held[r].me),
           Consumer(held[r].me) \/ IdentityCheck(r, held[r].me) = Returned
    PROVE  OwnProfile(r)
<1>1. PICK u \in Users : held[r].me = Profile[u]
  BY DEF Due
<1>2. User(r) \in Users
  BY DEF Due
<1> DEFINE names == {ParsedUsername(ask[r].token), held[r].me.name, User(r)}
<1>3. CASE Consumer(held[r].me) \/ ~ flags.identity
  BY <1>2, <1>3 DEF OwnProfile
<1>4. CASE IdentityCheck(r, held[r].me) = Returned /\ flags.identity
  <2>1. InternalUser(names) \/ names = {held[r].me.name}
    BY <1>4 DEF IdentityCheck, Returned, Http
  <2>2. CASE InternalUser(names)
    BY <1>2, <2>2 DEF InternalUser, OwnProfile
  <2>3. CASE names = {held[r].me.name}
    <3>1. Profile[u].name = User(r)
      BY <1>1, <2>3
    <3>2. u = User(r)
      BY <1>2, <3>1, UsersAssumption DEF UsersAssumption
    <3>3. QED  BY <1>1, <1>2, <3>2 DEF OwnProfile
  <2>4. QED  BY <2>1, <2>2, <2>3
<1>5. QED  BY <1>3, <1>4

LEMMA UseMeIsEntitled ==
    ASSUME Shape, HeldInv, EntitledInv, NEW r \in Requests, UseMe(r)
    PROVE  EntitledInv'
<1> DEFINE me == held[r].me
           checked == IF Consumer(me) THEN Returned ELSE IdentityCheck(r, me)
<1>1. at[r] = "me" /\ phase[r] = "use" /\ UNCHANGED rest
  BY DEF UseMe, Using
<1>2. "me" \in DOMAIN held[r] /\ Due(r, "me", me)
  BY <1>1 DEF EntitledInv, DueOf
<1>3. CASE checked # Returned
  <2>1. Safe(checked) /\ End(r, checked)
    BY <1>3, Checks, KnownOutcomes DEF UseMe
  <2>2. QED  BY <1>1, <2>1, EndIsEntitled
<1>4. CASE checked = Returned /\ GoOn(r, "access")
  <2>1. Consumer(me) \/ IdentityCheck(r, me) = Returned
    BY <1>4
  <2>2. OwnProfile(r)
    BY <1>2, <2>1, CheckedProfileWillDo
  <2>3. /\ at[r] \in Stages \ {"agency"} /\ "access" \in AtValues \ {"idle", "answered"}
        /\ "access" \notin PastAccess /\ UNCHANGED <<ask, flags>>
    BY <1>1 DEF Stages, AtValues, PastAccess, rest
  <2>4. QED  BY <1>2, <1>4, <2>2, <2>3, GoOnIsEntitled
<1>5. CASE End(r, Http(401))
  BY <1>1, <1>5, KnownOutcomes, EndIsEntitled
<1>6. QED  BY <1>3, <1>4, <1>5 DEF UseMe

LEMMA UseAccessIsEntitled ==
    ASSUME Shape, HeldInv, EntitledInv, NEW r \in Requests, UseAccess(r)
    PROVE  EntitledInv'
<1> DEFINE me == held[r].me
           checked == IF Consumer(me) THEN Returned ELSE IdentityCheck(r, me)
           next == IF Limited(r) THEN "get" ELSE "roles"
<1>1. at[r] = "access" /\ phase[r] = "use" /\ UNCHANGED rest
  BY DEF UseAccess, Using
<1>2. {"me", "access"} \subseteq DOMAIN held[r] /\ OwnProfile(r)
  BY <1>1 DEF EntitledInv, DueOf, PassedOf, PastMe, Stages
<1>3. CASE checked # Returned
  <2>1. Safe(checked) /\ End(r, checked)
    BY <1>3, Checks, KnownOutcomes DEF UseAccess
  <2>2. QED  BY <1>1, <2>1, EndIsEntitled
<1>4. CASE GoOn(r, next)
  <2>1. /\ at[r] \in Stages \ {"agency"} /\ next \in AtValues \ {"idle", "answered"}
        /\ next \notin {"cpg", "agency", "search"} /\ UNCHANGED <<ask, flags>>
    BY <1>1 DEF Stages, AtValues, Counting, rest
  <2> HIDE DEF next
  <2>2. QED  BY <1>2, <1>4, <2>1, GoOnIsEntitled
<1>5. CASE End(r, Raise("RequestValidationError"))
  BY <1>1, <1>5, KnownOutcomes, EndIsEntitled
<1>6. QED  BY <1>3, <1>4, <1>5 DEF UseAccess

LEMMA UseRolesIsEntitled ==
    ASSUME Shape, HeldInv, EntitledInv, NEW r \in Requests, UseRoles(r)
    PROVE  EntitledInv'
<1> DEFINE next == IF Limited(r) THEN "search" ELSE "cpg"
<1>1. at[r] = "roles" /\ phase[r] = "use" /\ UNCHANGED rest
  BY DEF UseRoles, Using
<1>2. /\ {"me", "access", "roles"} \subseteq DOMAIN held[r] /\ OwnProfile(r)
      /\ held[r].roles = RolesOf[User(r)]
  BY <1>1 DEF EntitledInv, DueOf, Due, PassedOf, PastMe, PastAccess, Stages
<1>3. CASE /\ Required \subseteq held[r].roles /\ Allowed(held[r].access, ask[r].account)
           /\ GoOn(r, next)
  <2>1. /\ at[r] \in Stages \ {"agency"} /\ next \in AtValues \ {"idle", "answered"}
        /\ next # "agency" /\ UNCHANGED <<ask, flags>>
    BY <1>1 DEF Stages, AtValues, rest
  <2> HIDE DEF next
  <2>2. QED  BY <1>2, <1>3, <2>1, GoOnIsEntitled
<1>4. CASE End(r, Http(403))
  BY <1>1, <1>4, KnownOutcomes, EndIsEntitled
<1>5. QED  BY <1>3, <1>4 DEF UseRoles

LEMMA UseListIsEntitled ==
    ASSUME Shape, HeldInv, EntitledInv, NEW r \in Requests, UseList(r)
    PROVE  EntitledInv'
<1>1. at[r] = "cpg" /\ phase[r] = "use" /\ UNCHANGED rest
  BY DEF UseList, Using
<1>2. CASE held[r].access.agency # None /\ GoOn(r, "agency")
  <2>1. /\ {"me", "access"} \subseteq DOMAIN held[r] /\ OwnProfile(r)
        /\ Required \subseteq RolesOf[User(r)] /\ Allowed(held[r].access, ask[r].account)
    BY <1>1 DEF EntitledInv, PassedOf, PastMe, PastAccess, Stages
  <2>2. /\ at[r] \in Stages \ {"agency"} /\ "agency" \in AtValues \ {"idle", "answered"}
        /\ UNCHANGED <<ask, flags>>
    BY <1>1 DEF Stages, AtValues, rest
  <2>3. QED  BY <1>2, <2>1, <2>2, GoOnIsEntitled
<1>3. CASE End(r, Returned)
  BY <1>1, <1>3, KnownOutcomes, EndIsEntitled
<1>4. QED  BY <1>2, <1>3 DEF UseList

LEMMA UseTokenIsEntitled ==
    ASSUME Shape, HeldInv, EntitledInv, NEW r \in Requests, UseToken(r)
    PROVE  EntitledInv'
<1>1. at[r] = "token" /\ UNCHANGED rest /\ GoOn(r, "post")
  BY DEF UseToken, Using
<1>2. {"me", "access"} \subseteq DOMAIN held[r] /\ OwnProfile(r)
  BY <1>1 DEF EntitledInv, PassedOf, PastMe, PastAccess, Stages
<1>3. /\ at[r] \in Stages \ {"agency"} /\ "post" \in AtValues \ {"idle", "answered"}
      /\ UNCHANGED <<ask, flags>>
  BY <1>1 DEF Stages, AtValues, rest
<1>4. QED  BY <1>1, <1>2, <1>3, GoOnIsEntitled

LEMMA PathIsEntitled ==
    ASSUME Shape, HeldInv, EntitledInv, NEW r \in Requests, PathStep(r)
    PROVE  EntitledInv'
<1>1. ASSUME KeyFails(r)
      PROVE  EntitledInv'
  BY <1>1, KnownOutcomes, EndIsEntitled DEF KeyFails
<1>2. ASSUME UseAgencyList(r) \/ UseReport(r) \/ UseCampaigns(r)
      PROVE  EntitledInv'
  BY <1>2, KnownOutcomes, EndIsEntitled DEF UseAgencyList, UseReport, UseCampaigns, Using
<1>3. QED
  BY <1>1, <1>2, BeginIsEntitled, LookIsEntitled, AskIsEntitled, KeepIsEntitled, UseMeIsEntitled,
     UseAccessIsEntitled, UseRolesIsEntitled, UseListIsEntitled, UseTokenIsEntitled DEF PathStep
-----------------------------------------------------------------------------
(* A step of the limit leads to the next one, to the handler or out.       *)
LEMMA LimitGoesTo ==
    ASSUME Shape, NEW r \in Requests, Limiting(r)
    PROVE  /\ UNCHANGED flags
           /\ at'[r] \in Counting \cup {"paused", "token", "roles", "answered"}
<1> USE DEF Counting, Shape, Goto
<1>1. CASE Unlimited(r)
  BY <1>1 DEF Unlimited, Entered
<1>2. CASE LimitGet(r)
  BY <1>2 DEF LimitGet
<1>3. CASE LimitOpen(r)
  BY <1>3 DEF LimitOpen
<1>4. CASE LimitTtl(r)
  BY <1>4 DEF LimitTtl, AfterTtl
<1>5. CASE LimitRepair(r)
  BY <1>5 DEF LimitRepair
<1>6. CASE LimitTrim(r)
  BY <1>6 DEF LimitTrim
<1>7. CASE LimitPass(r)
  BY <1>7 DEF LimitPass, Entered
<1>8. CASE LimitRefuse(r)
  BY <1>8, RaisedEffect DEF LimitRefuse, Answered
<1>9. CASE Again(r)
  BY <1>9 DEF Again
<1>10. CASE LimitFails(r)
  BY <1>10, RaisedEffect DEF LimitFails, Answered
<1>11. QED  BY <1>1, <1>2, <1>3, <1>4, <1>5, <1>6, <1>7, <1>8, <1>9, <1>10 DEF Limiting

LEMMA LimitIsEntitled ==
    ASSUME Shape, HeldInv, EntitledInv, NEW r \in Requests, LimitStep(r)
    PROVE  EntitledInv'
<1>1. /\ at[r] \in Counting \cup {"paused"}
      /\ at'[r] \in Counting \cup {"paused", "token", "roles", "answered"}
      /\ \A q \in Requests \ {r} : at'[q] = at[q]
      /\ UNCHANGED <<ask, flags, access, cache, ever>>
  BY LimitTouchesOne, LimitGoesTo DEF LimitStep
<1>2. CASE at'[r] = "answered"
  BY <1>1, <1>2, ClearedIsEntitled DEF LimitStep
<1>3. CASE at'[r] # "answered"
  <2>1. UNCHANGED <<phase, held, since>>
    BY <1>3 DEF LimitStep
  <2>2. DueOf(r) /\ PassedOf(r) /\ Grows
    BY <1>1 DEF EntitledInv, Grows
  <2>3. phase[r] = "call" /\ "agency" \notin DOMAIN held[r]
    BY <1>1, <2>2 DEF DueOf, Counting, Stages
  <2>4. \A stage \in DOMAIN held[r] : Due(r, stage, held[r][stage])'
    <3> TAKE stage \in DOMAIN held[r]
    <3>1. PICK value : value = held[r][stage]
      OBVIOUS
    <3>2. Due(r, stage, value)'
      BY <1>1, <2>2, <3>1, DueStays DEF DueOf
    <3>3. QED  BY <2>1, <3>1, <3>2 DEF Due
  <2>5. at[r] \notin {"idle", "answered"} /\ at'[r] # "agency"
    BY <1>1 DEF Counting
  <2>6. DueOf(r)'
    BY <1>1, <2>1, <2>2, <2>3, <2>4, <2>5 DEF DueOf, User
  <2>7. at[r] \in PastMe /\ at[r] \in PastAccess /\ at'[r] \notin {"cpg", "agency", "search"}
    BY <1>1 DEF PastMe, PastAccess, Counting
  <2>8. PassedOf(r)'
    BY <1>1, <2>1, <2>2, <2>7 DEF PassedOf, OwnProfile, Consumer, User
  <2>9. CacheInv'
    BY <1>1, <2>2, CacheStays DEF EntitledInv
  <2>10. QED  BY <1>1, <2>1, <2>6, <2>8, <2>9, OneRequest
<1>4. QED  BY <1>2, <1>3

(* A user who loses the accounts they had keeps the rest, and all who are  *)
(* under way for them have had both.                                       *)
LEMMA RevokeIsEntitled ==
    ASSUME Shape, HeldInv, EntitledInv, NEW u \in Revocable, Revoke(u)
    PROVE  EntitledInv'
<1>0. u \in Users
  BY UsersAssumption DEF UsersAssumption
<1>1. PICK less : less = [access[u] EXCEPT !.accounts = {}]
  OBVIOUS
<1>2. /\ access' = [access EXCEPT ![u] = less] /\ ever' = [ever EXCEPT ![u] = @ \cup {less}]
      /\ UNCHANGED <<ask, flags, at, cache, phase, held>>
  <2>1. access' = [access EXCEPT ![u] = less]
    BY <1>1 DEF Revoke
  <2>2. access'[u] = less
    BY <1>0, <2>1 DEF EntitledInv, AccessInv
  <2>3. QED  BY <2>1, <2>2 DEF Revoke, rateVars
<1>3. AccessInv
  BY DEF EntitledInv
<1>4. DOMAIN less = {"internal", "agency", "accounts"} /\ less.agency = access[u].agency
  BY <1>0, <1>1, <1>3 DEF AccessInv, Remembered
<1>5. less.agency = AccessBefore[u].agency
  BY <1>0, <1>3, <1>4 DEF AccessInv, Remembered
<1>6. AccessInv'
  <2>1. DOMAIN access' = Users /\ DOMAIN ever' = Users
    BY <1>2, <1>3 DEF AccessInv
  <2>2. Remembered(u)'
    BY <1>0, <1>2, <1>3, <1>4, <1>5 DEF AccessInv, Remembered
  <2>3. \A v \in Users \ {u} : Remembered(v)'
    BY <1>2, <1>3 DEF AccessInv, Remembered
  <2>4. QED  BY <2>1, <2>2, <2>3 DEF AccessInv
<1>7. Grows
  BY <1>0, <1>2, <1>3 DEF Grows, AccessInv
<1>8. CacheInv'
  BY <1>2, <1>7, CacheStays DEF EntitledInv
<1>9. ASSUME NEW r \in Requests
      PROVE  DueOf(r)' /\ PassedOf(r)'
  <2>1. DueOf(r) /\ PassedOf(r) /\ User(r)' = User(r)
    BY <1>2 DEF EntitledInv, User
  <2>2. since[r] \subseteq since'[r]
    BY DEF Revoke
  <2>3. since[r] # {} /\ User(r) = u => less \in since'[r]
    BY <1>0, <1>2, <1>3 DEF Revoke, AccessInv
  <2>4. at[r] \notin {"idle", "answered"} /\ User(r) \in Users => access'[User(r)] \in since'[r]
    <3>1. CASE User(r) = u
      BY <1>0, <1>2, <1>3, <2>1, <2>3, <3>1 DEF DueOf, AccessInv
    <3>2. CASE User(r) # u
      BY <1>2, <1>3, <2>1, <2>2, <3>2 DEF DueOf, AccessInv
    <3>3. QED  BY <3>1, <3>2
  <2>5. \A stage \in DOMAIN held[r] : Due(r, stage, held[r][stage])'
    <3> TAKE stage \in DOMAIN held[r]
    <3>1. PICK value : value = held[r][stage]
      OBVIOUS
    <3>2. Due(r, stage, value)'
      BY <1>2, <1>7, <2>1, <3>1, DueStays DEF DueOf
    <3>3. QED  BY <1>2, <3>1, <3>2 DEF Due
  <2>6. DueOf(r)'
    BY <1>2, <2>1, <2>2, <2>4, <2>5 DEF DueOf
  <2>7. PassedOf(r)'
    BY <1>2, <2>1 DEF PassedOf, OwnProfile, Consumer
  <2>8. QED  BY <2>6, <2>7
<1>10. QED  BY <1>6, <1>8, <1>9 DEF EntitledInv

LEMMA NothingElseChanges ==
    ASSUME EntitledInv, UNCHANGED <<ask, flags, at, phase, held, since, access, cache, ever>>
    PROVE  EntitledInv'
<1>1. Grows
  BY DEF Grows
<1>2. CacheInv' /\ AccessInv'
  BY <1>1, CacheStays DEF EntitledInv, AccessInv, Remembered
<1>3. \A r \in Requests : DueOf(r)' /\ PassedOf(r)'
  BY <1>1, OthersKeep DEF EntitledInv
<1>4. QED  BY <1>2, <1>3 DEF EntitledInv

LEMMA InitialEntitled == Init => EntitledInv
<1> SUFFICES ASSUME Init
             PROVE  EntitledInv
  OBVIOUS
<1>1. PICK mix \in Mixes :
          /\ ask = mix.ask
          /\ at = [r \in Requests |-> IF ask[r].kind = "none" THEN "answered"
                                    ELSE IF r \in mix.waiting THEN "get" ELSE "idle"]
  BY DEF Init
<1>2. /\ access = AccessBefore /\ cache = Nothing /\ phase = [r \in Requests |-> "call"]
      /\ held = [r \in Requests |-> IF at[r] = "get"
                                    THEN [me |-> Profile[User(r)], access |-> AccessBefore[User(r)]]
                                    ELSE Nothing]
      /\ since = [r \in Requests |-> IF at[r] = "get" THEN {AccessBefore[User(r)]} ELSE {}]
      /\ ever = [u \in Users |-> {AccessBefore[u]}]
  BY DEF Init
<1>3. CacheInv
  BY <1>2, NothingIsEmpty DEF CacheInv
<1>4. AccessInv
  BY <1>2, UsersAssumption DEF AccessInv, Remembered, UsersAssumption
<1>5. ASSUME NEW r \in Requests
      PROVE  DueOf(r) /\ PassedOf(r)
  <2>1. CASE at[r] = "get"
    <3>1. User(r) \in Users
      BY <1>1, <2>1, MixesAssumption DEF MixesAssumption, User
    <3>2. /\ held[r] = [me |-> Profile[User(r)], access |-> AccessBefore[User(r)]]
          /\ since[r] = {AccessBefore[User(r)]} /\ phase[r] = "call"
      BY <1>2, <2>1
    <3>3. /\ DOMAIN held[r] = {"me", "access"}
          /\ held[r].me = Profile[User(r)] /\ held[r].access = AccessBefore[User(r)]
      BY <3>2
    <3>4. DueOf(r)
      BY <1>2, <2>1, <3>1, <3>2, <3>3 DEF DueOf, Due
    <3>5. PassedOf(r)
      BY <2>1, <3>1, <3>3 DEF PassedOf, OwnProfile
    <3>6. QED  BY <3>4, <3>5
  <2>2. CASE at[r] # "get"
    <3>1. at[r] \in {"idle", "answered"} /\ held[r] = Nothing /\ phase[r] = "call"
      BY <1>1, <1>2, <2>2
    <3>2. DueOf(r)
      BY <3>1, NothingIsEmpty DEF DueOf
    <3>3. PassedOf(r)
      BY <3>1 DEF PassedOf, PastMe, PastAccess, Counting, Stages
    <3>4. QED  BY <3>2, <3>3
  <2>3. QED  BY <2>1, <2>2
<1>6. QED  BY <1>3, <1>4, <1>5 DEF EntitledInv

LEMMA StepsAreEntitled == RequestInv /\ EntitledInv /\ [Next]_vars => EntitledInv'
<1> SUFFICES ASSUME RequestInv, EntitledInv, [Next]_vars
             PROVE  EntitledInv'
  OBVIOUS
<1>1. Shape /\ HeldInv
  BY DEF RequestInv
<1>2. CASE \E r \in Requests : LimitStep(r) \/ PathStep(r)
  BY <1>1, <1>2, LimitIsEntitled, PathIsEntitled
<1>3. CASE \E u \in Revocable : Revoke(u)
  BY <1>1, <1>3, RevokeIsEntitled
<1>4. CASE TimePasses \/ UNCHANGED vars
  BY <1>4, NothingElseChanges DEF TimePasses, Tick, vars, rateVars, pathVars
<1>5. QED  BY <1>2, <1>3, <1>4 DEF Next

(* Every answer a request has, and every one in the cache, is due to its   *)
(* user.                                                                   *)
THEOREM EveryoneHasTheirOwn == Spec => []EntitledInv
<1>1. QED  BY RequestsInvariant, InitialEntitled, StepsAreEntitled, PTL DEF Spec

(* For any requests, users, flags, faults and revocations: a request past  *)
(* validate_user is of the user of its token, by a profile that will do,   *)
(* with rights and roles this user has had, and, agencies with the cache   *)
(* apart, with the lists of its own account.                               *)
(* [jwt.py:149, key_builders.py:171, requires_all_roles.py:39]             *)
THEOREM OnlyTheEntitled == Spec => []EntitledOnly
<1>1. EntitledInv => EntitledOnly
  <2> SUFFICES ASSUME EntitledInv, NEW r \in Requests, at[r] \in PastAccess
               PROVE  OwnProfile(r) /\ OwnRights(r) /\ OwnLists(r)
    BY DEF EntitledOnly, PastAccess, PastMe, Counting
  <2>1. DueOf(r) /\ PassedOf(r)
    BY DEF EntitledInv
  <2>2. "access" \in DOMAIN held[r] /\ Due(r, "access", held[r].access)
    BY <2>1 DEF PassedOf, DueOf
  <2>3. OwnProfile(r)
    BY <2>1 DEF PassedOf, PastAccess
  <2>4. OwnRights(r)
    BY <2>1, <2>2 DEF PassedOf, DueOf, Due, OwnRights
  <2>5. OwnLists(r)
    <3>1. CASE ~ flags.cache
      BY <2>1, <3>1 DEF DueOf, OwnLists
    <3>2. CASE held[r].access.agency = None
      <4>1. AccessBefore[User(r)].agency = None
        BY <2>2, <3>2 DEF Due, EntitledInv, AccessInv, Remembered
      <4>2. "cpg" \in DOMAIN held[r] => held[r].cpg = ask[r].account
        BY <2>1, <4>1 DEF DueOf, Due
      <4>3. "agency" \notin DOMAIN held[r]
        BY <2>1, <3>2 DEF DueOf
      <4>4. QED  BY <4>2, <4>3 DEF OwnLists
    <3>3. QED  BY <3>1, <3>2 DEF OwnLists
  <2>6. QED  BY <2>3, <2>4, <2>5
<1>2. QED  BY <1>1, EveryoneHasTheirOwn, PTL
-----------------------------------------------------------------------------
(* What a client is told of an upstream, for every reply there is and not  *)
(* only for those of the runs.                                             *)
AnyReply == [code : Nat, json : BOOLEAN, data : BOOLEAN]

(* The codes of a reply are of one class.                                  *)
LEMMA OneClass ==
    ASSUME NEW code \in Nat
    PROVE  /\ IsSuccess(code) => ~ IsClientError(code) /\ ~ IsServerError(code)
           /\ IsClientError(code) => ~ IsServerError(code)
           /\ code = 0 => ~ IsSuccess(code) /\ ~ IsClientError(code) /\ ~ IsServerError(code)
BY DEF IsSuccess, IsClientError, IsServerError

(* A client that reads JSON is told 200 for a body with all that is needed *)
(* and nothing else, the refusals of the upstream as they are, 503 for its *)
(* own trouble and for a body that lacks something, 504 when there was no  *)
(* reply and 500 for a redirect: never a code of the upstream from 500 on. *)
(* [http_response.py:42, exceptions.py:28]                                 *)
THEOREM UpstreamRepliesAreTold ==
    ASSUME NEW reply \in AnyReply, NEW needsData \in BOOLEAN
    PROVE  LET told == RouteAnswer(HandledAnswer(reply, "json", needsData))
               whole == reply.json /\ (needsData => reply.data)
           IN  /\ told = 200 <=> IsSuccess(reply.code) /\ whole
               /\ told = 503 <=> IsServerError(reply.code) \/ (IsSuccess(reply.code) /\ ~ whole)
               /\ told = 504 <=> reply.code = 0
               /\ IsClientError(reply.code) => told = reply.code
               /\ told \in {200, 500, 503, 504} \cup 400 .. 499
<1> DEFINE outcome == HandledAnswer(reply, "json", needsData)
           whole == reply.json /\ (needsData => reply.data)
           code == reply.code
<1>1. code \in Nat /\ reply.json \in BOOLEAN /\ reply.data \in BOOLEAN
  BY DEF AnyReply
<1>2. /\ RouteAnswer(Returned) = 200
      /\ RouteAnswer(Raise("TransportError")) = 504
      /\ \A c \in Nat : RouteAnswer(Http(c)) = c
  BY DEF RouteAnswer, Returned, Raise, Http, StatusOf
<1>3. code = 0 => outcome = Raise("TransportError")
  BY DEF HandledAnswer
<1> DEFINE json == JsonAnswer(reply, needsData)
<1>4. code # 0 => outcome = json
  BY DEF HandledAnswer
<1>5. /\ IsSuccess(code) => json = IF whole THEN Returned ELSE Http(503)
      /\ IsServerError(code) => json = Http(503)
      /\ IsClientError(code) => json = Http(code)
      /\ ~ IsSuccess(code) /\ ~ IsServerError(code) /\ ~ IsClientError(code) => json = Http(500)
  <2>1. json = CASE IsSuccess(code) -> IF whole THEN Returned ELSE Http(503)
                 [] IsServerError(code) -> Http(503)
                 [] IsClientError(code) -> Http(code)
                 [] OTHER -> Http(500)
    BY DEF JsonAnswer, ServerTrouble, ClientTrouble, Unexpected
  <2> HIDE DEF json, whole
  <2>2. QED  BY ONLY <1>1, <2>1, OneClass
<1>6. PICK told : told = RouteAnswer(outcome)
  OBVIOUS
<1> HIDE DEF outcome, json
<1>7. /\ code = 0 => told = 504
      /\ code # 0 /\ IsSuccess(code) => told = IF whole THEN 200 ELSE 503
      /\ code # 0 /\ IsServerError(code) => told = 503
      /\ code # 0 /\ IsClientError(code) => told = code
      /\ code # 0 /\ ~ IsSuccess(code) /\ ~ IsServerError(code) /\ ~ IsClientError(code) => told = 500
  <2>1. code # 0 => RouteAnswer(outcome) = RouteAnswer(json)
    BY <1>4
  <2>2. IsClientError(code) => RouteAnswer(json) = code
    BY <1>1, <1>2, <1>5
  <2>3. IsServerError(code) => RouteAnswer(json) = 503
    BY <1>2, <1>5
  <2>4. IsSuccess(code) => RouteAnswer(json) = IF whole THEN 200 ELSE 503
    BY <1>2, <1>5
  <2>5. ~ IsSuccess(code) /\ ~ IsServerError(code) /\ ~ IsClientError(code) => RouteAnswer(json) = 500
    BY <1>2, <1>5
  <2>6. code = 0 => RouteAnswer(outcome) = 504
    BY <1>2, <1>3
  <2> HIDE DEF whole
  <2>7. QED  BY ONLY <1>6, <2>1, <2>2, <2>3, <2>4, <2>5, <2>6
<1>8. whole \in BOOLEAN
  BY <1>1
<1>9. /\ told = 200 <=> IsSuccess(code) /\ whole
      /\ told = 503 <=> IsServerError(code) \/ (IsSuccess(code) /\ ~ whole)
      /\ told = 504 <=> code = 0
      /\ IsClientError(code) => told = code
      /\ told \in {200, 500, 503, 504} \cup 400 .. 499
  <2> HIDE DEF whole
  <2>1. QED  BY <1>1, <1>7, <1>8 DEF IsSuccess, IsClientError, IsServerError
<1>10. QED  BY <1>6, <1>9 DEF outcome

(* The handlers of the search for campaigns stand in an order that takes a *)
(* 404 for an empty page before it is taken for an error: of every code,   *)
(* 404 is the only refusal that a client is not told.                      *)
(* [response_handler.py:27, campaign.py:52]                                *)
THEOREM SearchHandlersAreOrdered ==
    ASSUME NEW code \in Nat
    PROVE  Chosen(CampaignSearchHandler, code) =
               CASE IsSuccess(code) -> "data"
                 [] code = 404 -> "empty"
                 [] IsClientError(code) /\ code # 404 -> "client_error"
                 [] IsServerError(code) -> "server_error"
                 [] OTHER -> "unexpected"
<1> DEFINE list == CampaignSearchHandler.handlers
           fit == {i \in DOMAIN list : code \in list[i].codes}
           does == Chosen(CampaignSearchHandler, code)
<1>1. /\ DOMAIN list = 1 .. 4
      /\ list[1] = On(200 .. 299, "data") /\ list[2] = On({404}, "empty")
      /\ list[3] = On(400 .. 499, "client_error") /\ list[4] = On(500 .. 599, "server_error")
      /\ CampaignSearchHandler.default = "unexpected"
  BY SearchHandlers
<1>2. does = IF fit = {} THEN CampaignSearchHandler.default ELSE list[Min(fit)].does
  BY DEF Chosen
<1> HIDE DEF list, does
<1>3. /\ fit \subseteq 1 .. 4
      /\ 1 \in fit <=> IsSuccess(code)
      /\ 2 \in fit <=> code = 404
      /\ 3 \in fit <=> IsClientError(code)
      /\ 4 \in fit <=> IsServerError(code)
  BY <1>1 DEF On, IsSuccess, IsClientError, IsServerError
<1>4. /\ list[1].does = "data" /\ list[2].does = "empty"
      /\ list[3].does = "client_error" /\ list[4].does = "server_error"
  BY <1>1 DEF On
<1> HIDE DEF fit
<1>5. fit # {} => Min(fit) \in fit /\ \A y \in fit : Min(fit) <= y
  BY <1>3, SmallestIsIn
<1>6. IsClientError(404)
  BY DEF IsClientError
<1>7. PICK m : m = Min(fit)
  OBVIOUS
<1>8. /\ IsSuccess(code) => does = "data"
      /\ code = 404 => does = "empty"
      /\ IsClientError(code) /\ code # 404 => does = "client_error"
      /\ IsServerError(code) => does = "server_error"
      /\ ~ IsSuccess(code) /\ ~ IsClientError(code) /\ ~ IsServerError(code) => does = "unexpected"
  <2>1. CASE fit = {}
    BY <1>1, <1>2, <1>3, <1>6, <2>1
  <2>2. CASE fit # {}
    <3>1. m \in fit /\ m \in 1 .. 4 /\ (\A y \in fit : m <= y) /\ does = list[m].does
      BY <1>2, <1>3, <1>5, <1>7, <2>2
    <3>2. CASE m = 1
      BY <1>3, <1>4, <1>6, <3>1, <3>2, OneClass
    <3>3. CASE m = 2
      BY <1>3, <1>4, <1>6, <3>1, <3>3, OneClass
    <3>4. CASE m = 3
      <4>1. 1 \notin fit /\ 2 \notin fit
        BY <3>1, <3>4
      <4>2. QED  BY <1>3, <1>4, <3>1, <3>4, <4>1, OneClass
    <3>5. CASE m = 4
      <4>1. 1 \notin fit /\ 2 \notin fit /\ 3 \notin fit
        BY <3>1, <3>5
      <4>2. QED  BY <1>3, <1>4, <1>6, <3>1, <3>5, <4>1, OneClass
    <3>6. QED  BY <3>1, <3>2, <3>3, <3>4, <3>5
  <2>3. QED  BY <2>1, <2>2
<1>9. QED  BY <1>6, <1>8, OneClass DEF does
=============================================================================
