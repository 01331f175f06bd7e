----------------------------- MODULE HttpAnswers -----------------------------
(***************************************************************************)
(* What becomes of the reply of a service: the value or the exception the  *)
(* HTTP clients make of it (http_response.py, response_handler.py), and    *)
(* the status CustomHTTPExceptionRoute answers an exception with.          *)
(*                                                                         *)
(* A reply is [code, json, data]: its status, whether its body is JSON and *)
(* whether the fields the caller needs are in it.  Code 0 is no reply, a   *)
(* TransportError of httpx.  An outcome is [raised, code].                 *)
(***************************************************************************)
EXTENDS Naturals, Sequences, FiniteSetsExt

IsSuccess(code) == code \in 200 .. 299
IsClientError(code) == code \in 400 .. 499
IsServerError(code) == code \in 500 .. 599

Returned == [raised |-> "nothing", code |-> 0]
Raise(exception) == [raised |-> exception, code |-> 0]
Http(code) == [raised |-> "HTTPException", code |-> code]

(* _log_and_raise_on_upstream_error tells the client to try again, ...     *)
ServerTrouble == Http(503)

(* ... _log_and_raise_on_client_error passes the refusal on, ...           *)
ClientTrouble(reply) == Http(reply.code)

(* ... and a redirect or an information is unexpected.                     *)
Unexpected == Http(500)

(* process_json_response.                                                  *)
JsonAnswer(reply, needsData) ==
    CASE IsSuccess(reply.code) ->
            IF reply.json /\ (needsData => reply.data) THEN Returned ELSE ServerTrouble
      [] IsServerError(reply.code) -> ServerTrouble
      [] IsClientError(reply.code) -> ClientTrouble(reply)
      [] OTHER -> Unexpected

(* process_koddi_token_response: the token is the body, whatever it is.    *)
TokenAnswer(reply) ==
    CASE IsSuccess(reply.code) -> Returned
      [] IsServerError(reply.code) -> ServerTrouble
      [] IsClientError(reply.code) -> ClientTrouble(reply)
      [] OTHER -> Unexpected

(* handle_response: a caller that names no body type gets the reply as it  *)
(* is, an error too.                                                       *)
HandledAnswer(reply, bodyType, needsData) ==
    CASE reply.code = 0 -> Raise("TransportError")
      [] reply.code # 0 /\ bodyType = "json" -> JsonAnswer(reply, needsData)
      [] OTHER -> Returned
-----------------------------------------------------------------------------
(* A ResponseHandler: [handlers, default], the handlers being pairs of the *)
(* codes one is for and what it does.                                      *)
On(codes, does) == [codes |-> codes, does |-> does]

DefaultResponseHandler ==
    [handlers |-> <<On(400 .. 499, "client_error"), On(500 .. 599, "server_error")>>,
     default |-> "unexpected"]

(* append_handler: the other's handlers come last, its default replaces.   *)
Appended(handler, extra) ==
    [handlers |-> handler.handlers \o extra.handlers, default |-> extra.default]

(* That of search_campaigns: no campaigns is an empty page.                *)
CampaignSearchHandler ==
    Appended([handlers |-> <<On(200 .. 299, "data"), On({404}, "empty")>>, default |-> "unexpected"],
             DefaultResponseHandler)

(* handle_response of ResponseHandler: the first that fits, or the default. *)
Chosen(handler, code) ==
    LET fit == {i \in DOMAIN handler.handlers : code \in handler.handlers[i].codes}
    IN  IF fit = {} THEN handler.default ELSE handler.handlers[Min(fit)].does

(* The handlers: a body that is no JSON of the model raises what nobody    *)
(* catches.                                                                *)
HandlerAnswer(handler, reply) ==
    LET does == Chosen(handler, reply.code)
    IN  CASE does = "data"  -> IF reply.json /\ reply.data THEN Returned ELSE Raise("ValueError")
          [] does = "empty" -> Returned
          [] does = "client_error" -> ClientTrouble(reply)
          [] does = "server_error" -> ServerTrouble
          [] OTHER -> Unexpected
-----------------------------------------------------------------------------
(* create_custom_route_handler: the status of each exception it knows; any *)
(* other goes on to the framework, which answers 500.                      *)
StatusOf ==
    [nothing |-> 200, TransportError |-> 504, RequestValidationError |-> 400,
     RateLimitExceededException |-> 429, ActivationLockedException |-> 409,
     CampaignNotPublishedException |-> 409]

RouteAnswer(outcome) ==
    CASE outcome.raised = "HTTPException" -> outcome.code
      [] outcome.raised \in DOMAIN StatusOf -> StatusOf[outcome.raised]
      [] OTHER -> 500
=============================================================================
