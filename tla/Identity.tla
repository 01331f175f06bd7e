------------------------------ MODULE Identity ------------------------------
(***************************************************************************)
(* Who a request is from: the claims of its token, which nobody verifies   *)
(* here (the gateway in front of the API does), and what UserInfoMiddleware *)
(* puts into the contexts the rest of the request reads.                   *)
(*                                                                         *)
(* A token is [login, email, cid], a claim it does not have being None; a  *)
(* token that cannot be decoded has none of them.  An e-mail is            *)
(* [name, suffix], the suffix being what Koddi appends after a "+".        *)
(***************************************************************************)
CONSTANTS
    None,
    SystemUser      \* SystemUser[c]: the address of the client c, c@8451.com

(* __determine_token_type: the first claim that is there decides.          *)
TokenType(token) ==
    CASE token.login # None -> "KONG_ID_TOKEN"
      [] token.login = None /\ token.email # None -> "KODDI_ID_TOKEN"
      [] token.login = None /\ token.email = None /\ token.cid # None -> "KONG_API_TOKEN"
      [] OTHER -> "UNKNOWN_TOKEN"

(* parse_token_for_username: Koddi's suffix is cut off its address.        *)
ParsedUsername(token) ==
    CASE TokenType(token) = "KONG_ID_TOKEN"  -> token.login
      [] TokenType(token) = "KODDI_ID_TOKEN" -> token.email.name
      [] TokenType(token) = "KONG_API_TOKEN" -> SystemUser[token.cid]
      [] OTHER -> None

(* parse_token_for_client_id.                                              *)
ParsedClientId(token) == IF TokenType(token) = "UNKNOWN_TOKEN" THEN None ELSE token.cid

-----------------------------------------------------------------------------
(* UserInfoMiddleware: an Authorization header of two words has a token;   *)
(* any other leaves a name that belongs to nobody, no token and no client. *)
ContextUser(request) ==
    CASE request.header = "bearer" -> ParsedUsername(request.token)
      [] request.header = "none"   -> "Unset2-no-auth-header"
      [] OTHER -> "Unset2-no-token-found"

HasToken(request) == request.header = "bearer"

(* The client the rate limit is counted for.                               *)
ContextClient(request) ==
    LET cid == IF HasToken(request) THEN ParsedClientId(request.token) ELSE None
    IN  IF cid = None THEN "default" ELSE cid
=============================================================================
