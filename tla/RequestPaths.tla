----------------------------- MODULE RequestPaths -----------------------------
(***************************************************************************)
(* The ways through the /auth handlers, as a request's session sees them:  *)
(* what each awaits in turn (a Redis command, a SELECT, the flush of an    *)
(* UPDATE) and what it ends in, a response or an exception; and the HTTP   *)
(* status that core/exceptions.py makes of an exception.                   *)
(***************************************************************************)
EXTENDS Naturals, Sequences

\* The subclasses of CivioException the handlers raise.
DomainErrors == {"AuthenticationError", "ValidationError"}

\* A plausible bug: 403 for both.
HttpStatusForbidden(exc) == 403

HttpStatus(exc) == IF exc = "AuthenticationError" THEN 401 ELSE 422

\* What the code or the libraries below it raise besides.
OtherErrors == {"TypeError", "StaleDataError", "RedisError", "DBAPIError", "TimeoutError"}

Raised == DomainErrors \cup {"RequestValidationError"} \cup OtherErrors
Returned == {"OK", "NO_CONTENT"}

\* What get_db does not see as an exception: FastAPI raises its own for a body
\* only once the dependencies have exited.
Committed == Returned \cup {"RequestValidationError"}

\* register_handlers: the handler of the nearest class of the exception.
Status(end) ==
  CASE end = "OK" -> 200
    [] end = "NO_CONTENT" -> 204
    [] end \in DomainErrors -> HttpStatus(end)
    [] end = "RequestValidationError" -> 422
    [] end \in OtherErrors -> 500

Success == {200, 204}
Statuses == Success \cup {401, 422, 500}

Await == {"redis", "select", "update"}

Path(awaits, end) == [awaits |-> awaits, end |-> end]

\* A body that OtpSendRequest, OtpVerifyRequest or RefreshRequest refuses.
Malformed == {Path(<<>>, "RequestValidationError")}

\* Unknown mobile; the challenge is stored.
SendPaths ==
  {Path(<<"select">>, "AuthenticationError"),
   Path(<<"select", "redis">>, "OK")}

\* No challenge, a code compare_digest refuses, too many attempts or a wrong
\* code, an ambiguous mobile; a user who is gone, revoked, verified, pending,
\* or pending and deleted before the flush, whose UPDATE then finds no row: a
\* statement that locks nothing.
VerifyPaths ==
  {Path(<<"redis">>, "AuthenticationError"),
   Path(<<"redis">>, "TypeError"),
   Path(<<"redis", "redis">>, "AuthenticationError"),
   Path(<<"redis", "redis">>, "ValidationError"),
   Path(<<"redis", "select", "redis">>, "AuthenticationError"),
   Path(<<"redis", "select">>, "AuthenticationError"),
   Path(<<"redis", "select", "redis">>, "OK"),
   Path(<<"redis", "select", "update", "redis">>, "OK"),
   Path(<<"redis", "select", "select">>, "StaleDataError")}

\* A token that does not decode to a refresh token of a user; a user who is
\* gone or not verified; a new TokenPair.
RefreshPaths ==
  {Path(<<>>, "AuthenticationError"),
   Path(<<"select">>, "AuthenticationError"),
   Path(<<"select">>, "OK")}

\* get_current_user in the same three cases, before the handler.
LogoutPaths ==
  {Path(<<>>, "AuthenticationError"),
   Path(<<"select">>, "AuthenticationError"),
   Path(<<"select">>, "NO_CONTENT")}

Paths == Malformed \cup SendPaths \cup VerifyPaths \cup RefreshPaths \cup LogoutPaths
===============================================================================
