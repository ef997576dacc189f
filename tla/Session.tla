------------------------------ MODULE Session ------------------------------
(***************************************************************************)
(* What APISession.request makes of an answer (core/sessions.py), and the  *)
(* exceptions it raises (core/exceptions.py).  Shared by the modules whose *)
(* components call the platform.                                           *)
(***************************************************************************)

\* How one exchange with the platform ends, as `requests` reports it.  "lost"
\* is a connection that breaks with the request maybe applied, "timeout" one
\* that `requests` gives up on.
Answers == {"ok", "400", "401", "403", "404", "409", "4xx", "5xx", "timeout", "lost"}

\* The exceptions an answer other than a 401 becomes on the first attempt.  A
\* 400 whose body is not JSON escapes as the decoder's error.
Raised(answer) ==
  CASE answer = "400"            -> {"ValidationError", "RequestException"}
    [] answer = "4xx"            -> {"ValidationError"}
    [] answer = "403"            -> {"AuthenticationError"}
    [] answer = "404"            -> {"ResourceNotFoundError"}
    [] answer = "409"            -> {"ConflictError"}
    [] answer \in {"5xx", "timeout"} -> {"ServiceError"}
    [] answer = "lost"           -> {"RequestException"}

\* The attempt after a refresh is made outside the handler: whatever goes wrong
\* in it is an exception of `requests`, never one of the CLI's.
RaisedAgain(answer) == {"RequestException"}

\* The subclasses that an `except` clause catches.
Catches(class) ==
  CASE class = "ServiceError" -> {"ServiceError", "ResourceNotFoundError", "PortUnavailableError"}
    [] class = "ValidationError" -> {"ValidationError", "ConflictError"}
    [] OTHER -> {class}
=============================================================================
