--------------------------------- MODULE Http ---------------------------------
(***************************************************************************)
(* The HTTP transports (src/src/curl_http.cpp) as their callers see them.  *)
(* A transfer is what became of one request: whether curl completed it     *)
(* (resolving, connecting, sending, receiving within the timeout), the     *)
(* status of the last response, redirects followed, and its body.          *)
(***************************************************************************)
EXTENDS Integers

CONSTANTS
  Body,       \* what the other side may answer
  HttpThrows  \* the std::runtime_error of a transport

ASSUME HttpAssumption == HttpThrows \notin Body

Status == {200, 304, 429}
Transfer == [completed : BOOLEAN, status : Status, body : Body]

\* Whatever the status: a completed transfer has a response.
perform(transfer) ==
  IF transfer.completed
  THEN [status |-> transfer.status, body |-> transfer.body] ELSE HttpThrows

\* Mutant: an error answer is an answer.
curlHttpGet_AnyStatus(transfer) ==
  IF perform(transfer) = HttpThrows THEN HttpThrows ELSE transfer.body

curlHttpGet(transfer) ==
  IF perform(transfer) = HttpThrows \/ transfer.status >= 400
  THEN HttpThrows ELSE transfer.body

curlHttpPostForm(transfer) == perform(transfer)
=============================================================================
