---------------------------- MODULE LookupRoute ----------------------------
(***************************************************************************)
(* What becomes of a look-up on its way back: the outcome in the aggregate *)
(* (getAccountLookUp) is an HTTP status of AccountLookupExpressRoutes, and *)
(* that is a value or an error of AccountLookupHttpClient.  The party and  *)
(* its participant are fixed, so an outcome is named for what happened.    *)
(***************************************************************************)

\* What _authenticationMiddleware and _enforcePrivilege make of the request.
Tokens == {"none", "invalid", "unprivileged", "valid"}

\* How the oracle's adapter ends: with an fspId, without, or by throwing.
Answers == {"fsp", "nothing", "throws"}

\* How getAccountLookUp ends; everything but a party without participant is
\* one and the same error to the route.
Outcomes == {"fspId", "ParticipantNotFound", "UnableToGetFspId"}

\* _getParticipantIdFromOracle and getAccountLookUp
Outcome(answer) ==
  CASE answer = "fsp" -> "fspId"
    [] answer = "nothing" -> "ParticipantNotFound"
    [] answer = "throws" -> "UnableToGetFspId"

\* A response: only the route's own have a JSON body, sendStatus sends text.
Response(status, json) == [status |-> status, json |-> json]

\* The refusals of a request, before the aggregate is asked.
Refusal(token) ==
  IF token = "unprivileged" THEN Response(403, TRUE) ELSE Response(401, FALSE)

\* Mutant of RouteResponse: any failure is reported as not found.
RouteResponseAlways404(outcome) ==
  IF outcome = "fspId" THEN Response(200, TRUE) ELSE Response(404, TRUE)

\* getAccountLookUp of the route
RouteResponse(outcome) ==
  CASE outcome = "fspId" -> Response(200, TRUE)
    [] outcome = "ParticipantNotFound" -> Response(404, TRUE)
    [] outcome = "UnableToGetFspId" -> Response(500, TRUE)

Results == {"fspId", "null", "Unauthorized", "Forbidden", "UnableToGetFspId"}

\* participantLookUp of the client: a value, null, or the error it throws.  It
\* unpacks the body of a 200, 401 or 403 and fails when that is not JSON.
ClientResult(resp) ==
  CASE resp.status = 404 -> "null"
    [] resp.status \in {200, 401, 403} /\ ~resp.json -> "UnableToGetFspId"
    [] resp.status = 200 /\ resp.json -> "fspId"
    [] resp.status = 401 /\ resp.json -> "Unauthorized"
    [] resp.status = 403 /\ resp.json -> "Forbidden"
    [] OTHER -> "UnableToGetFspId"
=============================================================================
