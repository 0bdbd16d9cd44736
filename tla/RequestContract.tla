-------------------------- MODULE RequestContract --------------------------
(***************************************************************************)
(* The stateful-v1 contract as the two editions check it:                  *)
(* node/contract.mjs and fastapi/contract.py.  A request is judged as a    *)
(* whole, and so is the answer of a provider that refuses it; neither      *)
(* changes any state.                                                      *)
(*                                                                         *)
(* A text is its length in UTF-16 units, which JavaScript counts, its      *)
(* length in code points, which Python counts, and the white space at an   *)
(* edge, about which trim() and strip() differ.  A URL is what the parser  *)
(* of each edition reads in it, new URL() and urlparse(), and so is a      *)
(* time, Date.parse() and datetime.fromisoformat().                        *)
(***************************************************************************)
EXTENDS Naturals, Sequences

CONSTANTS
  MaxText,  \* bound, for 200, 500, 512 and 65,536: length of a text
  Now,      \* Date.now(): the millisecond it is
  NowRest   \* what datetime.now() reads beyond it

ASSUME MaxTextAssumption == MaxText \in Nat \ {0}
ASSUME NowAssumption == Now \in Nat /\ NowRest \in Nat

Editions == {"node", "python"}

-----------------------------------------------------------------------------
(* Values of a request.  "null" is JSON null, "number" a value that is not *)
(* of the type, "absent" a member that is not there.                       *)

Text(units, points, edge) == [units |-> units, points |-> points, edge |-> edge]

Edges == {"none", "space", "FEFF", "NEL"}

NoText == {Text(0, 0, kind) : kind \in {"absent", "null", "number"}}

Texts ==
  {t \in [units : 0 .. MaxText + 2, points : 0 .. MaxText + 1, edge : Edges] :
     /\ t.points <= t.units /\ t.units <= 2 * t.points
     /\ t.edge # "none" => t.points > 0}

IsText(t) == t \notin NoText

\* Members of the input.
Items ==
  [type : {"none", "mcp_approval_response"}, role : {"none", "user", "assistant"},
   content : Texts \cup NoText, id : Texts \cup NoText,
   reason : Texts \cup NoText, approve : BOOLEAN, extra : BOOLEAN]

Absent == Text(0, 0, "absent")
Null == Text(0, 0, "null")

\* Mutant: an exclusive bound in one edition.
BoundedExclusive(t, e) ==
  /\ IsText(t)
  /\ IF e = "node"
     THEN t.units \in 1 .. MaxText /\ t.edge \notin {"space", "FEFF"}
     ELSE t.points \in 1 .. MaxText - 1 /\ t.edge \notin {"space", "NEL"}

\* 1 <= length <= MaxText, and nothing to strip
Bounded(t, e) ==
  /\ IsText(t)
  /\ IF e = "node"
     THEN t.units \in 1 .. MaxText /\ t.edge \notin {"space", "FEFF"}
     ELSE t.points \in 1 .. MaxText /\ t.edge \notin {"space", "NEL"}

\* What a parser reads in a URL: its origin, its path, the slashes at its end,
\* and whatever a URL of a lease must not have
Readings ==
  [origin : {"platform", "other"}, path : {"lease", "other"}, slashes : 0 .. 2,
   rest : {"none", "scheme", "userinfo", "query", "fragment", "nonascii",
           "unparsable"}]

\* The parsers do not read the same in every URL: new URL() decodes a host and
\* resolves the dots of a path, urlparse() drops an empty parameter.
Urls == [Editions -> Readings]

OfPlatform(reading) == reading.rest = "none" /\ reading.origin = "platform"

\* One slash at the end is dropped by Node, any number by Python; the URL of
\* an upload has none.
ModelUrl(url, e) ==
  /\ OfPlatform(url[e]) /\ url[e].path = "lease"
  /\ e = "node" => url[e].slashes <= 1

UploadUrl(url, e) ==
  OfPlatform(url[e]) /\ url[e].path = "lease" /\ url[e].slashes = 0

\* A time of the pattern: the editions whose parser knows it, such as Node alone
\* for a 30th of February, the millisecond it is in, and the rest
Times == [readBy : SUBSET Editions, ms : Nat, rest : Nat]

\* Mutant: the last moment of a lease is one of it.
LiveInclusive(expiry, e) == e \in expiry.readBy /\ expiry.ms >= Now

\* The expiry lies ahead, by the clock of the edition.
Live(expiry, e) ==
  /\ e \in expiry.readBy
  /\ \/ expiry.ms > Now
     \/ e = "python" /\ expiry.ms = Now /\ expiry.rest > NowRest

\* hasOnlyKeys, and the constants a member must have
Exact(lease) == lease.extra = FALSE /\ lease.constants = "ok" /\ lease.token = "ok"

modelAccess(r, e) ==
  /\ Exact(r.model_access)
  /\ ModelUrl(r.model_access.url, e)
  /\ Live(r.model_access.expires, e)

artifactAccess(r, e) ==
  /\ Exact(r.artifact_access)
  /\ UploadUrl(r.artifact_access.url, e)
  /\ Live(r.artifact_access.expires, e)

\* An item of the input: a message, or the answer to an approval request
IsApproval(item) == item.type = "mcp_approval_response"

validApproval(item, e) ==
  /\ ~ item.extra
  /\ Bounded(item.id, e)
  /\ item.approve
  /\ item.reason = Absent \/ Bounded(item.reason, e)

UserMessage(item, e) ==
  /\ ~ item.extra /\ item.type = "none"
  /\ item.role = "user"
  /\ Bounded(item.content, e)

\* The complete set of answers: each of them bounded, no id twice
Approvals(r, e) ==
  /\ \A i \in DOMAIN r.input : validApproval(r.input[i], e)
  /\ \A i, j \in DOMAIN r.input : r.input[i].id = r.input[j].id => i = j

\* What stands for no previous response
Missing(e) == IF e = "node" THEN {Absent} ELSE {Absent, Null}

Previous(r, e) == r.previous \in Missing(e) \/ Bounded(r.previous, e)

\* One message of the user, or answers to approval requests
Input(r, e) ==
  /\ Len(r.input) >= 1
  /\ IF \A i \in DOMAIN r.input : IsApproval(r.input[i])
     THEN r.previous \notin Missing(e) /\ Approvals(r, e)
     ELSE Len(r.input) = 1 /\ UserMessage(r.input[1], e)

\* The header of the profile and of the conversation, a UUID of a version
\* from 1 to 5 in either case, and the members of the body
Profile(r) ==
  /\ r.profile = "stateful-v1"
  /\ r.conversation \in {"uuid", "UUID"}
  /\ ~ r.extra /\ r.constants = "ok"

validatePlatformContract(r, e) ==
  /\ Profile(r)
  /\ artifactAccess(r, e)
  /\ modelAccess(r, e)
  /\ Previous(r, e)
  /\ Input(r, e)

\* Node alone; it never takes answers to approval requests.
validateShowcaseContract(r) ==
  /\ Profile(r)
  /\ Len(r.input) = 1 /\ UserMessage(r.input[1], "node")
  /\ Previous(r, "node")
  /\ modelAccess(r, "node")
  /\ artifactAccess(r, "node")

-----------------------------------------------------------------------------
(* The answer to a provider that does not stream.                          *)

\* What becomes of the request to the provider: no answer, an answer whose
\* body breaks off or is too large, one that is no event stream, or an error
\* of a status, with a body that names the loss of the continuation, or not
NoOutcome == [kind |-> "none", status |-> 0, body |-> "none"]

Outcomes ==
  [kind : {"unreachable", "timeout", "broken", "huge", "notStream"},
   status : {400}, body : {"other"}]
    \cup [kind : {"error"}, status : {400, 404, 409, 410, 422, 429, 500},
          body : {"error.code", "code", "code beside error", "other"}]

LossStatuses == {400, 404, 409, 410}

\* A code beside an object "error" is one for Node only.
isPreviousResponseError(o, e, hadPrevious) ==
  /\ hadPrevious /\ o.status \in LossStatuses
  /\ o.body \in {"error.code", "code"}
       \cup IF e = "node" THEN {"code beside error"} ELSE {}

Statusless == {"unreachable", "timeout", "huge"}

\* An error that carries no status is one of the Agent for Node: a fetch that
\* fails, a body that does not come or is too large.  FastAPI has a handler
\* for each, the body that breaks off excepted.
ErrorStatus(o, e, hadPrevious) ==
  IF o.kind = "error" /\ isPreviousResponseError(o, e, hadPrevious) THEN 409
  ELSE IF o.kind = "broken" \/ (e = "node" /\ o.kind \in Statusless) THEN 500
  ELSE 502

-----------------------------------------------------------------------------
(* A request, judged by both editions and, if it is accepted, passed on to *)
(* a provider that refuses it.                                             *)

CONSTANT Requests  \* the requests judged

ASSUME RequestsAssumption ==
  \A r \in Requests :
    /\ r.input \in Seq(Items)
    /\ \A lease \in {r.model_access, r.artifact_access} :
         lease.url \in Urls /\ lease.expires \in Times

VARIABLES
  request,  \* the request
  verdict,  \* of each edition: "none", "accepted" or "refused"
  outcome,  \* of the request to the provider, which is the same for both
  answer    \* status each edition answers with, 0 before

vars == <<request, verdict, outcome, answer>>

Validate(e) ==
  /\ verdict[e] = "none"
  /\ verdict' = [verdict EXCEPT ![e] =
                   IF validatePlatformContract(request, e)
                   THEN "accepted" ELSE "refused"]
  /\ UNCHANGED <<request, outcome, answer>>

\* The provider, or the way to it, fails.
Refuse ==
  /\ outcome = NoOutcome
  /\ \E e \in Editions : verdict[e] = "accepted"
  /\ outcome' \in Outcomes
  /\ UNCHANGED <<request, verdict, answer>>

Answer(e) ==
  /\ verdict[e] = "accepted" /\ answer[e] = 0 /\ outcome # NoOutcome
  /\ \A i \in DOMAIN request.input : ~ IsApproval(request.input[i])
  /\ answer' = [answer EXCEPT ![e] =
                  ErrorStatus(outcome, e, request.previous \notin Missing(e))]
  /\ UNCHANGED <<request, verdict, outcome>>

Init ==
  /\ request \in Requests
  /\ verdict = [e \in Editions |-> "none"]
  /\ outcome = NoOutcome
  /\ answer = [e \in Editions |-> 0]

Next ==
  \/ \E e \in Editions : Validate(e) \/ Answer(e)
  \/ Refuse

Spec == Init /\ [][Next]_vars

TypeOK ==
  /\ verdict \in [Editions -> {"none", "accepted", "refused"}]
  /\ answer \in [Editions -> {0, 409, 500, 502}]

\* What the servers take for granted of a request: one message of the user,
\* never a history, or answers to several approval requests and the response
\* they belong to.
AcceptedIsOneTurn ==
  \A e \in Editions : verdict[e] = "accepted" =>
    \/ /\ Len(request.input) = 1 /\ request.input[1].role = "user"
       /\ ~ IsApproval(request.input[1])
    \/ /\ \A i \in DOMAIN request.input : IsApproval(request.input[i])
       /\ IsText(request.previous)
       /\ \A i, j \in DOMAIN request.input :
            i # j => request.input[i].id # request.input[j].id

\* A token is sent only to what the edition reads as the platform, and only
\* before it expires.
TokensStayHome ==
  \A e \in Editions : verdict[e] = "accepted" =>
    \A lease \in {request.model_access, request.artifact_access} :
       /\ lease.url[e].origin = "platform" /\ lease.url[e].rest = "none"
       /\ \/ lease.expires.ms > Now
          \/ lease.expires.ms = Now /\ lease.expires.rest > NowRest

\* A request that either edition goes on with is one turn, with live leases of
\* the platform: nothing behind the validation looks at this again.
AcceptedIsSafe == AcceptedIsOneTurn /\ TokensStayHome

\* The showcase takes no request that an ordinary turn would refuse.
ShowcaseIsStricter ==
  validateShowcaseContract(request) => validatePlatformContract(request, "node")

\* Texts that both languages measure alike
PlainText(t) == IsText(t) => t.units = t.points /\ t.edge \in {"none", "space"}

\* The parsers of both languages read the same in the URL and the time, which
\* is not in the millisecond of the clock; Node drops no second slash.
PortableLease(lease) ==
  /\ lease.url["node"] = lease.url["python"] /\ lease.url["node"].slashes <= 1
  /\ lease.expires.readBy \in {{}, Editions} /\ lease.expires.ms # Now

Portable(r) ==
  /\ r.previous # Null /\ PlainText(r.previous)
  /\ \A i \in DOMAIN r.input :
       /\ PlainText(r.input[i].id) /\ PlainText(r.input[i].content)
       /\ PlainText(r.input[i].reason)
  /\ PortableLease(r.model_access) /\ PortableLease(r.artifact_access)

\* What the libraries of both languages read and measure alike, the editions
\* judge alike: their own rules are the same but for a null previous response
\* and the slashes at the end of a model URL, which Portable excludes.
PortableAlike ==
  (Portable(request) /\ \A e \in Editions : verdict[e] # "none")
    => verdict["node"] = verdict["python"]

\* Unknown provider errors become generic 502 responses
\* (contracts/stateful-v1.md, line 86).
ErrorsBecome502 == \A e \in Editions : answer[e] \in {0, 409, 502}
=============================================================================
