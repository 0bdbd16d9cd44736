----------------------- MODULE RequestContractProofs -----------------------
(***************************************************************************)
(* Proofs about RequestContract, for every bound on texts, every instant   *)
(* and every set of requests.                                              *)
(*                                                                         *)
(* A verdict is what validatePlatformContract says of the request, and an  *)
(* answer what ErrorStatus says of an outcome that no longer changes: that *)
(* is the inductive invariant, and the rest follows from what the two      *)
(* operators accept.                                                       *)
(***************************************************************************)
EXTENDS RequestContract, TLAPS

Verdicts ==
  \A e \in Editions :
    /\ verdict[e] = "accepted" => validatePlatformContract(request, e)
    /\ verdict[e] = "refused" => ~ validatePlatformContract(request, e)

Answers ==
  \A e \in Editions :
    answer[e] # 0 =>
      /\ verdict[e] = "accepted" /\ outcome # NoOutcome
      /\ answer[e] = ErrorStatus(outcome, e, request.previous \notin Missing(e))

Judged == TypeOK /\ request \in Requests /\ Verdicts /\ Answers

-----------------------------------------------------------------------------
\* The status of an answer is one of three.
LEMMA StatusType ==
  ASSUME NEW o, NEW e, NEW had
  PROVE  ErrorStatus(o, e, had) \in {409, 500, 502}
BY DEF ErrorStatus

LEMMA JudgedInit == Init => Judged
BY DEF Init, Judged, TypeOK, Verdicts, Answers

LEMMA JudgedStep == Judged /\ [Next]_vars => Judged'
<1> SUFFICES ASSUME Judged, [Next]_vars
             PROVE  Judged'
  OBVIOUS
<1>1. CASE UNCHANGED vars
  BY <1>1 DEF vars, Judged, TypeOK, Verdicts, Answers
<1>2. ASSUME NEW e \in Editions, Validate(e)
      PROVE  Judged'
  <2>1. request' = request /\ outcome' = outcome /\ answer' = answer
    BY <1>2 DEF Validate
  <2>2. verdict' \in [Editions -> {"none", "accepted", "refused"}]
    BY <1>2 DEF Validate, Judged, TypeOK
  <2>3. Verdicts'
    <3> SUFFICES ASSUME NEW d \in Editions
                 PROVE  /\ verdict'[d] = "accepted"
                             => validatePlatformContract(request, d)
                        /\ verdict'[d] = "refused"
                             => ~ validatePlatformContract(request, d)
      BY <2>1 DEF Verdicts
    <3>1. CASE d = e
      BY <3>1, <1>2 DEF Validate, Judged, TypeOK
    <3>2. CASE d # e
      BY <3>2, <1>2 DEF Validate, Judged, TypeOK, Verdicts
    <3> QED BY <3>1, <3>2
  <2>4. Answers'
    BY <1>2, <2>1 DEF Validate, Judged, TypeOK, Answers
  <2> QED BY <2>1, <2>2, <2>3, <2>4 DEF Judged, TypeOK
<1>3. ASSUME NEW e \in Editions, Answer(e)
      PROVE  Judged'
  <2>1. request' = request /\ outcome' = outcome /\ verdict' = verdict
    BY <1>3 DEF Answer
  <2> DEFINE new == ErrorStatus(outcome, e, request.previous \notin Missing(e))
  <2>2. answer' = [answer EXCEPT ![e] = new] /\ new \in {409, 500, 502}
    BY <1>3, StatusType DEF Answer
  <2>3. Answers'
    <3> SUFFICES ASSUME NEW d \in Editions, answer'[d] # 0
                 PROVE  /\ verdict[d] = "accepted" /\ outcome # NoOutcome
                        /\ answer'[d] = ErrorStatus(outcome, d,
                             request.previous \notin Missing(d))
      BY <2>1 DEF Answers
    <3>1. CASE d = e
      BY <3>1, <2>2, <1>3 DEF Answer, Judged, TypeOK
    <3>2. CASE d # e
      BY <3>2, <2>2 DEF Judged, TypeOK, Answers
    <3> QED BY <3>1, <3>2
  <2> HIDE DEF new
  <2>4. answer' \in [Editions -> {0, 409, 500, 502}]
    BY <2>2 DEF Judged, TypeOK
  <2> QED BY <2>1, <2>3, <2>4 DEF Judged, TypeOK, Verdicts
<1>4. CASE Refuse
  <2>1. request' = request /\ verdict' = verdict /\ answer' = answer
    BY <1>4 DEF Refuse
  <2>2. \A e \in Editions : answer[e] = 0
    BY <1>4 DEF Refuse, Judged, Answers
  <2> QED BY <2>1, <2>2 DEF Judged, TypeOK, Verdicts, Answers
<1> QED BY <1>1, <1>2, <1>3, <1>4 DEF Next

\* Every verdict and every answer is that of the operators, as long as the
\* server runs.
THEOREM Invariance == Spec => []Judged
BY JudgedInit, JudgedStep, PTL DEF Spec

\* Verdicts and answers have their types.
THEOREM TypeCorrect == Spec => []TypeOK
<1>1. Judged => TypeOK
  BY DEF Judged
<1> QED BY <1>1, Invariance, PTL

-----------------------------------------------------------------------------
\* What either edition accepts is one message of the user, or a complete set
\* of answers to approval requests.
THEOREM AcceptsOneTurn == Spec => []AcceptedIsOneTurn
<1>1. Judged => AcceptedIsOneTurn
  BY DEF Judged, Verdicts, AcceptedIsOneTurn, validatePlatformContract, Input,
         Approvals, UserMessage, IsApproval, Previous, Bounded
<1> QED BY <1>1, Invariance, PTL

\* A lease that is live for either edition expires after the instant of both.
LEMMA LiveIsAhead ==
  ASSUME NEW expiry, NEW e, Live(expiry, e)
  PROVE  \/ expiry.ms > Now
         \/ expiry.ms = Now /\ expiry.rest > NowRest
BY DEF Live

\* A token of an accepted request goes to what the edition reads as the platform,
\* and has not expired.
THEOREM TokensStay == Spec => []TokensStayHome
<1>1. Judged => TokensStayHome
  BY LiveIsAhead
  DEF Judged, Verdicts, TokensStayHome, validatePlatformContract,
      modelAccess, artifactAccess, ModelUrl, UploadUrl, OfPlatform
<1> QED BY <1>1, Invariance, PTL

\* What either edition goes on with is one turn whose tokens stay with the
\* platform (validatePlatformContract).
THEOREM AcceptsSafely == Spec => []AcceptedIsSafe
<1>1. AcceptedIsOneTurn /\ TokensStayHome => AcceptedIsSafe
  BY DEF AcceptedIsSafe
<1> QED BY <1>1, AcceptsOneTurn, TokensStay, PTL

\* The input of a request that is one item starts with it.
LEMMA OneItem ==
  ASSUME NEW r \in Requests, Len(r.input) = 1
  PROVE  DOMAIN r.input = {1}
<1>1. r.input \in Seq(Items)
  BY RequestsAssumption
<1> DEFINE s == r.input
<1>2. s \in Seq(Items) /\ Len(s) = 1
  BY <1>1
<1> HIDE DEF s
<1>3. DOMAIN s = 1 .. Len(s) /\ Len(s) \in Nat
  BY <1>2
<1>4. DOMAIN s = {1}
  BY <1>2, <1>3
<1> QED BY <1>4 DEF s

\* The showcase takes nothing that a turn of the Agent would refuse.
THEOREM ShowcaseStricter == Spec => []ShowcaseIsStricter
<1>1. Judged => ShowcaseIsStricter
  <2> SUFFICES ASSUME request \in Requests, validateShowcaseContract(request)
               PROVE  validatePlatformContract(request, "node")
    BY DEF Judged, ShowcaseIsStricter
  <2>1. Len(request.input) = 1 /\ UserMessage(request.input[1], "node")
    BY DEF validateShowcaseContract
  <2>2. DOMAIN request.input = {1}
    BY <2>1, OneItem
  <2>3. Input(request, "node")
    BY <2>1, <2>2 DEF Input, UserMessage, IsApproval
  <2> QED BY <2>3 DEF validateShowcaseContract, validatePlatformContract
<1> QED BY <1>1, Invariance, PTL

-----------------------------------------------------------------------------
\* A text both languages measure alike is bounded for both or for neither.
LEMMA BoundedAlike ==
  ASSUME NEW t, PlainText(t)
  PROVE  Bounded(t, "node") <=> Bounded(t, "python")
BY DEF PlainText, Bounded

LEMMA ApprovalAlike ==
  ASSUME NEW item, PlainText(item.id), PlainText(item.reason)
  PROVE  validApproval(item, "node") <=> validApproval(item, "python")
BY BoundedAlike DEF validApproval

LEMMA MissingAlike ==
  ASSUME NEW p, p # Null
  PROVE  p \in Missing("node") <=> p \in Missing("python")
BY DEF Missing

LEMMA InputAlike ==
  ASSUME NEW r \in Requests, Portable(r)
  PROVE  Input(r, "node") <=> Input(r, "python")
<1>1. Approvals(r, "node") <=> Approvals(r, "python")
  BY ApprovalAlike DEF Approvals, Portable
<1>2. r.previous \in Missing("node") <=> r.previous \in Missing("python")
  BY MissingAlike DEF Portable
<1>3. ASSUME Len(r.input) = 1
      PROVE  UserMessage(r.input[1], "node") <=> UserMessage(r.input[1], "python")
  <2>1. PlainText(r.input[1].content)
    BY <1>3, OneItem DEF Portable
  <2> QED BY <2>1, BoundedAlike DEF UserMessage
<1> QED BY <1>1, <1>2, <1>3 DEF Input

\* A time that both parsers know, or neither, and that is in another millisecond
\* than now lies ahead for both editions or for neither.
LEMMA LiveAlike ==
  ASSUME NEW expiry, expiry.readBy \in {{}, Editions}, expiry.ms # Now
  PROVE  Live(expiry, "node") <=> Live(expiry, "python")
BY DEF Live, Editions

LEMMA LeasesAlike ==
  ASSUME NEW r, Portable(r)
  PROVE  /\ modelAccess(r, "node") <=> modelAccess(r, "python")
         /\ artifactAccess(r, "node") <=> artifactAccess(r, "python")
<1>1. PortableLease(r.model_access) /\ PortableLease(r.artifact_access)
  BY DEF Portable
<1>2. /\ Live(r.model_access.expires, "node") <=> Live(r.model_access.expires, "python")
      /\ Live(r.artifact_access.expires, "node")
           <=> Live(r.artifact_access.expires, "python")
  BY <1>1, LiveAlike DEF PortableLease
<1> QED BY <1>1, <1>2 DEF PortableLease, modelAccess, artifactAccess, ModelUrl, UploadUrl

\* The two editions accept the same requests among those in which the libraries
\* of JavaScript and Python read and measure the same.
THEOREM EditionsAlike == Spec => []PortableAlike
<1>1. Judged => PortableAlike
  <2> SUFFICES ASSUME Judged, Portable(request),
                      \A e \in Editions : verdict[e] # "none"
               PROVE  verdict["node"] = verdict["python"]
    BY DEF PortableAlike
  <2>1. Previous(request, "node") <=> Previous(request, "python")
    BY BoundedAlike, MissingAlike DEF Previous, Portable
  <2>2. validatePlatformContract(request, "node")
          <=> validatePlatformContract(request, "python")
    BY <2>1, InputAlike, LeasesAlike DEF Judged, validatePlatformContract
  <2> QED BY <2>2 DEF Judged, Verdicts, TypeOK, Editions
<1> QED BY <1>1, Invariance, PTL
=============================================================================
