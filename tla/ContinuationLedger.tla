------------------------- MODULE ContinuationLedger -------------------------
(***************************************************************************)
(* What the state store promises the server, without tables, clocks or     *)
(* statements (contracts/stateful-v1.md, State and continuation, Tools and *)
(* approvals).  A response of a conversation continues from one provider   *)
(* response; it may carry a set of approval requests, which is decided as  *)
(* a whole, once, in the step that creates the response of the result.     *)
(* Entries may lapse; an undecided approval never outlives its response.   *)
(***************************************************************************)
CONSTANTS Conversations, ResponseIds, Approvals, None

VARIABLES
  mapping,  \* the provider response a response continues from, or None
  open,     \* the approval requests of a response that await a decision
  decided   \* the decisions of a response, [approval, approved] records

vars == <<mapping, open, decided>>

Keys == Conversations \X ResponseIds

Init ==
  /\ mapping = [k \in Keys |-> None]
  /\ open = [k \in Keys |-> {}]
  /\ decided = [k \in Keys |-> {}]

\* A turn completed: its response can be continued.
Advance(c, r, provider) ==
  /\ mapping' = [mapping EXCEPT ![<<c, r>>] = provider]
  /\ UNCHANGED <<open, decided>>

\* A turn completed and asks for approvals.
Offer(c, r, provider, approvals) ==
  /\ open[<<c, r>>] = {} /\ decided[<<c, r>>] = {}
  /\ mapping' = [mapping EXCEPT ![<<c, r>>] = provider]
  /\ open' = [open EXCEPT ![<<c, r>>] = approvals]
  /\ UNCHANGED decided

\* The approvals of a response are decided, every one of them, and the
\* result continues from the provider response the request hung off.
Decide(c, r, verdict, result) ==
  /\ open[<<c, r>>] # {} /\ mapping[<<c, r>>] # None
  /\ mapping' = [mapping EXCEPT ![<<c, result>>] = mapping[<<c, r>>]]
  /\ open' = [open EXCEPT ![<<c, r>>] = {}]
  /\ decided' = [decided EXCEPT ![<<c, r>>] =
                   {[approval |-> a, approved |-> verdict[a]] : a \in open[<<c, r>>]}]

\* Time passed: entries are forgotten, but no response is while it has
\* approvals to decide.
Lapse(responses, requests) ==
  /\ \A k \in responses : open[k] = {} \/ k \in requests
  /\ mapping' = [k \in Keys |-> IF k \in responses THEN None ELSE mapping[k]]
  /\ open' = [k \in Keys |-> IF k \in requests THEN {} ELSE open[k]]
  /\ decided' = [k \in Keys |-> IF k \in requests THEN {} ELSE decided[k]]

Next ==
  \/ \E c \in Conversations, r \in ResponseIds :
       \/ \E p \in ResponseIds : Advance(c, r, p)
       \/ \E p \in ResponseIds, approvals \in SUBSET Approvals :
            approvals # {} /\ Offer(c, r, p, approvals)
       \/ \E verdict \in [Approvals -> BOOLEAN], result \in ResponseIds :
            Decide(c, r, verdict, result)
  \/ \E responses, requests \in SUBSET Keys : Lapse(responses, requests)

Spec == Init /\ [][Next]_vars

-----------------------------------------------------------------------------
\* Open approvals hang off a response that can be continued, a response is
\* never open and decided at once, and the ledger has its types.
Consistent ==
  /\ mapping \in [Keys -> ResponseIds \cup {None}]
  /\ open \in [Keys -> SUBSET Approvals]
  /\ decided \in [Keys -> SUBSET [approval : Approvals, approved : BOOLEAN]]
  /\ \A k \in Keys :
       open[k] # {} => mapping[k] # None /\ decided[k] = {}

\* A decision is never replaced by another one: it stays until it lapses.
DecidedOnce ==
  [][\A k \in Keys :
       decided[k] # {} => decided'[k] \in {decided[k], {}}]_vars
=============================================================================
