----------------------------- MODULE AgentServer -----------------------------
(***************************************************************************)
(* The turns of node/server.mjs: POST /v1/responses handled by one process *)
(* over the state store and, for turns that reach the provider, a stream   *)
(* gate.  The handler runs to the next await without interruption, so each *)
(* action is the code between two awaits; the turns interleave there, and  *)
(* the process may die there.                                              *)
(*                                                                         *)
(* The requests are those validatePlatformContract accepts.  The provider  *)
(* is external: it gives every response a new id and streams any frames.   *)
(* What a turn writes is recorded by kind: relayed frames, the two frames  *)
(* of an approval request, the call frame of an approved action, text, and *)
(* the terminal response.completed.                                        *)
(***************************************************************************)
EXTENDS Naturals, Sequences, FiniteSets

CONSTANTS
  Turns,              \* requests to /v1/responses
  Conversations,
  ProviderIds,        \* response ids the provider gives out
  None,
  OrdinaryRetention,
  PendingRetention,
  MaxTime,            \* bound: last tick of the clock
  MaxFrames,          \* bound: frames of a provider stream
  MaxStarts           \* bound: starts of the process

ASSUME NoneAssumption == None \notin ProviderIds /\ None \notin Conversations /\ None \notin Nat
ASSUME RetentionAssumption ==
  OrdinaryRetention \in Nat \ {0} /\ PendingRetention \in Nat
ASSUME BoundAssumption == MaxTime \in Nat /\ MaxFrames \in Nat /\ MaxStarts \in Nat

VARIABLES
  heads, pending, now,  \* the state store
  turn,                 \* the handler of each request
  process,              \* "up", "draining" after a signal, or "down"
  starts,               \* how often the process was started
  issued                \* history: the conversation each provider id was given in

storeVars == <<heads, pending, now>>
vars == <<heads, pending, now, turn, process, starts, issued>>

-----------------------------------------------------------------------------
\* approvalRequestId: a digest of the conversation and the provider response
ApprovalId(c, p) == <<c, p>>

Approvals == {ApprovalId(c, p) : c \in Conversations, p \in ProviderIds}

DecisionSets == {<<[approval |-> a, approved |-> b]>> : a \in Approvals, b \in BOOLEAN}

\* approvalResultResponseId: a digest of the conversation, the response the
\* decisions answer, and the decisions
ResultId(c, r, decisions) == <<c, r, decisions>>

\* A result exists only for decisions on the one approval of a response.
ResultIds ==
  {ResultId(c, p, <<[approval |-> ApprovalId(c, p), approved |-> b]>>) :
     c \in Conversations, p \in ProviderIds, b \in BOOLEAN}

\* A digest with a prefix of its own is no id the provider gives out.
ASSUME IdsAreDistinct == ResultIds \cap (ProviderIds \cup {None}) = {}

ResponseIds == ProviderIds \cup ResultIds

Store == INSTANCE ResponseStore
           WITH HeadRetentions <- {OrdinaryRetention}, MaxActions <- 1

NullGate == [state |-> "open", createdId |-> None, completedId |-> None, withheld |-> <<>>]

Gate == INSTANCE StreamGate
          WITH gate <- NullGate, output <- <<>>, relayed <- <<>>,
               phase <- "streaming", seen <- <<>>

\* The frames of the provider stream of the response id that #accept does not
\* refuse on sight
StreamFrames(id) ==
  {[event |-> "none", data |-> d, id |-> None] : d \in {"other", "done", "failure"}}
    \cup {[event |-> "none", data |-> "completed", id |-> id]}

Kind(f) == IF f.data \in {"completed", "failure"} THEN f.data ELSE "relayed"

Kinds(frames) == [i \in DOMAIN frames |-> Kind(frames[i])]

RequestFrames == <<"request", "request">>

\* Mutant: every action is reported as executed.
ResultFramesForAll(decisions) ==
  [i \in DOMAIN decisions |-> "call"] \o <<"text", "completed">>

ResultFrames(decisions) ==
  [n \in 1..Cardinality({i \in DOMAIN decisions : decisions[i].approved}) |-> "call"]
    \o <<"text", "completed">>

Idle ==
  [pc |-> "idle", conv |-> None, prev |-> None, demo |-> FALSE,
   decisions |-> <<>>, provider |-> None, id |-> None, gate |-> NullGate,
   frames |-> 0, outgoing |-> <<>>, written |-> {}, committed |-> None]

\* An error response, or none: there is nothing to tell of the request.
Refused == [Idle EXCEPT !.pc = "refused"]

Pcs == {"idle", "fetching", "streaming", "releasing", "answered", "refused", "broken"}

Ended == {"answered", "refused", "broken"}

\* The handler of t moves on, to the record s.
Moves(t, s) ==
  /\ turn' = [turn EXCEPT ![t] = s]
  /\ UNCHANGED <<process, starts>>

-----------------------------------------------------------------------------
(* The handler, from the parsed body to the first await.                   *)

Accepts(t) == process = "up" /\ turn[t].pc = "idle"

\* Mutant: the mapping of the result is recorded, the decision is not.
DecideWithoutConsuming(t, c, r, decisions) ==
  LET result == ResultId(c, r, decisions)
  IN  /\ Accepts(t)
      /\ Store!Consumable(c, r, decisions)
      /\ Store!Record(c, result, Store!Resolved(c, r), OrdinaryRetention)
      /\ Moves(t, [Idle EXCEPT !.pc = "releasing", !.conv = c, !.prev = r,
                               !.decisions = decisions, !.id = result,
                               !.outgoing = ResultFrames(decisions),
                               !.committed = now])
      /\ UNCHANGED issued

\* Approval decisions that are the complete stored set: they are committed,
\* with the mapping of the result, before any of the result is written.
Decide(t, c, r, decisions) ==
  LET result == ResultId(c, r, decisions)
  IN  /\ Accepts(t)
      /\ Store!ConsumePending(c, r, decisions, result)
      /\ Moves(t, [Idle EXCEPT !.pc = "releasing", !.conv = c, !.prev = r,
                               !.decisions = decisions, !.id = result,
                               !.outgoing = ResultFrames(decisions),
                               !.committed = now])
      /\ UNCHANGED issued

\* Any other decisions: 409.
RefuseDecision(t, c, r, decisions) ==
  /\ Accepts(t)
  /\ ~ Store!Consumable(c, r, decisions)
  /\ Moves(t, Refused)
  /\ UNCHANGED <<heads, pending, now, issued>>

\* A new user input that starts a conversation; demo says it is the exact
\* SAGE_APPROVAL_DEMO prompt.
Start(t, c, demo) ==
  /\ Accepts(t)
  /\ Moves(t, [Idle EXCEPT !.pc = "fetching", !.conv = c, !.demo = demo])
  /\ UNCHANGED <<heads, pending, now, issued>>

\* Mutant: pending approvals are not looked for.
ContinueUnchecked(t, c, r, demo) ==
  /\ Accepts(t)
  /\ Store!Resolved(c, r) # None
  /\ Moves(t, [Idle EXCEPT !.pc = "fetching", !.conv = c, !.prev = r,
                           !.demo = demo, !.provider = Store!Resolved(c, r)])
  /\ UNCHANGED <<heads, pending, now, issued>>

\* Mutant: the response is looked up by its id alone.
ContinueAnywhere(t, c, r, demo) ==
  /\ Accepts(t)
  /\ \E d \in Conversations :
       /\ Store!Resolved(d, r) # None
       /\ Moves(t, [Idle EXCEPT !.pc = "fetching", !.conv = c, !.prev = r,
                                !.demo = demo, !.provider = Store!Resolved(d, r)])
  /\ UNCHANGED <<heads, pending, now, issued>>

\* A new user input after the response r that nothing waits on: it continues
\* from the provider response r is mapped to.
Continue(t, c, r, demo) ==
  /\ Accepts(t)
  /\ ~ Store!hasPending(c, r)
  /\ Store!Resolved(c, r) # None
  /\ Store!Resolve(c, r)
  /\ Moves(t, [Idle EXCEPT !.pc = "fetching", !.conv = c, !.prev = r,
                           !.demo = demo, !.provider = Store!Resolved(c, r)])
  /\ UNCHANGED issued

\* 409: an approval is still pending, or the response cannot be resolved.
RefuseTurn(t, c, r) ==
  /\ Accepts(t)
  /\ \/ Store!hasPending(c, r) /\ UNCHANGED storeVars
     \/ /\ ~ Store!hasPending(c, r)
        /\ Store!Resolved(c, r) = None
        /\ Store!Resolve(c, r)
  /\ Moves(t, Refused)
  /\ UNCHANGED issued

-----------------------------------------------------------------------------
(* The handler, after an await.                                            *)

\* A turn that is over keeps what the client saw and what was committed.
Over(s, pc) ==
  [s EXCEPT !.pc = pc, !.gate = NullGate, !.frames = 0, !.outgoing = <<>>,
            !.provider = None, !.demo = FALSE]

\* The provider rejects the request, or does not answer in time, or the
\* client leaves: an error response, or none.
FetchFails(t) ==
  /\ turn[t].pc = "fetching"
  /\ Moves(t, Refused)
  /\ UNCHANGED <<heads, pending, now, issued>>

\* The provider starts to stream a new response.
FetchAnswers(t, id) ==
  /\ turn[t].pc = "fetching"
  /\ issued[id] = None
  /\ issued' = [issued EXCEPT ![id] = turn[t].conv]
  /\ Moves(t, [turn[t] EXCEPT !.pc = "streaming", !.id = id])
  /\ UNCHANGED storeVars

\* The gate takes a frame of the provider.
Relay(t, f) ==
  LET s == turn[t]
  IN  /\ s.pc = "streaming" /\ s.outgoing = <<>>
      /\ s.frames < MaxFrames
      /\ ~ Gate!Raises(s.gate, f)
      /\ Moves(t, [s EXCEPT !.gate = Gate!Accepted(s.gate, f),
                            !.frames = @ + 1,
                            !.outgoing = Kinds(Gate!Relays(s.gate, f))])
      /\ UNCHANGED <<heads, pending, now, issued>>

\* The client accepts a frame before the deadline.
Write(t) ==
  LET s == turn[t]
  IN  /\ s.pc \in {"streaming", "releasing"} /\ s.outgoing # <<>>
      /\ Moves(t, [s EXCEPT !.written = @ \cup {Head(s.outgoing)},
                            !.outgoing = Tail(@)])
      /\ UNCHANGED <<heads, pending, now, issued>>

StreamEnded(t) == turn[t].pc = "streaming" /\ turn[t].outgoing = <<>>

\* Mutant: the terminal frames are released, the commit is left for later.
CommitAfterRelease(t) ==
  LET completion == Gate!Completion(turn[t].gate)
  IN  /\ StreamEnded(t) /\ completion.completedResponseId # None
      /\ Moves(t, [turn[t] EXCEPT !.pc = "releasing", !.committed = now,
                                  !.outgoing = Kinds(completion.terminalFrames)])
      /\ UNCHANGED <<heads, pending, now, issued>>

\* The stream ended with a completion: the mapping is committed, together with
\* the approval request of a demo turn, and only then is the rest released.
Commit(t) ==
  LET s == turn[t]
      completion == Gate!Completion(s.gate)
      id == completion.completedResponseId
      released == Kinds(completion.terminalFrames)
  IN  /\ StreamEnded(t) /\ id # None
      /\ \/ /\ s.demo
            /\ Store!RecordPending(s.conv, id, id, <<ApprovalId(s.conv, id)>>)
            /\ Moves(t, [s EXCEPT !.pc = "releasing", !.committed = now,
                                  !.outgoing = RequestFrames \o released])
         \/ /\ ~ s.demo
            /\ Store!Record(s.conv, id, id, OrdinaryRetention)
            /\ Moves(t, [s EXCEPT !.pc = "releasing", !.committed = now,
                                  !.outgoing = released])
      /\ UNCHANGED issued

\* Mutant: the id of the stream is recorded all the same.
EndIncompleteRecords(t) ==
  /\ StreamEnded(t)
  /\ Gate!Completion(turn[t].gate).completedResponseId = None
  /\ Store!Record(turn[t].conv, turn[t].id, turn[t].id, OrdinaryRetention)
  /\ Moves(t, [turn[t] EXCEPT !.pc = "releasing"])
  /\ UNCHANGED issued

\* The stream ended without one: there is nothing to commit or to release.
EndIncomplete(t) ==
  /\ StreamEnded(t)
  /\ Gate!Completion(turn[t].gate).completedResponseId = None
  /\ Moves(t, [turn[t] EXCEPT !.pc = "releasing"])
  /\ UNCHANGED <<heads, pending, now, issued>>

\* response.end()
Answer(t) ==
  /\ turn[t].pc = "releasing" /\ turn[t].outgoing = <<>>
  /\ Moves(t, Over(turn[t], "answered"))
  /\ UNCHANGED <<heads, pending, now, issued>>

\* Mutant: there is no deadline for writing what was released.
BreakWhileStreaming(t) ==
  /\ turn[t].pc = "streaming"
  /\ Moves(t, Over(turn[t], "broken"))
  /\ UNCHANGED <<heads, pending, now, issued>>

\* The handler throws and destroys the connection: the gate refuses a frame,
\* the provider breaks off, stalls or sends too much, the client leaves or
\* stalls.  A commit that throws rolls back, or leaves the first of the two
\* statements of record().
Break(t) ==
  /\ turn[t].pc \in {"streaming", "releasing"}
  /\ Moves(t, Over(turn[t], "broken"))
  /\ \/ UNCHANGED storeVars
     \/ StreamEnded(t) /\ ~ turn[t].demo /\ Store!SweepHeads
  /\ UNCHANGED issued

-----------------------------------------------------------------------------
(* The process.                                                            *)

Started == {t \in Turns : turn[t].pc \notin Ended \cup {"idle"}}

\* It is gone, and every started turn is cut.
Cut ==
  /\ process' = "down"
  /\ turn' = [t \in Turns |-> IF t \in Started THEN Over(turn[t], "broken")
                                                ELSE turn[t]]
  /\ UNCHANGED storeVars \/ Store!SweepHeads
  /\ UNCHANGED <<starts, issued>>

Crash == process # "down" /\ Cut

\* SIGTERM or SIGINT: no new requests, the started ones run on.
Shutdown ==
  /\ process = "up"
  /\ process' = "draining"
  /\ UNCHANGED <<heads, pending, now, turn, starts, issued>>

\* The last connection closed: the store is closed and the process exits.
Exit ==
  /\ process = "draining" /\ Started = {}
  /\ process' = "down"
  /\ UNCHANGED <<heads, pending, now, turn, starts, issued>>

\* Ten seconds after the signal, whatever is still connected.
ForcedExit == process = "draining" /\ Cut

\* A new process opens the same file and prunes it before it listens.
Restart ==
  /\ process = "down" /\ starts < MaxStarts
  /\ process' = "up"
  /\ starts' = starts + 1
  /\ Store!Prune
  /\ UNCHANGED <<turn, issued>>

Tick ==
  /\ Store!Tick
  /\ UNCHANGED <<turn, process, starts, issued>>

-----------------------------------------------------------------------------
Init ==
  /\ Store!Init
  /\ turn = [t \in Turns |-> Idle]
  /\ process = "down" /\ starts = 0
  /\ issued = [p \in ProviderIds |-> None]

Request(t) ==
  \E c \in Conversations :
    \/ \E demo \in BOOLEAN : Start(t, c, demo)
    \/ \E r \in ResponseIds :
         \/ RefuseTurn(t, c, r)
         \/ \E demo \in BOOLEAN : Continue(t, c, r, demo)
         \/ \E decisions \in DecisionSets :
              Decide(t, c, r, decisions) \/ RefuseDecision(t, c, r, decisions)

Progress(t) ==
  \/ FetchFails(t)
  \/ \E id \in ProviderIds : FetchAnswers(t, id)
  \/ \E f \in StreamFrames(turn[t].id) : Relay(t, f)
  \/ Write(t)
  \/ Commit(t)
  \/ EndIncomplete(t)
  \/ Answer(t)
  \/ Break(t)

Next ==
  \/ \E t \in Turns : Request(t) \/ Progress(t)
  \/ Crash \/ Shutdown \/ Exit \/ ForcedExit \/ Restart \/ Tick

\* What a started turn can always do next: give up at a deadline (60 s for the
\* provider, 60 s for a write), or end a response it has written.
GivesUp(t) == FetchFails(t) \/ Break(t) \/ Answer(t)

\* Nothing is assumed of the provider and the client: only that the timers of the
\* handler fire.
Fairness == \A t \in Turns : WF_vars(GivesUp(t))

Spec == Init /\ [][Next]_vars /\ Fairness

-----------------------------------------------------------------------------
\* The variables have their types; in particular a head never names one of
\* the Agent's own result ids as a provider response.
TypeOK ==
  /\ Store!TypeOK
  /\ \A k \in Store!Keys : heads[k].provider \in ProviderIds \cup {None}
  /\ \A t \in Turns :
       /\ turn[t].pc \in Pcs
       /\ turn[t].conv \in Conversations \cup {None}
       /\ turn[t].prev \in ResponseIds \cup {None}
       /\ turn[t].id \in ResponseIds \cup {None}
       /\ turn[t].provider \in ProviderIds \cup {None}
       /\ turn[t].frames \in 0..MaxFrames
       /\ turn[t].committed \in 0..now \cup {None}
  /\ process \in {"up", "draining", "down"} /\ starts \in 0..MaxStarts
  /\ issued \in [ProviderIds -> Conversations \cup {None}]

Wrote(t, kind) == kind \in turn[t].written

Since(t, retention) == now < turn[t].committed + retention

\* A client that has seen response.completed can continue from it for the
\* whole retention, whatever crashes, restarts and prunes came in between
\* (contracts/stateful-v1.md, Response and errors).
TerminalIsDurable ==
  \A t \in Turns :
    Wrote(t, "completed") =>
      /\ turn[t].committed # None
      /\ Since(t, OrdinaryRetention) => Store!Live(turn[t].conv, turn[t].id)

\* A client that has seen an approval request, or more, can decide it or
\* has: the request is on file for the whole retention.
RequestIsDurable ==
  \A t \in Turns :
    Wrote(t, "request") =>
      /\ turn[t].committed # None
      /\ Since(t, PendingRetention) =>
           \E row \in pending : row.conv = turn[t].conv /\ row.resp = turn[t].id

\* What a client has seen of a turn's end is on file: the file is written first
\* (server.mjs, commitResponse before the terminal frame), with the types of
\* both.
SeenIsDurable == TypeOK /\ TerminalIsDurable /\ RequestIsDurable

\* The frame of an executed action is written for an approved action only, and
\* the file says so for as long as it says anything about it.
ExecutedIsApproved ==
  \A t \in Turns : \A row \in pending :
    Wrote(t, "call") /\ row.conv = turn[t].conv /\ row.resp = turn[t].prev =>
      row.status = "consumed" /\ row.approved = TRUE

\* However many requests answer an approval, with the same decisions or with
\* different ones, before or after a crash, one of them is acted upon.
DecidedByOneTurn ==
  \A t, u \in Turns :
    /\ t # u
    /\ turn[t].decisions # <<>> /\ turn[t].committed # None
    /\ turn[u].decisions # <<>> /\ turn[u].committed # None
    => <<turn[t].conv, turn[t].prev>> # <<turn[u].conv, turn[u].prev>>

\* No turn is under way that went past an approval which can still be decided.
NoTurnPastPending ==
  \A t \in Started :
    turn[t].provider # None => ~ Store!hasPending(turn[t].conv, turn[t].prev)

\* What a turn asks the provider to continue from was given to a turn of the
\* same conversation that completed; a turn that names no response, and only
\* that one, starts afresh.
ProviderStaysInConversation ==
  \A t \in Started :
    /\ turn[t].provider # None =>
         \E u \in Turns :
           /\ turn[u].id = turn[t].provider /\ turn[u].committed # None
           /\ turn[u].conv = turn[t].conv
           /\ issued[turn[t].provider] = turn[t].conv
    /\ turn[t].pc = "streaming" /\ turn[t].prev # None => turn[t].provider # None

\* A stream that failed, broke off, or announced its end too early leaves
\* nothing to continue from.
OnlyCompletionsAdvance ==
  \A t \in Turns :
    /\ turn[t].pc \in Ended /\ turn[t].id \in ProviderIds
    /\ turn[t].committed = None \/ Wrote(t, "failure")
    => heads[<<turn[t].conv, turn[t].id>>] = Store!NoHead

\* Every request that is taken up comes to an end.
TurnsEnd == \A t \in Turns : t \in Started ~> turn[t].pc \in Ended
=============================================================================
