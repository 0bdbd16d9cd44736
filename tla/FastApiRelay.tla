---------------------------- MODULE FastApiRelay ----------------------------
(***************************************************************************)
(* A turn of fastapi/app.py that reaches the provider: responses() from    *)
(* the making of its httpx client on, and relay(), the asynchronous        *)
(* generator that streams the answer.  What the two stores do is in        *)
(* SharedStore and StreamGate; here it is who closes the connection to the *)
(* provider, and what the client has been told by then.                    *)
(*                                                                         *)
(* The generator runs only while the framework asks it for a frame.        *)
(* Between two frames it is suspended at its yield, and a client that goes *)
(* away is noticed there, while the provider is waited for, or before the  *)
(* generator was asked for anything.  A generator that is dropped at a     *)
(* yield is finalized by the event loop later; one that never ran has no   *)
(* finally to run.                                                         *)
(***************************************************************************)
EXTENDS Naturals, Sequences

CONSTANTS
  MaxFrames  \* bound: frames the gate relays of a provider stream

ASSUME MaxFramesAssumption == MaxFrames \in Nat

Kinds == {"artifact", "relayed", "request", "terminal"}

VARIABLES
  demo,      \* the input is the one of the approval demo
  at,        \* where the turn is
  phase,     \* of the generator: "new", "opening", "streaming", "finished",
             \* "committed"
  queue,     \* frames it yields before it awaits anything else
  sent,      \* frames the client has taken
  gate,      \* terminal state of the stream gate
  stored,    \* the mapping of the completed response is on file
  status,    \* of the answer, 0 before there is one
  client,    \* httpx.AsyncClient: "open" or "closed"
  upstream,  \* the response of the provider: "none", "open" or "closed"
  relayed    \* frames relayed so far

vars ==
  <<demo, at, phase, queue, sent, gate, stored, status, client, upstream, relayed>>

-----------------------------------------------------------------------------
(* responses(), up to its return                                           *)

\* client.send times out or raises httpx.HTTPError.
SendFails ==
  /\ at = "sending"
  /\ at' = "over" /\ status' = 502 /\ client' = "closed"
  /\ UNCHANGED <<demo, phase, queue, sent, gate, stored, upstream, relayed>>

\* The provider answers: with an error, with something that is no event
\* stream, or with a stream, whose generator is handed to the framework.
SendAnswers ==
  /\ at = "sending"
  /\ \/ at' = "errorBody" /\ upstream' = "open" /\ UNCHANGED <<client, status>>
     \/ /\ at' = "over" /\ status' = 502
        /\ upstream' = "closed" /\ client' = "closed"
     \/ /\ at' = "handed" /\ status' = 200
        /\ upstream' = "open" /\ UNCHANGED client
  /\ UNCHANGED <<demo, phase, queue, sent, gate, stored, relayed>>

\* The body of the error is read, is too large, or takes too long; 409 for
\* the loss of the continuation.
ErrorRead ==
  /\ at = "errorBody"
  /\ at' = "over" /\ status' \in {409, 502}
  /\ upstream' = "closed" /\ client' = "closed"
  /\ UNCHANGED <<demo, phase, queue, sent, gate, stored, relayed>>

\* aiter_raw raises httpx.HTTPError, which nothing in the handler catches.
ErrorBreaks ==
  /\ at = "errorBody"
  /\ at' = "over" /\ status' = 500
  /\ UNCHANGED <<demo, phase, queue, sent, gate, stored, client, upstream, relayed>>

-----------------------------------------------------------------------------
(* relay()                                                                 *)

\* The first frame is asked for: the artifact, if there is one, ahead of the
\* deadline of the stream; an artifact URL that does not validate raises.
Start ==
  /\ at = "handed"
  /\ \/ at' = "running" /\ queue' \in {<<>>, <<"artifact">>}
     \/ at' = "finally" /\ UNCHANGED queue
  /\ phase' = "opening"
  /\ UNCHANGED <<demo, sent, gate, stored, status, client, upstream, relayed>>

Yield ==
  /\ at = "running" /\ queue # <<>>
  /\ at' = "yielded"
  /\ UNCHANGED <<demo, phase, queue, sent, gate, stored, relayed>>
  /\ UNCHANGED <<status, client, upstream>>

\* The client takes the frame and the next one is asked for.
Taken ==
  /\ at = "yielded"
  /\ at' = "running"
  /\ sent' = Append(sent, Head(queue))
  /\ queue' = Tail(queue)
  /\ UNCHANGED <<demo, phase, gate, stored, relayed, status, client, upstream>>

\* The stream is awaited under its deadline, which may be over already.
Await ==
  /\ at = "running" /\ phase \in {"opening", "streaming"} /\ queue = <<>>
  /\ at' = "reading" /\ phase' = "streaming"
  /\ UNCHANGED <<demo, queue, sent, gate, stored, relayed>>
  /\ UNCHANGED <<status, client, upstream>>

\* The gate after a chunk, or after finish(): it relays some frames.
Gated ==
  /\ \E n \in 0 .. MaxFrames - relayed :
        /\ queue' = [i \in 1 .. n |-> "relayed"]
        /\ relayed' = relayed + n
  /\ gate' \in IF gate = "open" THEN {"open", "completed", "failed"} ELSE {gate}

Chunk ==
  /\ at = "reading"
  /\ at' = "running"
  /\ Gated
  /\ UNCHANGED <<demo, phase, sent, stored, status, client, upstream>>

StreamEnds ==
  /\ at = "reading"
  /\ at' = "running" /\ phase' = "finished"
  /\ Gated
  /\ UNCHANGED <<demo, sent, stored, status, client, upstream>>

\* Too much, a frame the gate refuses, a broken stream, or the deadline
Raise ==
  /\ at = "reading"
  /\ at' = "finally"
  /\ UNCHANGED <<demo, phase, queue, sent, gate, stored, relayed>>
  /\ UNCHANGED <<status, client, upstream>>

\* Mutant: the terminal frame is in the list before the store is called.
CommitLate ==
  /\ at = "running" /\ phase = "finished" /\ queue = <<>>
  /\ \/ /\ at' = "running" /\ phase' = "committed"
        /\ stored' \in {stored, gate = "completed"}
        /\ queue' = IF gate = "completed" THEN <<"terminal">> ELSE <<>>
     \/ at' = "finally" /\ UNCHANGED <<phase, stored, queue>>
  /\ UNCHANGED <<demo, sent, gate, status, client, upstream, relayed>>

\* Mutant: the request follows what ends the stream.
CommitTerminalFirst ==
  /\ at = "running" /\ phase = "finished" /\ queue = <<>>
  /\ at' = "running" /\ phase' = "committed"
  /\ stored' = (gate = "completed")
  /\ queue' = IF gate = "completed" THEN <<"terminal", "request", "request">>
              ELSE <<>>
  /\ UNCHANGED <<demo, sent, gate, status, client, upstream, relayed>>

\* record_pending or record, one transaction, before the frames behind it;
\* a store that raises leaves nothing.
Commit ==
  /\ at = "running" /\ phase = "finished" /\ queue = <<>>
  /\ \/ /\ at' = "running" /\ phase' = "committed"
        /\ stored' = (gate = "completed")
        /\ queue' = IF gate # "completed" THEN <<>>
                    ELSE IF demo
                    THEN <<"request", "request", "terminal">> ELSE <<"terminal">>
     \/ at' = "finally" /\ UNCHANGED <<phase, stored, queue>>
  /\ UNCHANGED <<demo, sent, gate, status, client, upstream, relayed>>

Return ==
  /\ at = "running" /\ phase = "committed" /\ queue = <<>>
  /\ at' = "finally"
  /\ UNCHANGED <<demo, phase, queue, sent, gate, stored, relayed>>
  /\ UNCHANGED <<status, client, upstream>>

\* Mutant: the client is left to the garbage collector.
CloseUpstream ==
  /\ at = "finally"
  /\ at' = "over" /\ upstream' = "closed"
  /\ UNCHANGED <<demo, phase, queue, sent, gate, stored, status, client, relayed>>

\* The finally of relay()
Close ==
  /\ at = "finally"
  /\ at' = "over" /\ upstream' = "closed" /\ client' = "closed"
  /\ UNCHANGED <<demo, phase, queue, sent, gate, stored, status, relayed>>

\* The client goes away and the framework cancels its task; the deadline of
\* the stream does the same to a task that waits for the client.
Cancel ==
  /\ \/ at = "handed" /\ at' = "over"
     \/ at = "reading" /\ at' = "finally"
     \/ at = "yielded" /\ at' = "dropped"
  /\ UNCHANGED <<demo, phase, queue, sent, gate, stored, relayed>>
  /\ UNCHANGED <<status, client, upstream>>

\* The event loop throws GeneratorExit into the generator at its yield.
Finalize ==
  /\ at = "dropped"
  /\ at' = "finally"
  /\ UNCHANGED <<demo, phase, queue, sent, gate, stored, relayed>>
  /\ UNCHANGED <<status, client, upstream>>

Init ==
  /\ demo \in BOOLEAN
  /\ at = "sending"
  /\ phase = "new"
  /\ queue = <<>>
  /\ sent = <<>>
  /\ gate = "open"
  /\ stored = FALSE
  /\ status = 0
  /\ client = "open"
  /\ upstream = "none"
  /\ relayed = 0

\* What the process does by itself, once it may run
Run == Start \/ Yield \/ Await \/ Commit \/ Return \/ Close \/ Finalize

\* Mutant: only the sending has a deadline.
DeadlineOfSending == SendFails \/ ErrorRead

\* The 60 seconds are over: of the sending, of the error body, or of the
\* stream from its first read to its end, with its waiting for the client.  At
\* the artifact, which is yielded before, and behind the end none is running.
Deadline ==
  \/ SendFails
  \/ ErrorRead
  \/ Raise
  \/ at = "yielded" /\ phase = "streaming" /\ Cancel

Next ==
  \/ Run
  \/ SendFails
  \/ SendAnswers
  \/ ErrorRead
  \/ ErrorBreaks
  \/ Taken
  \/ Chunk
  \/ StreamEnds
  \/ Raise
  \/ Cancel

Spec == Init /\ [][Next]_vars

\* The event loop runs what may run.  The deadline is one of the whole
\* stream: chunks that keep coming do not put it off.
FairSpec == Spec /\ WF_vars(Run) /\ SF_vars(Deadline)

-----------------------------------------------------------------------------

TypeOK ==
  /\ at \in {"sending", "errorBody", "handed", "running", "yielded", "reading",
            "dropped", "finally", "over"}
  /\ phase \in {"new", "opening", "streaming", "finished", "committed"}
  /\ queue \in Seq(Kinds) /\ sent \in Seq(Kinds)
  /\ gate \in {"open", "completed", "failed"}
  /\ stored \in BOOLEAN /\ demo \in BOOLEAN
  /\ status \in {0, 200, 409, 500, 502}
  /\ client \in {"open", "closed"} /\ upstream \in {"none", "open", "closed"}
  /\ relayed \in 0 .. MaxFrames

\* A turn that is over holds no connection to the provider.  Two ends of a
\* turn are excepted: the error body that breaks off, and the client that
\* left before the generator was asked for its first frame.
ClosedWhenOver ==
  at = "over" =>
    \/ client = "closed" /\ upstream # "open"
    \/ status = 500
    \/ status = 200 /\ phase = "new"

\* No frame that ends the turn, and no request for an approval, is on its way
\* before its mapping is on file.
OfferedIsStored ==
  \A i \in DOMAIN (sent \o queue) :
     (sent \o queue)[i] \in {"request", "terminal"} => stored

\* Only a stream that was read to its end and completed is recorded.
StoredIsCompleted == stored => gate = "completed" /\ phase = "committed"

\* The order of the frames of a turn: at most one artifact, which is first,
\* and at most one terminal frame, which is last
Before(early, late) ==
  /\ late # "artifact" /\ early # "terminal"
  /\ early = "request" => late # "relayed"

\* The client gets the artifact, what the gate relays, the request for an
\* approval and the terminal frame in this order, and once the terminal frame
\* is sent, nothing.
FramesInOrder ==
  LET frames == sent \o queue IN
  \A i, j \in DOMAIN frames : i < j => Before(frames[i], frames[j])

\* A turn ends by itself, whatever the provider does and however slowly the
\* client reads its stream, but for two things nothing bounds: a client that
\* neither takes the artifact nor leaves, and one that does so once the stream
\* of the provider is over.
EndsOrWaits ==
  \/ <>(at = "over")
  \/ <>[](at = "yielded" /\ phase \in {"opening", "finished", "committed"})
=============================================================================
