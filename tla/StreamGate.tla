----------------------------- MODULE StreamGate -----------------------------
(***************************************************************************)
(* DurableResponseStreamGate of node/state-store.mjs: it relays the SSE    *)
(* frames of a provider stream, withholds response.completed and what      *)
(* follows it, and decides at the end of the stream whether there is a     *)
(* response to record.                                                     *)
(*                                                                         *)
(* A frame is what #accept tells apart: its event field, what its data is  *)
(* or says, and the response id it carries.  How bytes become frames is    *)
(* not modelled here.  One call of push() or finish() accepts any number   *)
(* of frames and then returns what they relay; when a frame raises, what   *)
(* the call had accepted before is lost with it.                           *)
(***************************************************************************)
EXTENDS Naturals, Sequences

CONSTANTS
  ResponseIds,  \* ids validResponseId accepts
  None,         \* null, and every id validResponseId rejects
  MaxFrames     \* bound: frames of a provider stream

ASSUME NoneIsNoId == None \notin ResponseIds
ASSUME MaxFramesAssumption == MaxFrames \in Nat

\* The event field: absent, unusable (more than one, or empty; a frame over
\* the size limit is refused at the same point), or the name of a type
EventNames == {"none", "unusable", "failure", "created", "completed", "other"}

\* The data: absent, [DONE], not acceptable as JSON (duplicate keys included),
\* JSON without a type, or JSON of a type; "failure" stands for error,
\* response.failed and response.incomplete
DataKinds ==
  {"none", "done", "invalid", "untyped", "failure", "created", "completed", "other"}

Frames ==
  {f \in [event : EventNames, data : DataKinds, id : ResponseIds \cup {None}] :
     f.data \in {"created", "completed"} \/ f.id = None}

\* GENERIC_FAILURE_FRAME
GenericFailure == [event |-> "none", data |-> "failure", id |-> None]

\* new DurableResponseStreamGate()
NewGate ==
  [state |-> "open", createdId |-> None, completedId |-> None, withheld |-> <<>>]

-----------------------------------------------------------------------------
(* #accept, the frame f arriving at the gate g.                            *)

\* The provider reports a failure.
Fails(f) == f.event = "failure" \/ f.data = "failure"

\* Neither [DONE] nor a frame without data
Substantive(f) == f.data \notin {"none", "done"}

\* An event after the stream has ended
AfterEnd(g, f) == Substantive(f) /\ g.state # "open"

\* Mutant: the completion is not compared with what was created.
InvalidIdAlone(g, f) == f.data \in {"created", "completed"} /\ f.id = None

\* An id that cannot be one, or a completion of another response than the
\* one that was created
InvalidId(g, f) ==
  /\ f.data \in {"created", "completed"}
  /\ f.id = None \/ (f.data = "completed" /\ g.createdId \notin {None, f.id})

\* #accept throws.  An event field naming a failure is settled before the
\* data is looked at, a failure in the data before the two are compared.
Raises(g, f) ==
  \/ f.event = "unusable"
  \/ (f.event = "failure" /\ g.state # "open")
  \/ /\ f.event \notin {"unusable", "failure"}
     /\ \/ (~ Substantive(f) /\ f.event # "none")
        \/ AfterEnd(g, f)
        \/ f.data \in {"invalid", "untyped"}
        \/ (f.data # "failure" /\ f.event \notin {"none", f.data})
        \/ InvalidId(g, f)

\* The first, valid response.completed of a stream that has not ended
Completes(g, f) == f.data = "completed" /\ ~ Fails(f) /\ ~ Raises(g, f)

\* Mutant: [DONE] is left to the client to interpret.
EndsOnFailureOnly(g, f) == ~ Raises(g, f) /\ Fails(f)

\* A failure, or a [DONE] that comes before any completion
EndsEarly(g, f) ==
  /\ ~ Raises(g, f)
  /\ Fails(f) \/ (f.data = "done" /\ g.state = "open")

\* A frame that is kept back to follow the terminal one
Follows(g, f) == ~ Raises(g, f) /\ g.state = "completed"

\* The gate after a frame it does not throw at
Accepted(g, f) ==
  [state |-> CASE Completes(g, f) -> "completed"
               [] EndsEarly(g, f) -> "failed"
               [] OTHER -> g.state,
   createdId |-> IF f.data = "created" /\ ~ Fails(f) THEN f.id ELSE g.createdId,
   completedId |-> IF Completes(g, f) THEN f.id ELSE g.completedId,
   withheld |-> IF Completes(g, f) \/ Follows(g, f)
                  THEN Append(g.withheld, f) ELSE g.withheld]

\* Mutant: the terminal frame is relayed as it comes.
RelaysTerminal(g, f) ==
  CASE Follows(g, f) -> <<>>
    [] Fails(f) -> <<GenericFailure>>
    [] OTHER -> <<f>>

\* Mutant: what follows the terminal frame is relayed as it comes.
RelaysSuffix(g, f) ==
  CASE Completes(g, f) -> <<>>
    [] Fails(f) -> <<GenericFailure>>
    [] OTHER -> <<f>>

\* What the frame adds to the output of the call
Relays(g, f) ==
  CASE Completes(g, f) \/ Follows(g, f) -> <<>>
    [] Fails(f) -> <<GenericFailure>>
    [] OTHER -> <<f>>

\* The gate after a frame it throws at: data that is not JSON fails it first.
\* (What an invalid response.created does to createdId nobody reads any more.)
Raised(g, f) ==
  IF /\ f.data = "invalid" /\ g.state = "open"
     /\ f.event \notin {"unusable", "failure"}
  THEN [g EXCEPT !.state = "failed"]
  ELSE g

\* What finish() returns besides the frames it relays
Completion(g) ==
  [completedResponseId |-> g.completedId,
   streamOutcome |-> IF g.state = "open" THEN "incomplete" ELSE g.state,
   terminalFrames |-> g.withheld]

-----------------------------------------------------------------------------
(* One gate, fed by one provider stream.                                   *)

VARIABLES
  gate,     \* the gate
  output,   \* what the running call of push() or finish() will return
  relayed,  \* what the calls have returned
  phase,    \* "streaming", "thrown" or "finished"
  seen      \* history: the frames of the provider so far

vars == <<gate, output, relayed, phase, seen>>

Init ==
  /\ gate = NewGate
  /\ output = <<>> /\ relayed = <<>> /\ seen = <<>>
  /\ phase = "streaming"

Arrive(f) ==
  /\ phase = "streaming"
  /\ Len(seen) < MaxFrames
  /\ seen' = Append(seen, f)

\* A frame inside push(), or the unterminated last one inside finish()
Accept(f) ==
  /\ Arrive(f)
  /\ ~ Raises(gate, f)
  /\ gate' = Accepted(gate, f)
  /\ output' = output \o Relays(gate, f)
  /\ UNCHANGED <<relayed, phase>>

Throw(f) ==
  /\ Arrive(f)
  /\ Raises(gate, f)
  /\ gate' = Raised(gate, f)
  /\ output' = <<>>
  /\ phase' = "thrown"
  /\ UNCHANGED relayed

\* push() returns.
Return ==
  /\ phase = "streaming" /\ output # <<>>
  /\ relayed' = relayed \o output
  /\ output' = <<>>
  /\ UNCHANGED <<gate, phase, seen>>

\* finish() returns.
Finish ==
  /\ phase = "streaming"
  /\ relayed' = relayed \o output
  /\ output' = <<>>
  /\ phase' = "finished"
  /\ UNCHANGED <<gate, seen>>

Next == Return \/ Finish \/ \E f \in Frames : Accept(f) \/ Throw(f)

Spec == Init /\ [][Next]_vars

-----------------------------------------------------------------------------
\* The gate is in one of the states finish() tells apart, and only frames go
\* through it.
TypeOK ==
  /\ gate \in [state : {"open", "failed", "completed"},
               createdId : ResponseIds \cup {None},
               completedId : ResponseIds \cup {None},
               withheld : Seq(Frames)]
  /\ output \in Seq(Frames) /\ relayed \in Seq(Frames) /\ seen \in Seq(Frames)
  /\ phase \in {"streaming", "thrown", "finished"}

Terminal(f) == Fails(f) \/ f.data = "done"

Names(f, id) == f.data = "completed" /\ f.id = id /\ ~ Fails(f)

\* One frame of the stream completes the response id; none before it ends the
\* stream, and nothing but keep-alives and [DONE] comes after it.
CompletedBy(id) ==
  \E i \in DOMAIN seen :
    /\ Names(seen[i], id)
    /\ \A j \in 1..(i - 1) : ~ Terminal(seen[j])
    /\ \A j \in (i + 1)..Len(seen) : ~ Substantive(seen[j]) /\ ~ Fails(seen[j])

\* A completion that will be persisted is the provider's own: it named it in
\* a response.completed with no failure and no [DONE] before it and nothing
\* but keep-alives and [DONE] after it (contracts/stateful-v1.md, Response and
\* errors: an early terminal is irreversible and must never be followed by a
\* persisted completion).
NoCompletionAfterTerminal ==
  phase = "finished" /\ Completion(gate).completedResponseId # None =>
    CompletedBy(Completion(gate).completedResponseId)

\* The terminal frame is never among those relayed while the stream runs: it
\* is left to the caller, which commits before it releases it.
CompletionWithheld ==
  \A s \in {relayed, output} : \A i \in DOMAIN s : s[i].data # "completed"

\* Until a frame raises, what is relayed and then withheld is the provider's
\* stream in its order, nothing lost and nothing added, each failure replaced
\* by the one frame that carries no provider detail.
StreamPreserved ==
  phase # "thrown" =>
    relayed \o output \o gate.withheld =
      [i \in DOMAIN seen |-> IF Fails(seen[i]) THEN GenericFailure ELSE seen[i]]

\* The response recorded is the one the client was told about: it is the id
\* of the last response.created, if there was one.
CompletedIsCreated ==
  phase # "thrown" /\ gate.completedId # None =>
    \A i \in DOMAIN seen :
      seen[i].data = "created" /\ ~ Fails(seen[i]) =>
        \E j \in i..Len(seen) :
          seen[j].data = "created" /\ seen[j].id = gate.completedId

\* What the gate remembers of the frames it took: as long as it is open, none
\* of them ended the stream and nothing is withheld; once it failed there is
\* nothing to withhold; once it completed, one frame completed it, and it was
\* the last that mattered.
StateSumsUp ==
  phase # "thrown" =>
    /\ gate.state = "open" => \A j \in DOMAIN seen : ~ Terminal(seen[j])
    /\ gate.state # "completed" => gate.completedId = None /\ gate.withheld = <<>>
    /\ gate.state = "completed" => gate.completedId # None /\ CompletedBy(gate.completedId)

\* The id of the last response.created is kept, and a completion agrees with it.
CreatedSumsUp ==
  phase # "thrown" =>
    /\ gate.completedId # None => gate.createdId \in {None, gate.completedId}
    /\ \A i \in DOMAIN seen :
         seen[i].data = "created" /\ ~ Fails(seen[i]) =>
           /\ gate.createdId # None
           /\ \E j \in i..Len(seen) :
                seen[j].data = "created" /\ seen[j].id = gate.createdId

\* The inductive invariant: what the proofs carry from frame to frame.
IInv == TypeOK /\ CompletionWithheld /\ StreamPreserved /\ StateSumsUp /\ CreatedSumsUp

\* A gate that has failed stays failed, and a completed one never changes its
\* mind about the response.
EndIsIrreversible ==
  [][gate.state # "open" =>
       /\ gate'.state = gate.state
       /\ gate'.completedId = gate.completedId]_vars
=============================================================================
