------------------------------ MODULE Showcase ------------------------------
(***************************************************************************)
(* POST /showcase/v1/responses of the Node server: node/showcase.mjs and   *)
(* its branch of the handler in node/server.mjs.  A turn uploads one file  *)
(* to the platform and plays a fixed script of events, with a pause in it. *)
(* The server keeps nothing of a turn: what continues a conversation is an *)
(* HMAC of it under the key.                                               *)
(*                                                                         *)
(* The platform and the client are external: an upload may fail before or  *)
(* after the platform keeps the file, its answer may be anything, and the  *)
(* client may stop reading, or leave, at any moment.                       *)
(***************************************************************************)
EXTENDS Naturals, Sequences

CONSTANTS
  Turns,        \* requests that passed authorization and the contract
  Conversations,
  Failing,      \* the turns whose input asks for a failure
  MaxRestarts,  \* bound: restarts of the server
  None

ASSUME TurnAssumption == Failing \subseteq Turns /\ MaxRestarts \in Nat

\* showcaseEvents, the runs of events between two that matter as one; the
\* pause comes behind "second tool"
Script == <<"reasoning", "first tool", "second tool", "file", "text", "completed">>

Events ==
  {"reasoning", "first tool", "second tool", "file", "text", "completed",
   "partial", "failed"}

Keys == 0 .. MaxRestarts
Ids == Keys \X Conversations

ASSUME NoneAssumption == None \notin Ids

\* What a request names: a response to go on behind, any one, or none, and the
\* conversation
Requests == [previous : Ids \cup {None}, conversation : Conversations]

NoRequest == [previous |-> None, conversation |-> None]

VARIABLES
  key,       \* AGENT_INVOCATION_KEY of the process
  restarts,
  pc,        \* of each turn's handler
  request,   \* of each turn, NoRequest before
  status,    \* the status sent, 0 before
  sent,      \* the events written
  client,    \* "reading", "stuck" or "gone"
  received,  \* the events the client has got
  files,     \* the turns whose file the platform keeps
  responseId, \* of each turn's handler, which "completed" will carry, or None
  ranUnder   \* history: the key of the process that accepted the turn, or None

vars == <<key, restarts, pc, request, status, sent, client, received, files,
          responseId, ranUnder>>

\* Mutant: every process has a key of its own.
IdOfProcess(t) == <<restarts, request[t].conversation>>

\* showcaseResponseId
Id(t) == <<key, request[t].conversation>>
Goto(t, step) == pc' = [pc EXCEPT ![t] = step]
Running == {t \in Turns : pc[t] \notin {"idle", "over"}}

\* A request comes.
Begin(t) ==
  /\ pc[t] = "idle"
  /\ \E r \in Requests : request' = [request EXCEPT ![t] = r]
  /\ Goto(t, "begun")
  /\ UNCHANGED <<key, restarts, status, sent, client, received, files,
                 responseId, ranUnder>>

Answer(t, code) == status' = [status EXCEPT ![t] = code]

\* continuationLost
Lost(t) ==
  /\ pc[t] = "begun" /\ request[t].previous \notin {None, Id(t)}
  /\ Answer(t, 409) /\ Goto(t, "over")
  /\ UNCHANGED <<key, restarts, request, sent, client, received, files,
                 responseId, ranUnder>>

\* The id of the response is computed before the turn has run.
Accept(t) ==
  /\ pc[t] = "begun" /\ request[t].previous \in {None, Id(t)}
  /\ responseId' = [responseId EXCEPT ![t] = Id(t)]
  /\ ranUnder' = [ranUnder EXCEPT ![t] = key]
  /\ IF t \in Failing THEN Answer(t, 200) /\ Goto(t, "playing")
     ELSE UNCHANGED status /\ Goto(t, "uploading")
  /\ UNCHANGED <<key, restarts, request, sent, client, received, files>>

\* Mutant: the answer of the platform is not looked at.
UploadUnchecked(t) ==
  /\ pc[t] = "uploading"
  /\ files' \in {files, files \cup {t}}
  /\ Answer(t, 200) /\ Goto(t, "playing")
  /\ UNCHANGED <<key, restarts, request, sent, client, received, responseId,
                 ranUnder>>

\* The platform keeps the file and says which it is.
Upload(t) ==
  /\ pc[t] = "uploading"
  /\ files' = files \cup {t}
  /\ Answer(t, 200) /\ Goto(t, "playing")
  /\ UNCHANGED <<key, restarts, request, sent, client, received, responseId,
                 ranUnder>>

\* The fetch or its body breaks off, is too large or times out (500), or the
\* answer names no file (502); the platform may have kept the file.
UploadFails(t) ==
  /\ pc[t] = "uploading"
  /\ files' \in {files, files \cup {t}}
  /\ \E code \in {500, 502} : Answer(t, code)
  /\ Goto(t, "over")
  /\ UNCHANGED <<key, restarts, request, sent, client, received, responseId,
                 ranUnder>>

\* What is written with writeFrame; the end of a failing turn is not.
Play(t) == IF t \in Failing THEN <<"partial">> ELSE Script

\* Where the handler goes behind an event: the second tool has a pause.
Behind(event) == IF event = "second tool" THEN "holding" ELSE "playing"

\* writeFrame: the connection takes the event at once, or the handler waits
\* for it to drain.  A connection that is gone takes nothing.
Write(t) ==
  /\ pc[t] = "playing" /\ client[t] # "gone" /\ Len(sent[t]) < Len(Play(t))
  /\ LET event == Play(t)[Len(sent[t]) + 1] IN
       /\ sent' = [sent EXCEPT ![t] = Append(@, event)]
       /\ Goto(t, Behind(event)) \/ Goto(t, "draining")
  /\ UNCHANGED <<key, restarts, request, status, client, received, files,
                 responseId, ranUnder>>

\* The client gets the next event.
Receive(t) ==
  /\ client[t] = "reading" /\ Len(received[t]) < Len(sent[t])
  /\ received' = [received EXCEPT ![t] = Append(@, sent[t][Len(@) + 1])]
  /\ UNCHANGED <<key, restarts, pc, request, status, sent, client, files,
                 responseId, ranUnder>>

Drain(t) ==
  /\ pc[t] = "draining" /\ client[t] = "reading" /\ received[t] = sent[t]
  /\ Goto(t, Behind(sent[t][Len(sent[t])]))
  /\ UNCHANGED <<key, restarts, request, status, sent, client, received, files,
                 responseId, ranUnder>>

\* The timer of the pause; nobody looks at the client meanwhile.
Resume(t) ==
  /\ pc[t] = "holding"
  /\ Goto(t, "playing")
  /\ UNCHANGED <<key, restarts, request, status, sent, client, received, files,
                 responseId, ranUnder>>

\* response.end, with the terminal event of a failing turn
End(t) ==
  /\ pc[t] = "playing" /\ sent[t] = Play(t)
  /\ sent' = IF t \in Failing /\ client[t] # "gone"
             THEN [sent EXCEPT ![t] = Append(@, "failed")] ELSE sent
  /\ Goto(t, "over")
  /\ UNCHANGED <<key, restarts, request, status, client, received, files,
                 responseId, ranUnder>>

\* Mutant: a client that left before the write is not noticed.
BreakWaiting(t) ==
  /\ pc[t] = "draining"
  /\ client' = [client EXCEPT ![t] = "gone"]
  /\ Goto(t, "over")
  /\ UNCHANGED <<key, restarts, request, status, sent, received, files,
                 responseId, ranUnder>>

\* writeFrame rejects: the client left before the write or during it, or it
\* takes too little until the deadline; the connection is destroyed.
Break(t) ==
  /\ \/ pc[t] = "draining"
     \/ pc[t] = "playing" /\ client[t] = "gone" /\ Len(sent[t]) < Len(Play(t))
  /\ client' = [client EXCEPT ![t] = "gone"]
  /\ Goto(t, "over")
  /\ UNCHANGED <<key, restarts, request, status, sent, received, files,
                 responseId, ranUnder>>

\* The client stops reading, or leaves.
Waver(t) ==
  /\ client[t] # "gone" /\ pc[t] # "idle"
  /\ \E c \in {"stuck", "gone"} : c # client[t] /\ client' = [client EXCEPT ![t] = c]
  /\ UNCHANGED <<key, restarts, pc, request, status, sent, received, files,
                 responseId, ranUnder>>

\* The process dies and another one starts, with a new key if the operator
\* rotates it.
Restart ==
  /\ restarts < MaxRestarts /\ restarts' = restarts + 1
  /\ key' \in {key, restarts'}
  /\ pc' = [t \in Turns |-> IF t \in Running THEN "over" ELSE pc[t]]
  /\ client' = [t \in Turns |-> IF t \in Running THEN "gone" ELSE client[t]]
  /\ UNCHANGED <<request, status, sent, received, files,
                 responseId, ranUnder>>

Init ==
  /\ key = 0 /\ restarts = 0
  /\ pc = [t \in Turns |-> "idle"]
  /\ request = [t \in Turns |-> NoRequest]
  /\ status = [t \in Turns |-> 0]
  /\ sent = [t \in Turns |-> <<>>] /\ received = [t \in Turns |-> <<>>]
  /\ client = [t \in Turns |-> "reading"]
  /\ files = {}
  /\ responseId = [t \in Turns |-> None] /\ ranUnder = [t \in Turns |-> None]

\* What the handler of a turn, and its timers, do
Step(t) ==
  \/ Lost(t) \/ Accept(t) \/ Upload(t) \/ UploadFails(t)
  \/ Write(t) \/ Drain(t) \/ Resume(t) \/ End(t) \/ Break(t)

Next ==
  \/ \E t \in Turns : Begin(t) \/ Step(t) \/ Waver(t) \/ Receive(t)
  \/ Restart

Spec == Init /\ [][Next]_vars

\* The upload has a deadline, a frame has one, and the pause is over at its
\* time; the client owes nothing.
FairSpec == Spec /\ \A t \in Turns : WF_vars(Step(t))

IsPrefixOf(s, u) == Len(s) <= Len(u) /\ \A i \in DOMAIN s : s[i] = u[i]

TypeOK ==
  /\ key \in Keys /\ restarts \in Keys
  /\ pc \in [Turns -> {"idle", "begun", "uploading", "playing", "draining",
                       "holding", "over"}]
  /\ request \in [Turns -> Requests \cup {NoRequest}]
  /\ responseId \in [Turns -> Ids \cup {None}]
  /\ ranUnder \in [Turns -> Keys \cup {None}]
  /\ status \in [Turns -> {0, 200, 409, 500, 502}]
  /\ client \in [Turns -> {"reading", "stuck", "gone"}]
  /\ files \subseteq Turns
  /\ sent \in [Turns -> Seq(Events)] /\ received \in [Turns -> Seq(Events)]
  /\ \A t \in Turns : /\ IsPrefixOf(sent[t], Append(Play(t), "failed"))
                      /\ IsPrefixOf(received[t], sent[t])

\* A client that was told of a file finds it on the platform, and one that saw
\* its turn completed was told of it.
TheFileIsThere ==
  \A t \in Turns : \A i \in DOMAIN received[t] :
    received[t][i] \in {"file", "completed"} => t \in files

\* A file nobody is told of is one of a turn that failed, lost its client or
\* is not over.
OrphansAreOfBrokenTurns ==
  \A t \in files :
    pc[t] = "over" /\ status[t] = 200 /\ client[t] # "gone"
      => \E i \in DOMAIN sent[t] : sent[t][i] = "file"

\* The platform and the client know of the same files, but for turns that broke.
FilesAreAccountedFor == TheFileIsThere /\ OrphansAreOfBrokenTurns

\* The client of u holds the id of its response.
Holds(u) == \E i \in DOMAIN received[u] : received[u][i] = "completed"

\* If a step decides on t and t names the response the client of u holds, t is
\* taken up just if u was of its conversation and ran under the key of now.
DecidedByRun(t, u) ==
  (/\ pc[t] = "begun" /\ pc'[t] # "begun" /\ restarts' = restarts
   /\ Holds(u) /\ request[t].previous = responseId[u])
  => (status'[t] # 409
        <=> /\ key = ranUnder[u]
            /\ request[t].conversation = request[u].conversation)

\* A completed turn can be continued just in its own conversation and as long as
\* the key is the one it ran under, however often the server was restarted since,
\* and were it while the last event of that turn was on its way.
ContinuedWhereItRan == [][\A t, u \in Turns : DecidedByRun(t, u)]_vars

\* A turn that began ends, whatever the platform and the client do.
Ends == \A t \in Turns : pc[t] = "begun" ~> pc[t] = "over"
=============================================================================
