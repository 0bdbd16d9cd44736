--------------------------- MODULE ShowcaseProofs ---------------------------
(***************************************************************************)
(* Proofs about Showcase, for every set of turns and conversations and any *)
(* number of restarts.                                                     *)
(*                                                                         *)
(* None of the three properties is inductive: what a client was told       *)
(* depends on what was written (received is a prefix of sent, sent one of  *)
(* the script), what was written on the upload that came before it, and    *)
(* what is taken up on which key the id a client holds was made with.      *)
(***************************************************************************)
EXTENDS Showcase, TLAPS

Types ==
  /\ key \in Keys /\ restarts \in Keys
  /\ pc \in [Turns -> {"idle", "begun", "uploading", "playing", "draining",
                       "holding", "over"}]
  /\ request \in [Turns -> Requests \cup {NoRequest}]
  /\ responseId \in [Turns -> Ids \cup {None}]
  /\ ranUnder \in [Turns -> Keys \cup {None}]
  /\ status \in [Turns -> {0, 200, 409, 500, 502}]
  /\ client \in [Turns -> {"reading", "stuck", "gone"}]
  /\ files \subseteq Turns
  /\ sent \in [Turns -> Seq(Events)] /\ received \in [Turns -> Seq(Events)]

Prefixes ==
  \A t \in Turns : /\ IsPrefixOf(sent[t], Append(Play(t), "failed"))
                   /\ IsPrefixOf(received[t], sent[t])

\* Only a turn that uploaded its file, or that is asked to fail, writes.
Uploaded ==
  \A t \in Turns :
    /\ pc[t] \in {"playing", "draining", "holding"} => t \in Failing \cup files
    /\ Len(sent[t]) > 0 => t \in Failing \cup files
    /\ pc[t] = "uploading" \/ t \in files => t \notin Failing

\* A request that came is one.
Named == \A t \in Turns : pc[t] # "idle" => request[t] \in Requests

\* Nothing is told of a turn before it is accepted.
Untold ==
  \A t \in Turns : pc[t] \in {"idle", "begun"} => Len(sent[t]) = 0 /\ status[t] = 0

\* The id a turn writes was made from its conversation and the key of the process
\* that ran it, whatever the key is by now.
OwnIds ==
  \A t \in Turns :
    (pc[t] \in {"uploading", "playing", "draining", "holding"} \/ Len(sent[t]) > 0)
      => responseId[t] \in Ids /\ responseId[t] = <<ranUnder[t], request[t].conversation>>

IInv ==
  /\ Types /\ Prefixes /\ Uploaded
  /\ Named /\ Untold /\ OwnIds
  /\ OrphansAreOfBrokenTurns

-----------------------------------------------------------------------------
\* What a turn plays is a sequence of events.
LEMMA PlayType ==
  ASSUME NEW t \in Turns
  PROVE  /\ Play(t) \in Seq(Events)
         /\ Append(Play(t), "failed") \in Seq(Events)
<1>1. Script \in Seq(Events) /\ <<"partial">> \in Seq(Events)
  BY DEF Script, Events
<1>2. Play(t) \in Seq(Events)
  BY <1>1 DEF Play
<1>3. "failed" \in Events
  BY DEF Events
<1> DEFINE p == Play(t)
<1> HIDE DEF p
<1>4. p \in Seq(Events) => Append(p, "failed") \in Seq(Events)
  BY <1>3
<1> QED BY <1>2, <1>4 DEF p

LEMMA EmptyIsPrefix ==
  ASSUME NEW S, NEW u \in Seq(S)
  PROVE  IsPrefixOf(<<>>, u)
BY DEF IsPrefixOf

\* One more event of a prefix's continuation makes a longer prefix.
LEMMA PrefixGrows ==
  ASSUME NEW S, NEW s \in Seq(S), NEW u \in Seq(S), IsPrefixOf(s, u),
         Len(s) < Len(u)
  PROVE  IsPrefixOf(Append(s, u[Len(s) + 1]), u)
BY DEF IsPrefixOf

\* A prefix of a sequence is one of everything that continues it.
LEMMA PrefixOfAppend ==
  ASSUME NEW S, NEW s \in Seq(S), NEW u \in Seq(S), NEW e \in S, IsPrefixOf(s, u)
  PROVE  IsPrefixOf(s, Append(u, e))
BY DEF IsPrefixOf

LEMMA InitInv == Init => IInv
<1> SUFFICES ASSUME Init PROVE IInv
  OBVIOUS
<1>1. Types
  BY TurnAssumption DEF Init, Types, Keys
<1>2. Prefixes
  <2> SUFFICES ASSUME NEW t \in Turns
               PROVE  /\ IsPrefixOf(sent[t], Append(Play(t), "failed"))
                      /\ IsPrefixOf(received[t], sent[t])
    BY DEF Prefixes
  <2>1. sent[t] = <<>> /\ received[t] = <<>>
    BY DEF Init
  <2>2. <<>> \in Seq(Events)
    OBVIOUS
  <2> QED BY <2>1, <2>2, PlayType, EmptyIsPrefix
<1>3. \A t \in Turns : Len(sent[t]) = 0
  BY DEF Init
<1>4. Uploaded /\ Named /\ Untold /\ OwnIds /\ OrphansAreOfBrokenTurns
  BY <1>3 DEF Init, Uploaded, Named, Untold, OwnIds, OrphansAreOfBrokenTurns
<1> QED BY <1>1, <1>2, <1>4 DEF IInv

-----------------------------------------------------------------------------
\* One event written: the next of the script.
LEMMA WriteType ==
  ASSUME Types, NEW t \in Turns, Write(t)
  PROVE  \E e \in Events : /\ e = Play(t)[Len(sent[t]) + 1]
                          /\ sent' = [sent EXCEPT ![t] = Append(sent[t], e)]
<1> DEFINE p == Play(t)
<1>1. p \in Seq(Events) /\ Len(sent[t]) < Len(p)
  BY PlayType DEF Write
<1>2. sent[t] \in Seq(Events)
  BY DEF Types
<1> HIDE DEF p
<1>3. p[Len(sent[t]) + 1] \in Events
  BY <1>1, <1>2
<1>4. sent' = [sent EXCEPT ![t] = Append(sent[t], p[Len(sent[t]) + 1])]
  BY DEF Write, p
<1> QED BY <1>3, <1>4 DEF p

\* One event received: the next of those written.
LEMMA ReceiveType ==
  ASSUME Types, NEW t \in Turns, Receive(t)
  PROVE  \E e \in Events :
           /\ e = sent[t][Len(received[t]) + 1]
           /\ received' = [received EXCEPT ![t] = Append(received[t], e)]
<1>1. sent[t] \in Seq(Events) /\ received[t] \in Seq(Events)
  BY DEF Types
<1>2. Len(received[t]) < Len(sent[t])
  BY DEF Receive
<1>3. sent[t][Len(received[t]) + 1] \in Events
  BY <1>1, <1>2
<1> QED BY <1>3 DEF Receive

\* The id of a request that came is one.
LEMMA BegunIdType ==
  ASSUME Types, Named, NEW t \in Turns, pc[t] # "idle"
  PROVE  Id(t) \in Ids
BY DEF Types, Named, Requests, Id, Ids

LEMMA TypesStep ==
  ASSUME Types, Named, [Next]_vars
  PROVE  Types'
<1> USE DEF Types, Goto, Answer
<1>0. CASE UNCHANGED vars
  BY <1>0 DEF vars
<1>1. ASSUME NEW t \in Turns, Begin(t) PROVE Types'
  BY <1>1 DEF Begin
<1>2. ASSUME NEW t \in Turns, Lost(t) PROVE Types'
  BY <1>2 DEF Lost
<1>3. ASSUME NEW t \in Turns, Accept(t) PROVE Types'
  <2>1. /\ status' = [status EXCEPT ![t] = 200] \/ status' = status
        /\ \E where \in {"playing", "uploading"} : pc' = [pc EXCEPT ![t] = where]
    BY <1>3, Zenon DEF Accept
  <2>2. /\ key' = key /\ restarts' = restarts /\ request' = request
        /\ client' = client /\ files' = files
        /\ sent' = sent /\ received' = received
    BY <1>3 DEF Accept
  <2>5. /\ responseId' = [responseId EXCEPT ![t] = Id(t)]
        /\ ranUnder' = [ranUnder EXCEPT ![t] = key]
    BY <1>3 DEF Accept
  <2>6. Id(t) \in Ids
    BY <1>3, BegunIdType DEF Accept
  <2>7. /\ responseId' \in [Turns -> Ids \cup {None}]
        /\ ranUnder' \in [Turns -> Keys \cup {None}]
    BY <2>5, <2>6
  <2>3. status' \in [Turns -> {0, 200, 409, 500, 502}]
    <3>1. CASE status' = [status EXCEPT ![t] = 200]
      BY <3>1
    <3>2. CASE status' = status
      BY <3>2
    <3> QED BY <2>1, <3>1, <3>2
  <2>4. pc' \in [Turns -> {"idle", "begun", "uploading", "playing", "draining",
                          "holding", "over"}]
    BY <2>1
  <2> QED BY <2>2, <2>3, <2>4, <2>7
<1>4. ASSUME NEW t \in Turns, Upload(t) PROVE Types'
  BY <1>4 DEF Upload
<1>5. ASSUME NEW t \in Turns, UploadFails(t) PROVE Types'
  BY <1>5 DEF UploadFails
<1>6. ASSUME NEW t \in Turns, Write(t) PROVE Types'
  <2>1. PICK e \in Events : sent' = [sent EXCEPT ![t] = Append(sent[t], e)]
    BY <1>6, WriteType
  <2>2. sent' \in [Turns -> Seq(Events)]
    BY <2>1
  <2>3. pc' \in [Turns -> {"idle", "begun", "uploading", "playing", "draining",
                          "holding", "over"}]
    <3>1. \E where \in {"playing", "draining", "holding"} :
             pc' = [pc EXCEPT ![t] = where]
      BY <1>6, Zenon DEF Write, Behind
    <3> QED BY <3>1
  <2> QED BY <2>2, <2>3, <1>6 DEF Write
<1>7. ASSUME NEW t \in Turns, Receive(t) PROVE Types'
  <2>1. PICK e \in Events :
          received' = [received EXCEPT ![t] = Append(received[t], e)]
    BY <1>7, ReceiveType
  <2>2. received' \in [Turns -> Seq(Events)]
    BY <2>1
  <2> QED BY <2>2, <1>7 DEF Receive
<1>8. ASSUME NEW t \in Turns, Drain(t) PROVE Types'
  BY <1>8 DEF Drain, Behind
<1>9. ASSUME NEW t \in Turns, Resume(t) PROVE Types'
  BY <1>9 DEF Resume
<1>10. ASSUME NEW t \in Turns, End(t) PROVE Types'
  <2>1. "failed" \in Events
    BY DEF Events
  <2>2. sent' \in [Turns -> Seq(Events)]
    BY <1>10, <2>1 DEF End
  <2> QED BY <1>10, <2>2 DEF End
<1>11. ASSUME NEW t \in Turns, Break(t) PROVE Types'
  BY <1>11 DEF Break
<1>12. ASSUME NEW t \in Turns, Waver(t) PROVE Types'
  BY <1>12 DEF Waver
<1>13. CASE Restart
  BY <1>13, TurnAssumption DEF Restart, Keys
<1> QED
  BY <1>0, <1>1, <1>2, <1>3, <1>4, <1>5, <1>6, <1>7, <1>8, <1>9, <1>10, <1>11,
     <1>12, <1>13 DEF Next, Step

\* Only three actions write or receive anything.
LEMMA PrefixesStep ==
  ASSUME Types, Prefixes, [Next]_vars
  PROVE  Prefixes'
<1>1. ASSUME NEW t \in Turns, Write(t) PROVE Prefixes'
  <2>1. PICK e \in Events : /\ e = Play(t)[Len(sent[t]) + 1]
                           /\ sent' = [sent EXCEPT ![t] = Append(sent[t], e)]
    BY <1>1, WriteType
  <2> SUFFICES ASSUME NEW u \in Turns
               PROVE  /\ IsPrefixOf(sent'[u], Append(Play(u), "failed"))
                      /\ IsPrefixOf(received[u], sent'[u])
    BY <1>1 DEF Prefixes, Write
  <2>2. CASE u # t
    BY <2>2, <2>1 DEF Types, Prefixes
  <2>3. CASE u = t
    <3> DEFINE p == Play(t)  s == sent[t]  whole == Append(p, "failed")
    <3>1. /\ p \in Seq(Events) /\ whole \in Seq(Events) /\ s \in Seq(Events)
          /\ received[t] \in Seq(Events)
      BY PlayType DEF Types
    <3>2. Len(s) < Len(p)
      BY <1>1 DEF Write
    <3>3. IsPrefixOf(s, whole) /\ IsPrefixOf(received[t], s)
      BY DEF Prefixes
    <3>4. sent'[t] = Append(s, e) /\ e = p[Len(s) + 1]
      BY <2>1 DEF Types
    <3> HIDE DEF p, s
    <3>5. Len(s) < Len(whole) /\ whole[Len(s) + 1] = e
      BY <3>1, <3>2, <3>4
    <3> HIDE DEF whole
    <3>6. IsPrefixOf(Append(s, e), whole)
      BY <3>1, <3>3, <3>5, PrefixGrows
    <3>7. IsPrefixOf(received[t], Append(s, e))
      BY <3>1, <3>3, PrefixOfAppend
    <3> QED BY <2>3, <3>4, <3>6, <3>7 DEF p, whole
  <2> QED BY <2>2, <2>3
<1>2. ASSUME NEW t \in Turns, Receive(t) PROVE Prefixes'
  <2>1. PICK e \in Events :
          /\ e = sent[t][Len(received[t]) + 1]
          /\ received' = [received EXCEPT ![t] = Append(received[t], e)]
    BY <1>2, ReceiveType
  <2> SUFFICES ASSUME NEW u \in Turns
               PROVE  /\ IsPrefixOf(sent[u], Append(Play(u), "failed"))
                      /\ IsPrefixOf(received'[u], sent[u])
    BY <1>2 DEF Prefixes, Receive
  <2>2. CASE u # t
    BY <2>2, <2>1 DEF Types, Prefixes
  <2>3. CASE u = t
    <3>1. sent[t] \in Seq(Events) /\ received[t] \in Seq(Events)
      BY DEF Types
    <3>2. Len(received[t]) < Len(sent[t])
      BY <1>2 DEF Receive
    <3>3. IsPrefixOf(received[t], sent[t])
      BY DEF Prefixes
    <3>4. IsPrefixOf(Append(received[t], e), sent[t])
      BY <3>1, <3>2, <3>3, <2>1, PrefixGrows
    <3>5. received'[t] = Append(received[t], e)
      BY <2>1 DEF Types
    <3> QED BY <2>3, <3>4, <3>5 DEF Prefixes
  <2> QED BY <2>2, <2>3
<1>3. ASSUME NEW t \in Turns, End(t) PROVE Prefixes'
  <2>1. CASE sent' = sent
    BY <1>3, <2>1 DEF End, Prefixes
  <2>2. CASE sent' = [sent EXCEPT ![t] = Append(sent[t], "failed")]
    <3> SUFFICES ASSUME NEW u \in Turns
                 PROVE  /\ IsPrefixOf(sent'[u], Append(Play(u), "failed"))
                        /\ IsPrefixOf(received[u], sent'[u])
      BY <1>3 DEF Prefixes, End
    <3>1. CASE u # t
      BY <3>1, <2>2 DEF Types, Prefixes
    <3>2. CASE u = t
      <4>1. sent'[t] = Append(Play(t), "failed") /\ sent[t] = Play(t)
        BY <1>3, <2>2 DEF End, Types
      <4>2. sent[t] \in Seq(Events) /\ received[t] \in Seq(Events)
        BY DEF Types
      <4>3. "failed" \in Events
        BY DEF Events
      <4>4. IsPrefixOf(received[t], Append(sent[t], "failed"))
        BY <4>2, <4>3, PrefixOfAppend DEF Prefixes
      <4>5. \A w \in Seq(Events) : IsPrefixOf(w, w)
        BY DEF IsPrefixOf
      <4> QED BY <3>2, <4>1, <4>4, <4>5, PlayType
    <3> QED BY <3>1, <3>2
  <2> QED BY <1>3, <2>1, <2>2 DEF End
<1>4. CASE sent' = sent /\ received' = received
  BY <1>4 DEF Prefixes
<1> QED
  BY <1>1, <1>2, <1>3, <1>4
  DEF Next, Step, vars, Begin, Lost, Accept, Upload, UploadFails, Drain, Resume,
      Break, Waver, Restart

\* What a turn may do rests on its upload, or on its being a failing one.
LEMMA UploadedStep ==
  ASSUME Types, Uploaded, [Next]_vars
  PROVE  Uploaded'
<1> DEFINE Well(p, s, f, u) ==
      /\ p \in {"playing", "draining", "holding"} => u \in Failing \cup f
      /\ s > 0 => u \in Failing \cup f
      /\ p = "uploading" \/ u \in f => u \notin Failing
<1>0. /\ \A u \in Turns : Well(pc[u], Len(sent[u]), files, u)
      /\ (\A u \in Turns : Well(pc'[u], Len(sent'[u]), files', u)) => Uploaded'
  BY DEF Uploaded
<1>1. ASSUME NEW t \in Turns, Write(t) PROVE Uploaded'
  <2>1. t \in Failing \cup files
    BY <1>1 DEF Write, Uploaded
  <2>2. PICK e \in Events : sent' = [sent EXCEPT ![t] = Append(sent[t], e)]
    BY <1>1, WriteType
  <2>3. \E where \in {"playing", "draining", "holding"} :
           pc' = [pc EXCEPT ![t] = where]
    BY <1>1, Zenon DEF Write, Behind, Goto
  <2>4. \A u \in Turns : u # t => pc'[u] = pc[u] /\ sent'[u] = sent[u]
    BY <2>2, <2>3 DEF Types
  <2>5. pc'[t] \in {"playing", "draining", "holding"}
    BY <2>3 DEF Types
  <2>6. files' = files
    BY <1>1 DEF Write
  <2>7. ASSUME NEW u \in Turns PROVE Well(pc'[u], Len(sent'[u]), files', u)
    <3>1. CASE u = t
      BY <3>1, <2>1, <2>5, <2>6, <1>0
    <3>2. CASE u # t
      BY <3>2, <2>4, <2>6, <1>0
    <3> QED BY <3>1, <3>2
  <2> QED BY <2>7, <1>0
<1>2. ASSUME NEW t \in Turns, End(t) PROVE Uploaded'
  <2>1. t \in Failing \cup files
    BY <1>2 DEF End, Uploaded
  <2>2. pc' = [pc EXCEPT ![t] = "over"] /\ files' = files
    BY <1>2 DEF End, Goto
  <2>3. \A u \in Turns : u # t => sent'[u] = sent[u]
    BY <1>2 DEF End, Types
  <2>7. ASSUME NEW u \in Turns PROVE Well(pc'[u], Len(sent'[u]), files', u)
    <3>1. CASE u = t
      BY <3>1, <2>1, <2>2, <1>0 DEF Types
    <3>2. CASE u # t
      BY <3>2, <2>2, <2>3, <1>0 DEF Types
    <3> QED BY <3>1, <3>2
  <2> QED BY <2>7, <1>0
<1>3. ASSUME NEW t \in Turns, Accept(t) PROVE Uploaded'
  <2>1. sent' = sent /\ files' = files
    BY <1>3 DEF Accept
  <2>2. pc' = [pc EXCEPT ![t] = IF t \in Failing THEN "playing" ELSE "uploading"]
    BY <1>3, Zenon DEF Accept, Goto
  <2> QED BY <2>1, <2>2 DEF Types, Uploaded
<1>4. ASSUME NEW t \in Turns, Upload(t) \/ UploadFails(t) PROVE Uploaded'
  <2>1. t \notin Failing /\ sent' = sent
    BY <1>4 DEF Upload, UploadFails, Uploaded
  <2>2. \/ files' = files \cup {t} /\ pc' = [pc EXCEPT ![t] = "playing"]
        \/ files' \in {files, files \cup {t}} /\ pc' = [pc EXCEPT ![t] = "over"]
    BY <1>4 DEF Upload, UploadFails, Goto
  <2> QED BY <2>1, <2>2 DEF Types, Uploaded
<1>5. ASSUME NEW t \in Turns, Drain(t) PROVE Uploaded'
  <2>1. \E where \in {"playing", "holding"} : pc' = [pc EXCEPT ![t] = where]
    BY <1>5, Zenon DEF Drain, Behind, Goto
  <2>2. sent' = sent /\ files' = files /\ pc[t] = "draining"
    BY <1>5 DEF Drain
  <2> QED BY <2>1, <2>2 DEF Types, Uploaded
<1>6. ASSUME NEW t \in Turns, Resume(t) PROVE Uploaded'
  BY <1>6 DEF Resume, Goto, Types, Uploaded
<1>7. ASSUME NEW t \in Turns, Begin(t) \/ Lost(t) \/ Break(t) PROVE Uploaded'
  <2>1. \E where \in {"begun", "over"} : pc' = [pc EXCEPT ![t] = where]
    BY <1>7 DEF Begin, Lost, Break, Goto
  <2>2. sent' = sent /\ files' = files
    BY <1>7 DEF Begin, Lost, Break
  <2> QED BY <2>1, <2>2 DEF Types, Uploaded
<1>8. CASE Restart
  BY <1>8 DEF Restart, Types, Uploaded
<1>9. CASE pc' = pc /\ sent' = sent /\ files' = files
  BY <1>9 DEF Uploaded
<1> QED
  BY <1>1, <1>2, <1>3, <1>4, <1>5, <1>6, <1>7, <1>8, <1>9
  DEF Next, Step, vars, Receive, Waver

\* A request stays what it was when it came.
LEMMA NamedStep ==
  ASSUME Types, Named, [Next]_vars
  PROVE  Named'
<1>1. ASSUME NEW t \in Turns, Begin(t) PROVE Named'
  <2>1. PICK r \in Requests : request' = [request EXCEPT ![t] = r]
    BY <1>1 DEF Begin
  <2> QED BY <2>1, <1>1 DEF Begin, Goto, Types, Named
<1>2. ASSUME request' = request,
             \A u \in Turns : pc[u] = "idle" => pc'[u] = "idle"
      PROVE  Named'
  BY <1>2 DEF Named
<1>3. ASSUME NEW t \in Turns, Step(t) PROVE Named'
  <2>1. request' = request
    BY <1>3 DEF Step, Lost, Accept, Upload, UploadFails, Write, Drain, Resume, End, Break
  <2>2. pc[t] # "idle"
    BY <1>3 DEF Step, Lost, Accept, Upload, UploadFails, Write, Drain, Resume, End, Break
  <2>3. \E where : pc' = [pc EXCEPT ![t] = where]
    BY <1>3, Zenon
    DEF Step, Lost, Accept, Upload, UploadFails, Write, Drain, Resume, End, Break, Goto
  <2> QED BY <1>2, <2>1, <2>2, <2>3 DEF Types
<1>4. ASSUME NEW t \in Turns, Waver(t) \/ Receive(t) PROVE Named'
  BY <1>2, <1>4 DEF Waver, Receive
<1>5. CASE Restart
  BY <1>2, <1>5 DEF Restart, Running, Types
<1>6. CASE UNCHANGED vars
  BY <1>2, <1>6 DEF vars
<1> QED BY <1>1, <1>3, <1>4, <1>5, <1>6 DEF Next

\* Behind the acceptance a turn never comes back.
LEMMA UntoldStep ==
  ASSUME Types, Untold, [Next]_vars
  PROVE  Untold'
<1>1. ASSUME NEW t \in Turns,
             \A u \in Turns \ {t} :
               pc'[u] = pc[u] /\ sent'[u] = sent[u] /\ status'[u] = status[u],
             \/ pc'[t] \notin {"idle", "begun"}
             \/ pc[t] = "idle" /\ sent' = sent /\ status' = status
      PROVE  Untold'
  BY <1>1 DEF Untold
<1>2. ASSUME NEW t \in Turns, Begin(t) PROVE Untold'
  BY <1>1, <1>2 DEF Begin, Goto, Types
<1>3. ASSUME NEW t \in Turns, Step(t) PROVE Untold'
  <2>1. PICK where \in {"over", "playing", "uploading", "draining", "holding"} :
          pc' = [pc EXCEPT ![t] = where]
    BY <1>3, Zenon
    DEF Step, Lost, Accept, Upload, UploadFails, Write, Drain, Resume, End, Break,
        Goto, Behind
  <2>2. \A u \in Turns \ {t} : sent'[u] = sent[u]
    <3>1. sent' = sent \/ Write(t) \/ End(t)
      BY <1>3 DEF Step, Lost, Accept, Upload, UploadFails, Drain, Resume, Break
    <3>2. ASSUME Write(t) PROVE \A u \in Turns \ {t} : sent'[u] = sent[u]
      BY <3>2, WriteType DEF Types
    <3>3. ASSUME End(t) PROVE \A u \in Turns \ {t} : sent'[u] = sent[u]
      BY <3>3 DEF End, Types
    <3> QED BY <3>1, <3>2, <3>3
  <2>3. status' = status \/ \E code : status' = [status EXCEPT ![t] = code]
    BY <1>3, Zenon
    DEF Step, Lost, Accept, Upload, UploadFails, Write, Drain, Resume, End, Break, Answer
  <2>4. \A u \in Turns \ {t} : status'[u] = status[u]
    BY <2>3 DEF Types
  <2> QED BY <1>1, <2>1, <2>2, <2>4 DEF Types
<1>4. ASSUME NEW t \in Turns, Waver(t) \/ Receive(t) PROVE Untold'
  BY <1>4 DEF Waver, Receive, Untold
<1>5. CASE Restart
  BY <1>5 DEF Restart, Running, Types, Untold
<1>6. CASE UNCHANGED vars
  BY <1>6 DEF vars, Untold
<1> QED BY <1>2, <1>3, <1>4, <1>5, <1>6 DEF Next

\* Only the acceptance of a turn makes its id.
LEMMA OwnIdsStep ==
  ASSUME Types, Named, Untold, OwnIds, [Next]_vars
  PROVE  OwnIds'
<1> DEFINE Past == {"uploading", "playing", "draining", "holding"}
           Own(t) == responseId[t] \in Ids
                       /\ responseId[t] = <<ranUnder[t], request[t].conversation>>
<1>0. \A u \in Turns : pc[u] \in Past \/ Len(sent[u]) > 0 => Own(u)
  BY DEF OwnIds
<1>1. ASSUME responseId' = responseId, ranUnder' = ranUnder, request' = request,
             \A u \in Turns :
               pc'[u] \in Past \/ Len(sent'[u]) > 0
                 => pc[u] \in Past \/ Len(sent[u]) > 0
      PROVE  OwnIds'
  BY <1>0, <1>1 DEF OwnIds
<1>2. ASSUME NEW t \in Turns, Begin(t) PROVE OwnIds'
  <2>1. PICK r \in Requests : request' = [request EXCEPT ![t] = r]
    BY <1>2 DEF Begin
  <2>2. /\ responseId' = responseId /\ ranUnder' = ranUnder /\ sent' = sent
        /\ pc[t] = "idle" /\ pc' = [pc EXCEPT ![t] = "begun"]
    BY <1>2 DEF Begin, Goto
  <2>3. Len(sent[t]) = 0
    BY <2>2 DEF Untold
  <2>4. ASSUME NEW u \in Turns, pc'[u] \in Past \/ Len(sent'[u]) > 0 PROVE Own(u)'
    <3>1. u # t
      BY <2>2, <2>3, <2>4 DEF Types
    <3>2. request'[u] = request[u] /\ pc'[u] = pc[u]
      BY <3>1, <2>1, <2>2 DEF Types
    <3> QED BY <3>2, <2>2, <2>4, <1>0
  <2> QED BY <2>4 DEF OwnIds
<1>3. ASSUME NEW t \in Turns, Accept(t) PROVE OwnIds'
  <2>1. /\ responseId' = [responseId EXCEPT ![t] = Id(t)]
        /\ ranUnder' = [ranUnder EXCEPT ![t] = key]
        /\ request' = request /\ sent' = sent /\ pc[t] = "begun"
    BY <1>3 DEF Accept
  <2>2. pc' = [pc EXCEPT ![t] = IF t \in Failing THEN "playing" ELSE "uploading"]
    BY <1>3, Zenon DEF Accept, Goto
  <2>3. Id(t) \in Ids
    BY <2>1, BegunIdType
  <2>4. ASSUME NEW u \in Turns, pc'[u] \in Past \/ Len(sent'[u]) > 0 PROVE Own(u)'
    <3>1. CASE u = t
      BY <3>1, <2>1, <2>3 DEF Types, Id
    <3>2. CASE u # t
      BY <3>2, <2>1, <2>2, <2>4, <1>0 DEF Types
    <3> QED BY <3>1, <3>2
  <2> QED BY <2>4 DEF OwnIds
<1>4. ASSUME NEW t \in Turns, Lost(t) \/ UploadFails(t) \/ Break(t) PROVE OwnIds'
  <2>1. /\ responseId' = responseId /\ ranUnder' = ranUnder /\ request' = request
        /\ sent' = sent /\ pc' = [pc EXCEPT ![t] = "over"]
    BY <1>4 DEF Lost, UploadFails, Break, Goto
  <2> QED BY <2>1, <1>1 DEF Types
<1>5. ASSUME NEW t \in Turns,
             Upload(t) \/ Write(t) \/ Drain(t) \/ Resume(t) \/ End(t)
      PROVE  OwnIds'
  <2>1. responseId' = responseId /\ ranUnder' = ranUnder /\ request' = request
    BY <1>5 DEF Upload, Write, Drain, Resume, End
  <2>2. pc[t] \in Past
    BY <1>5 DEF Upload, Write, Drain, Resume, End
  <2>3. \E where : pc' = [pc EXCEPT ![t] = where]
    BY <1>5, Zenon DEF Upload, Write, Drain, Resume, End, Goto
  <2>4. \A u \in Turns \ {t} : sent'[u] = sent[u]
    <3>1. sent' = sent \/ Write(t) \/ End(t)
      BY <1>5 DEF Upload, Drain, Resume
    <3>2. ASSUME Write(t) PROVE \A u \in Turns \ {t} : sent'[u] = sent[u]
      BY <3>2, WriteType DEF Types
    <3>3. ASSUME End(t) PROVE \A u \in Turns \ {t} : sent'[u] = sent[u]
      BY <3>3 DEF End, Types
    <3> QED BY <3>1, <3>2, <3>3
  <2>5. \A u \in Turns \ {t} : pc'[u] = pc[u]
    BY <2>3 DEF Types
  <2> QED BY <1>1, <2>1, <2>2, <2>4, <2>5
<1>6. ASSUME NEW t \in Turns, Waver(t) \/ Receive(t) PROVE OwnIds'
  BY <1>1, <1>6 DEF Waver, Receive
<1>7. CASE Restart
  BY <1>1, <1>7 DEF Restart, Types
<1>8. CASE UNCHANGED vars
  BY <1>1, <1>8 DEF vars
<1> QED
  BY <1>2, <1>3, <1>4, <1>5, <1>6, <1>7, <1>8 DEF Next, Step

\* A turn that ends with status 200 and a client has played its whole script.
LEMMA OrphansStep ==
  ASSUME Types, Named, Uploaded, OrphansAreOfBrokenTurns, [Next]_vars
  PROVE  OrphansAreOfBrokenTurns'
<1> DEFINE Told(s) == \E i \in DOMAIN s : s[i] = "file"
<1> SUFFICES ASSUME NEW u \in Turns,
                    u \in files', pc'[u] = "over", status'[u] = 200,
                    client'[u] # "gone"
             PROVE  Told(sent'[u])
  <2>1. files' \subseteq Turns
    BY TypesStep DEF Types
  <2> QED BY <2>1 DEF OrphansAreOfBrokenTurns
<1>0. (u \in files /\ pc[u] = "over" /\ status[u] = 200 /\ client[u] # "gone")
        => Told(sent[u])
  BY DEF OrphansAreOfBrokenTurns
<1> HIDE DEF Told
<1>1. ASSUME NEW t \in Turns, End(t) PROVE Told(sent'[u])
  <2>1. CASE u = t
    <3>1. u \notin Failing
      BY <1>1 DEF End, Uploaded
    <3>2. sent'[u] = Script
      BY <3>1, <2>1, <1>1, Zenon DEF End, Play
    <3>3. Script[4] = "file" /\ 4 \in DOMAIN Script
      BY DEF Script
    <3> QED BY <3>2, <3>3 DEF Told
  <2>2. CASE u # t
    BY <2>2, <1>1, <1>0 DEF End, Goto, Types
  <2> QED BY <2>1, <2>2
<1>2. ASSUME NEW t \in Turns, Write(t) PROVE Told(sent'[u])
  <2>1. \E where \in {"playing", "draining", "holding"} :
           pc' = [pc EXCEPT ![t] = where]
    BY <1>2, Zenon DEF Write, Behind, Goto
  <2>2. u # t
    BY <2>1 DEF Types
  <2>3. sent'[u] = sent[u] /\ pc'[u] = pc[u]
    BY <2>1, <2>2, <1>2, WriteType DEF Types
  <2>4. status' = status /\ client' = client /\ files' = files
    BY <1>2 DEF Write
  <2> QED BY <2>3, <2>4, <1>0
<1>3. ASSUME NEW t \in Turns, Lost(t) PROVE Told(sent'[u])
  <2>1. u # t
    BY <1>3 DEF Lost, Answer, Types
  <2> QED BY <2>1, <1>3, <1>0 DEF Lost, Answer, Goto, Types
<1>4. ASSUME NEW t \in Turns, UploadFails(t) PROVE Told(sent'[u])
  <2>1. u # t
    BY <1>4 DEF UploadFails, Answer, Types
  <2> QED BY <2>1, <1>4, <1>0 DEF UploadFails, Answer, Goto, Types
<1>5. ASSUME NEW t \in Turns, Upload(t) PROVE Told(sent'[u])
  <2>1. u # t
    BY <1>5 DEF Upload, Goto, Types
  <2> QED BY <2>1, <1>5, <1>0 DEF Upload, Answer, Goto, Types
<1>6. ASSUME NEW t \in Turns, Accept(t) PROVE Told(sent'[u])
  <2>1. pc' = [pc EXCEPT ![t] = IF t \in Failing THEN "playing" ELSE "uploading"]
    BY <1>6, Zenon DEF Accept, Goto
  <2>2. u # t
    BY <2>1 DEF Types
  <2>3. status'[u] = status[u]
    <3>1. status' = status \/ status' = [status EXCEPT ![t] = 200]
      BY <1>6, Zenon DEF Accept, Answer
    <3> QED BY <3>1, <2>2 DEF Types
  <2>4. sent' = sent /\ files' = files /\ client' = client
    BY <1>6 DEF Accept
  <2> QED BY <2>1, <2>2, <2>3, <2>4, <1>0 DEF Types
<1>7. ASSUME NEW t \in Turns, Break(t) PROVE Told(sent'[u])
  <2>1. u # t
    BY <1>7 DEF Break, Types
  <2> QED BY <2>1, <1>7, <1>0 DEF Break, Goto, Types
<1>8. CASE Restart
  <2>1. u \notin Running
    BY <1>8 DEF Restart, Types
  <2>2. /\ pc'[u] = pc[u] /\ client'[u] = client[u]
        /\ status' = status /\ sent' = sent /\ files' = files
    BY <1>8, <2>1 DEF Restart
  <2> QED BY <2>2, <1>0
<1>9. ASSUME NEW t \in Turns, Waver(t) PROVE Told(sent'[u])
  BY <1>9, <1>0 DEF Waver, Types
<1>10. ASSUME NEW t \in Turns, Begin(t) \/ Resume(t) PROVE Told(sent'[u])
  <2>1. \E where \in {"begun", "playing"} : pc' = [pc EXCEPT ![t] = where]
    BY <1>10 DEF Begin, Resume, Goto
  <2>2. u # t
    BY <2>1 DEF Types
  <2> QED BY <2>1, <2>2, <1>10, <1>0 DEF Begin, Resume, Types
<1>11. ASSUME NEW t \in Turns, Drain(t) PROVE Told(sent'[u])
  <2>1. \E where \in {"playing", "holding"} : pc' = [pc EXCEPT ![t] = where]
    BY <1>11, Zenon DEF Drain, Behind, Goto
  <2>2. u # t
    BY <2>1 DEF Types
  <2> QED BY <2>1, <2>2, <1>11, <1>0 DEF Drain, Types
<1>12. ASSUME NEW t \in Turns, Receive(t) PROVE Told(sent'[u])
  BY <1>12, <1>0 DEF Receive
<1>13. CASE UNCHANGED vars
  BY <1>13, <1>0 DEF vars
<1> QED
  BY <1>1, <1>2, <1>3, <1>4, <1>5, <1>6, <1>7, <1>8, <1>9, <1>10, <1>11, <1>12,
     <1>13 DEF Next, Step

\* The invariant everything below rests on.
THEOREM Invariance == Spec => []IInv
<1>1. IInv /\ [Next]_vars => IInv'
  BY TypesStep, PrefixesStep, UploadedStep, NamedStep, UntoldStep, OwnIdsStep,
     OrphansStep DEF IInv
<1> QED BY <1>1, InitInv, PTL DEF Spec

\* The state of every turn has its type, and what a client got is a prefix of
\* what was written for it, which is one of the script.
THEOREM TypeCorrect == Spec => []TypeOK
<1>1. IInv => TypeOK
  BY DEF IInv, Types, Prefixes, TypeOK
<1> QED BY <1>1, Invariance, PTL

\* A file nobody is told of is one of a turn that failed or lost its client.
THEOREM OrphansExplained == Spec => []OrphansAreOfBrokenTurns
<1>1. IInv => OrphansAreOfBrokenTurns
  BY DEF IInv
<1> QED BY <1>1, Invariance, PTL

\* A failing turn's script has neither a file nor an end.
LEMMA FailureSaysNothing ==
  ASSUME NEW t \in Failing, NEW i \in DOMAIN Append(Play(t), "failed")
  PROVE  Append(Play(t), "failed")[i] \in {"partial", "failed"}
<1>1. Play(t) = <<"partial">>
  BY DEF Play
<1> DEFINE p == Play(t)
<1> DEFINE W == {"partial", "failed"}
<1>2. p \in Seq(W) /\ "failed" \in W
  BY <1>1
<1> HIDE DEF p, W
<1>3. Append(p, "failed") \in Seq(W)
  BY <1>2
<1>4. \A k \in DOMAIN Append(p, "failed") : Append(p, "failed")[k] \in W
  BY <1>3
<1> QED BY <1>4 DEF p, W

\* A client that is told of a file, or that its turn is complete, finds the
\* file on the platform.
THEOREM FileThere == Spec => []TheFileIsThere
<1>1. IInv => TheFileIsThere
  <2> SUFFICES ASSUME IInv, NEW t \in Turns, NEW i \in DOMAIN received[t],
                      received[t][i] \in {"file", "completed"}
               PROVE  t \in files
    BY DEF TheFileIsThere
  <2> DEFINE r == received[t]  s == sent[t]  whole == Append(Play(t), "failed")
  <2>1. /\ r \in Seq(Events) /\ s \in Seq(Events) /\ whole \in Seq(Events)
        /\ IsPrefixOf(r, s) /\ IsPrefixOf(s, whole)
    BY PlayType DEF IInv, Types, Prefixes
  <2>2. i \in DOMAIN r
    OBVIOUS
  <2> HIDE DEF r, s, whole
  <2>3. /\ i \in DOMAIN s /\ i \in DOMAIN whole /\ r[i] = whole[i] /\ Len(s) > 0
    BY <2>1, <2>2 DEF IsPrefixOf
  <2>4. t \in Failing \cup files
    BY <2>3 DEF IInv, Uploaded, s
  <2>5. CASE t \in Failing
    <3>1. whole[i] \in {"partial", "failed"}
      BY <2>3, <2>5, FailureSaysNothing DEF whole
    <3> QED BY <3>1, <2>3 DEF r
  <2> QED BY <2>4, <2>5
<1> QED BY <1>1, Invariance, PTL

\* Both at once: the platform and the client know of the same files
\* (uploadShowcaseArtifact and the script behind it).
THEOREM FilesAccounted == Spec => []FilesAreAccountedFor
<1>1. TheFileIsThere /\ OrphansAreOfBrokenTurns => FilesAreAccountedFor
  BY DEF FilesAreAccountedFor
<1> QED BY <1>1, FileThere, OrphansExplained, PTL

\* A client that holds the id of a response holds one made from the conversation
\* of that turn and the key it ran under.
LEMMA HeldIds ==
  ASSUME IInv, NEW u \in Turns, Holds(u)
  PROVE  /\ responseId[u] \in Ids
         /\ responseId[u] = <<ranUnder[u], request[u].conversation>>
<1> DEFINE r == received[u]  s == sent[u]
<1>1. r \in Seq(Events) /\ s \in Seq(Events) /\ IsPrefixOf(r, s)
  BY DEF IInv, Types, Prefixes
<1>2. PICK i \in DOMAIN r : r[i] = "completed"
  BY DEF Holds
<1> HIDE DEF r, s
<1>3. Len(s) > 0
  BY <1>1, <1>2 DEF IsPrefixOf
<1> QED BY <1>3 DEF IInv, OwnIds, s

\* A completed turn can be continued just in its own conversation and as long as
\* the key is the one it ran under (showcaseResponseId).
THEOREM ContinuesWhereItRan == Spec => ContinuedWhereItRan
<1>1. ASSUME IInv, Next, NEW t \in Turns, NEW u \in Turns PROVE DecidedByRun(t, u)
  <2> SUFFICES ASSUME pc[t] = "begun", pc'[t] # "begun", restarts' = restarts,
                      Holds(u), request[t].previous = responseId[u]
               PROVE  status'[t] # 409
                        <=> /\ key = ranUnder[u]
                            /\ request[t].conversation = request[u].conversation
    BY DEF DecidedByRun
  <2>0. Types
    BY <1>1 DEF IInv
  <2>1. Lost(t) \/ Accept(t)
    <3>1. ASSUME NEW x \in Turns, Step(x) PROVE x = t
      <4>1. \E where : pc' = [pc EXCEPT ![x] = where]
        BY <3>1, Zenon
        DEF Step, Lost, Accept, Upload, UploadFails, Write, Drain, Resume, End, Break,
            Goto
      <4> QED BY <4>1, <2>0 DEF Types
    <3>2. ASSUME NEW x \in Turns, Begin(x) \/ Waver(x) \/ Receive(x) PROVE FALSE
      BY <3>2, <2>0 DEF Begin, Waver, Receive, Goto, Types
    <3>3. ~ Restart
      BY <2>0 DEF Restart, Types, Keys
    <3>4. Step(t)
      BY <1>1, <3>1, <3>2, <3>3 DEF Next
    <3> QED
      BY <3>4 DEF Step, Upload, UploadFails, Write, Drain, Resume, End, Break
  <2>2. /\ responseId[u] \in Ids
        /\ responseId[u] = <<ranUnder[u], request[u].conversation>>
    BY <1>1, HeldIds
  <2>3. request[t].previous = Id(t)
          <=> key = ranUnder[u] /\ request[t].conversation = request[u].conversation
    BY <2>2 DEF Id
  <2>4. request[t].previous # None
    BY <2>2, NoneAssumption
  <2>5. ASSUME Lost(t) PROVE status'[t] = 409 /\ request[t].previous # Id(t)
    BY <2>5, <2>0 DEF Lost, Answer, Types
  <2>6. ASSUME Accept(t) PROVE status'[t] # 409 /\ request[t].previous = Id(t)
    <3>1. status' = status \/ status' = [status EXCEPT ![t] = 200]
      BY <2>6, Zenon DEF Accept, Answer
    <3>2. status[t] = 0
      BY <1>1 DEF IInv, Untold
    <3>3. status'[t] # 409
      BY <3>1, <3>2, <2>0 DEF Types
    <3>4. request[t].previous \in {None, Id(t)}
      BY <2>6 DEF Accept
    <3> QED BY <3>3, <3>4, <2>4
  <2> QED BY <2>1, <2>3, <2>5, <2>6
<1>2. IInv /\ [Next]_vars => [\A t, u \in Turns : DecidedByRun(t, u)]_vars
  BY <1>1
<1> QED BY <1>2, Invariance, PTL DEF Spec, ContinuedWhereItRan
=============================================================================
