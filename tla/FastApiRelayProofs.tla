------------------------- MODULE FastApiRelayProofs -------------------------
(***************************************************************************)
(* Proofs about FastApiRelay, for streams of any length.                   *)
(*                                                                         *)
(* The inductive invariant says what may be on its way in each phase of    *)
(* the generator: only the artifact and what the gate relays before the    *)
(* commit, and behind it nothing that is not on file.                      *)
(***************************************************************************)
EXTENDS FastApiRelay, SequenceTheorems, TLAPS

Plain == {"artifact", "relayed"}
Committed == phase = "committed"

\* Where the connections are, by where the turn is
Connections ==
  /\ at = "sending" => status = 0 /\ phase = "new" /\ upstream = "none"
  /\ at = "errorBody" => phase = "new"
  /\ at = "handed" => status = 200 /\ phase = "new"
  /\ at \in {"running", "yielded", "reading", "dropped", "finally"}
       => status = 200 /\ phase # "new"

\* What is on its way before the commit, or where nothing is stored
Offers ==
  /\ ~ stored \/ ~ Committed => sent \in Seq(Plain) /\ queue \in Seq(Plain)
  /\ at = "yielded" => Len(queue) > 0
  /\ at = "reading" => phase = "streaming" /\ Len(queue) = 0
  /\ phase = "new" => Len(sent) = 0 /\ Len(queue) = 0
  /\ stored => gate = "completed" /\ Committed

\* Frames in order, and each of a sequence before each of another
Ordered(f) == \A i, j \in DOMAIN f : i < j => Before(f[i], f[j])
AllBefore(f, g) == \A i \in DOMAIN f, j \in DOMAIN g : Before(f[i], g[j])

\* No artifact once the generator has started to yield what it relays
Orders == Ordered(sent) /\ Ordered(queue) /\ AllBefore(sent, queue)

IInv == TypeOK /\ Connections /\ Offers /\ ClosedWhenOver /\ Orders

-----------------------------------------------------------------------------
LEMMA InitInv == Init => IInv
<1> SUFFICES ASSUME Init PROVE IInv
  OBVIOUS
<1>1. sent = <<>> /\ queue = <<>>
  BY DEF Init
<1>2. /\ sent \in Seq(Kinds) /\ queue \in Seq(Kinds)
      /\ sent \in Seq(Plain) /\ queue \in Seq(Plain)
      /\ Len(sent) = 0 /\ Len(queue) = 0
  BY <1>1
<1>3. Orders
  BY <1>1 DEF Orders, Ordered, AllBefore
<1>4. TypeOK
  <2>1. demo \in BOOLEAN /\ stored \in BOOLEAN
    BY Zenon DEF Init
  <2> QED BY <1>2, <2>1, MaxFramesAssumption DEF Init, TypeOK
<1>5. Connections /\ Offers /\ ClosedWhenOver
  BY <1>2 DEF Init, Connections, Offers, ClosedWhenOver
<1> QED BY <1>3, <1>4, <1>5 DEF IInv

-----------------------------------------------------------------------------
\* The frames that are on their way.

LEMMA PlainKinds == Seq(Plain) \subseteq Seq(Kinds)
BY DEF Plain, Kinds

\* What the gate relays is plain and in order.
LEMMA GatedType ==
  ASSUME Gated
  PROVE  /\ queue' \in Seq(Plain) /\ queue' \in Seq(Kinds)
         /\ Ordered(queue')
         /\ \A i \in DOMAIN queue' : queue'[i] = "relayed"
<1>1. PICK n \in 0 .. MaxFrames - relayed : queue' = [i \in 1 .. n |-> "relayed"]
  BY DEF Gated
<1>2. queue' \in Seq(Plain) /\ queue' \in Seq(Kinds)
  BY <1>1 DEF Plain, Kinds
<1> QED BY <1>1, <1>2 DEF Ordered, Before

\* Two ordered sequences make one, where all of the first may come before all
\* of the second.
LEMMA OrderedConcat ==
  ASSUME NEW s \in Seq(Kinds), NEW q \in Seq(Kinds), Ordered(s), Ordered(q),
         AllBefore(s, q)
  PROVE  Ordered(s \o q)
BY DEF Ordered, AllBefore

\* A client takes the first of the queue.
LEMMA TakenType ==
  ASSUME NEW S, sent \in Seq(S), queue \in Seq(S), Len(queue) > 0, Taken
  PROVE  sent' \in Seq(S) /\ queue' \in Seq(S)
BY DEF Taken

\* The flags of a turn.
LEMMA Flags ==
  ASSUME TypeOK
  PROVE  stored \in BOOLEAN /\ demo \in BOOLEAN
BY Zenon DEF TypeOK

LEMMA TypeStep ==
  ASSUME TypeOK, Offers, [Next]_vars
  PROVE  TypeOK'
<1>1. CASE Chunk \/ StreamEnds
  <2>1. Gated
    BY <1>1 DEF Chunk, StreamEnds
  <2>2. gate' \in {"open", "completed", "failed"}
    BY <2>1 DEF Gated, TypeOK
  <2>3. relayed' \in 0 .. MaxFrames
    <3>1. PICK n \in 0 .. MaxFrames - relayed : relayed' = relayed + n
      BY <2>1 DEF Gated
    <3> QED BY <3>1, MaxFramesAssumption DEF TypeOK
  <2>4. demo' = demo /\ stored' = stored
    BY <1>1 DEF Chunk, StreamEnds
  <2>5. /\ at' = "running" /\ phase' \in {phase, "finished"} /\ sent' = sent
        /\ status' = status /\ client' = client /\ upstream' = upstream
    BY <1>1 DEF Chunk, StreamEnds
  <2>6. demo' \in BOOLEAN /\ stored' \in BOOLEAN
    BY <2>4, Flags, Zenon
  <2> QED BY <2>1, <2>2, <2>3, <2>5, <2>6, GatedType DEF TypeOK
<1>2. CASE Commit
  <2>1. stored' \in BOOLEAN /\ demo' \in BOOLEAN
    <3>1. stored' = stored \/ stored' = (gate = "completed")
      BY <1>2, Zenon DEF Commit
    <3>2. (gate = "completed") \in BOOLEAN
      OBVIOUS
    <3>3. demo' = demo
      BY <1>2, Zenon DEF Commit
    <3>4. demo' \in BOOLEAN
      BY <3>3, Flags, Zenon
    <3>5. stored' \in BOOLEAN
      BY <3>1, <3>2, Flags, Zenon
    <3> QED BY <3>4, <3>5
  <2>2. queue' \in {<<>>, <<"request", "request", "terminal">>, <<"terminal">>, queue}
    BY <1>2, Zenon DEF Commit
  <2>3. /\ <<>> \in Seq(Kinds) /\ <<"terminal">> \in Seq(Kinds)
        /\ <<"request", "request", "terminal">> \in Seq(Kinds)
    BY DEF Kinds
  <2>4. queue' \in Seq(Kinds)
    <3>1. queue \in Seq(Kinds)
      BY DEF TypeOK
    <3> QED BY <2>2, <2>3, <3>1
  <2>5. at' \in {"running", "finally"} /\ phase' \in {phase, "committed"}
    BY <1>2, Zenon DEF Commit
  <2>6. /\ sent' = sent /\ gate' = gate /\ status' = status /\ client' = client
        /\ upstream' = upstream /\ relayed' = relayed
    BY <1>2 DEF Commit
  <2> QED BY <2>1, <2>4, <2>5, <2>6 DEF TypeOK
<1>3. CASE Taken
  <2>1. Len(queue) > 0
    BY <1>3 DEF Taken, Offers
  <2>2. sent' \in Seq(Kinds) /\ queue' \in Seq(Kinds)
    BY <1>3, <2>1, TakenType DEF TypeOK
  <2>3. demo' \in BOOLEAN /\ stored' \in BOOLEAN
    <3>1. demo' = demo /\ stored' = stored
      BY <1>3 DEF Taken
    <3> QED BY <3>1, Flags, Zenon
  <2> QED BY <1>3, <2>2, <2>3 DEF Taken, TypeOK
<1>4. CASE Start
  <2>1. queue' \in {<<>>, <<"artifact">>, queue}
    BY <1>4, Zenon DEF Start
  <2>2. <<>> \in Seq(Kinds) /\ <<"artifact">> \in Seq(Kinds)
    BY DEF Kinds
  <2>3. queue' \in Seq(Kinds)
    <3>1. queue \in Seq(Kinds)
      BY DEF TypeOK
    <3> QED BY <2>1, <2>2, <3>1
  <2>4. demo' \in BOOLEAN /\ stored' \in BOOLEAN
    <3>1. demo' = demo /\ stored' = stored
      BY <1>4 DEF Start
    <3> QED BY <3>1, Flags, Zenon
  <2>5. at' \in {"running", "finally"}
    BY <1>4, Zenon DEF Start
  <2> QED BY <1>4, <2>3, <2>4, <2>5 DEF Start, TypeOK
<1>5. CASE SendFails \/ SendAnswers \/ ErrorRead \/ ErrorBreaks \/ Yield \/ Await
           \/ Raise \/ Return \/ Close \/ Cancel \/ Finalize \/ UNCHANGED vars
  <2>1. demo' \in BOOLEAN /\ stored' \in BOOLEAN
    <3>1. demo' = demo /\ stored' = stored
      BY <1>5
      DEF SendFails, SendAnswers, ErrorRead, ErrorBreaks, Yield, Await, Raise,
          Return, Close, Cancel, Finalize, vars
    <3> QED BY <3>1, Flags, Zenon
  <2>2. /\ queue' = queue /\ sent' = sent /\ relayed' = relayed /\ gate' = gate
        /\ phase' \in {phase, "streaming"}
    BY <1>5
    DEF SendFails, SendAnswers, ErrorRead, ErrorBreaks, Yield, Await, Raise, Return,
        Close, Cancel, Finalize, vars
  <2>3. /\ at' \in {"sending", "errorBody", "handed", "running", "yielded", "reading",
                   "dropped", "finally", "over"}
        /\ status' \in {0, 200, 409, 500, 502}
        /\ client' \in {"open", "closed"}
        /\ upstream' \in {"none", "open", "closed"}
    BY <1>5
    DEF SendFails, SendAnswers, ErrorRead, ErrorBreaks, Yield, Await, Raise, Return,
        Close, Cancel, Finalize, vars, TypeOK
  <2> QED BY <2>1, <2>2, <2>3 DEF TypeOK
<1> QED BY <1>1, <1>2, <1>3, <1>4, <1>5 DEF Next, Run

\* A turn ends through a path that closes both connections, but for two.
LEMMA ConnectionsStep ==
  ASSUME TypeOK, Connections, ClosedWhenOver, [Next]_vars
  PROVE  Connections' /\ ClosedWhenOver'
<1>1. CASE SendFails \/ SendAnswers \/ ErrorRead \/ ErrorBreaks
  <2>1. CASE SendFails
    BY <2>1 DEF SendFails, Connections, ClosedWhenOver
  <2>2. CASE SendAnswers
    BY <2>2 DEF SendAnswers, Connections, ClosedWhenOver
  <2>3. CASE ErrorRead
    BY <2>3 DEF ErrorRead, Connections, ClosedWhenOver
  <2>4. CASE ErrorBreaks
    BY <2>4 DEF ErrorBreaks, Connections, ClosedWhenOver
  <2> QED BY <1>1, <2>1, <2>2, <2>3, <2>4
<1>2. CASE Start \/ Commit
  <2>1. /\ at' \in {"running", "finally"} /\ status' = status
        /\ phase' \in {phase, "opening", "committed"}
        /\ Start => phase' = "opening"
        /\ at \in {"handed", "running"}
        /\ Commit => at = "running"
    BY <1>2, Zenon DEF Start, Commit
  <2> QED BY <1>2, <2>1 DEF Connections, ClosedWhenOver
<1>3. CASE Yield \/ Await \/ Taken \/ Chunk \/ StreamEnds \/ Raise \/ Return
           \/ Close \/ Cancel \/ Finalize
  <2>1. /\ status' = status /\ phase' \in {phase, "streaming", "finished"}
        /\ phase' # phase => at \in {"running", "reading"}
        /\ \/ /\ at' \in {"running", "yielded", "reading", "dropped", "finally"}
              /\ at \in {"running", "yielded", "reading", "dropped"}
           \/ at' = "over" /\ at = "finally"
                /\ upstream' = "closed" /\ client' = "closed"
           \/ at' = "over" /\ at = "handed"
    BY <1>3 DEF Yield, Await, Taken, Chunk, StreamEnds, Raise, Return, Close,
                Cancel, Finalize
  <2> QED BY <2>1 DEF Connections, ClosedWhenOver
<1>4. CASE UNCHANGED vars
  BY <1>4 DEF vars, Connections, ClosedWhenOver
<1> QED BY <1>1, <1>2, <1>3, <1>4 DEF Next, Run

-----------------------------------------------------------------------------
\* Before the commit only plain frames are made, and behind it only what is on
\* file.
LEMMA OffersStep ==
  ASSUME TypeOK, Connections, Offers, [Next]_vars
  PROVE  Offers'
<1>1. CASE Chunk \/ StreamEnds
  <2>1. Gated
    BY <1>1 DEF Chunk, StreamEnds
  <2>2. /\ queue' \in Seq(Plain) /\ sent' = sent /\ stored' = stored
        /\ at' = "running" /\ phase' \in {"streaming", "finished"}
    BY <1>1, <2>1, GatedType DEF Chunk, StreamEnds, Offers
  <2>3. ~ stored /\ ~ Committed /\ sent \in Seq(Plain)
    BY <1>1 DEF Chunk, StreamEnds, Offers, Committed
  <2> QED BY <2>2, <2>3 DEF Offers, Committed
<1>2. CASE Commit
  <2>1. sent \in Seq(Plain) /\ queue \in Seq(Plain) /\ ~ Committed /\ ~ stored
    BY <1>2 DEF Commit, Offers, Committed
  <2>2. sent' = sent /\ gate' = gate /\ at' # "yielded" /\ at' # "reading"
    BY <1>2, Zenon DEF Commit
  <2>3. CASE /\ phase' = "committed" /\ (stored' <=> gate = "completed")
             /\ gate # "completed" => queue' = <<>>
    <3>1. <<>> \in Seq(Plain)
      OBVIOUS
    <3>2. ~ stored' => queue' \in Seq(Plain)
      BY <2>3, <3>1, Zenon
    <3> QED BY <2>1, <2>2, <2>3, <3>2 DEF Offers, Committed
  <2>4. CASE phase' = phase /\ stored' = stored /\ queue' = queue
    BY <2>1, <2>2, <2>4 DEF Offers, Committed
  <2>5. \/ phase' = phase /\ stored' = stored /\ queue' = queue
        \/ /\ phase' = "committed" /\ (stored' <=> gate = "completed")
           /\ gate # "completed" => queue' = <<>>
    BY <1>2, Zenon DEF Commit
  <2> QED BY <2>3, <2>4, <2>5
<1>3. CASE Taken
  <2>1. Len(queue) > 0 /\ phase # "new"
    BY <1>3 DEF Taken, Offers, Connections
  <2>2. /\ at' = "running" /\ phase' = phase /\ stored' = stored /\ gate' = gate
    BY <1>3 DEF Taken
  <2>3. ASSUME ~ stored \/ ~ Committed
        PROVE  sent' \in Seq(Plain) /\ queue' \in Seq(Plain)
    <3>1. sent \in Seq(Plain) /\ queue \in Seq(Plain)
      BY <2>3 DEF Offers
    <3> QED BY <1>3, <2>1, <3>1, TakenType
  <2> QED BY <2>1, <2>2, <2>3 DEF Offers, Committed
<1>4. CASE Start
  <2>1. phase = "new" /\ ~ stored
    BY <1>4 DEF Start, Connections, Offers, Committed
  <2>2. queue' \in {<<>>, <<"artifact">>, queue}
    BY <1>4, Zenon DEF Start
  <2>3. <<>> \in Seq(Plain) /\ <<"artifact">> \in Seq(Plain)
    BY DEF Plain
  <2>4. queue' \in Seq(Plain)
    BY <2>1, <2>2, <2>3, Zenon DEF Offers
  <2>5. /\ sent' = sent /\ stored' = stored /\ phase' = "opening"
        /\ at' # "yielded" /\ at' # "reading"
    BY <1>4, Zenon DEF Start
  <2> QED BY <2>1, <2>4, <2>5 DEF Offers, Committed
<1>5. CASE SendFails \/ SendAnswers \/ ErrorRead \/ ErrorBreaks \/ Yield \/ Await
           \/ Raise \/ Return \/ Close \/ Cancel \/ Finalize \/ UNCHANGED vars
  <2>1. /\ queue' = queue /\ sent' = sent /\ stored' = stored /\ gate' = gate
        /\ \/ phase' = phase
           \/ phase' = "streaming" /\ phase \in {"opening", "streaming"}
    BY <1>5
    DEF SendFails, SendAnswers, ErrorRead, ErrorBreaks, Yield, Await, Raise, Return,
        Close, Cancel, Finalize, vars
  <2>2. /\ at' = "yielded" => at = "yielded" \/ queue # <<>>
        /\ at' = "reading" => \/ at = "reading" /\ phase' = phase
                              \/ phase' = "streaming" /\ queue = <<>>
    BY <1>5
    DEF SendFails, SendAnswers, ErrorRead, ErrorBreaks, Yield, Await, Raise, Return,
        Close, Cancel, Finalize, vars
  <2>3. (queue # <<>> => Len(queue) > 0) /\ (queue = <<>> => Len(queue) = 0)
    BY EmptySeq DEF TypeOK
  <2> QED BY <2>1, <2>2, <2>3 DEF Offers, Committed
<1> QED BY <1>1, <1>2, <1>3, <1>4, <1>5 DEF Next, Run

\* What is made when nothing waits goes behind what was sent; what is taken
\* was the first of what waits.
LEMMA OrdersStep ==
  ASSUME TypeOK, Connections, Offers, Orders, [Next]_vars
  PROVE  Orders'
<1>1. CASE Chunk \/ StreamEnds
  <2>1. Gated /\ sent' = sent /\ at = "reading"
    BY <1>1 DEF Chunk, StreamEnds
  <2>2. sent \in Seq(Plain)
    BY <2>1 DEF Offers, Committed
  <2>3. \A i \in DOMAIN sent : sent[i] \in Plain
    BY <2>2
  <2>4. \A i \in DOMAIN queue' : queue'[i] = "relayed"
    BY <2>1, GatedType
  <2>5. AllBefore(sent, queue')
    BY <2>3, <2>4 DEF AllBefore, Before, Plain
  <2> QED BY <2>1, <2>5, GatedType DEF Orders
<1>2. CASE Commit
  <2>1. sent \in Seq(Plain) /\ sent' = sent
    BY <1>2 DEF Commit, Offers, Committed
  <2>2. \A i \in DOMAIN sent : sent[i] \in Plain
    BY <2>1
  <2> DEFINE End == {"request", "terminal"}
             Three == <<"request", "request", "terminal">>
  <2>3. queue' \in {<<>>, Three, <<"terminal">>, queue}
    BY <1>2, Zenon DEF Commit
  <2>4. /\ Ordered(<<>>) /\ Ordered(<<"terminal">>) /\ Ordered(Three)
        /\ \A i \in DOMAIN Three : Three[i] \in End
    BY DEF Ordered, Before
  <2>5. \A q : (\A i \in DOMAIN q : q[i] \in End) => AllBefore(sent, q)
    BY <2>2 DEF AllBefore, Before, Plain
  <2>6. AllBefore(sent, <<>>) /\ AllBefore(sent, <<"terminal">>)
    BY <2>2 DEF AllBefore, Before, Plain
  <2> HIDE DEF Three
  <2>7. AllBefore(sent, Three)
    BY <2>4, <2>5
  <2> QED BY <2>1, <2>3, <2>4, <2>6, <2>7, Zenon DEF Orders
<1>3. CASE Start
  <2>1. Len(sent) = 0 /\ sent \in Seq(Kinds) /\ sent' = sent
    BY <1>3 DEF Start, Connections, Offers, TypeOK
  <2>2. queue' \in {<<>>, <<"artifact">>, queue}
    BY <1>3, Zenon DEF Start
  <2>3. Ordered(<<>>) /\ Ordered(<<"artifact">>)
    BY DEF Ordered
  <2>4. AllBefore(sent, queue')
    BY <2>1 DEF AllBefore
  <2> QED BY <2>1, <2>2, <2>3, <2>4, Zenon DEF Orders
<1>4. CASE Taken
  <2> DEFINE first == Head(queue)
  <2>1. /\ sent \in Seq(Kinds) /\ queue \in Seq(Kinds) /\ Len(queue) > 0
        /\ sent' = Append(sent, first) /\ queue' = Tail(queue)
    BY <1>4 DEF Taken, TypeOK, Offers
  <2>2. first = queue[1] /\ 1 \in DOMAIN queue /\ first \in Kinds
    BY <2>1
  <2>3. \A j \in DOMAIN queue' : queue'[j] = queue[j + 1] /\ j + 1 \in DOMAIN queue
    BY <2>1
  <2> HIDE DEF first
  <2>4. \A i \in DOMAIN sent' :
          \/ i \in DOMAIN sent /\ sent'[i] = sent[i]
          \/ i = Len(sent) + 1 /\ sent'[i] = first
    BY <2>1, <2>2
  <2>5. DOMAIN sent = 1 .. Len(sent) /\ Len(sent) \in Nat
    BY <2>1
  <2>6. DOMAIN queue = 1 .. Len(queue) /\ DOMAIN queue' \subseteq Nat \ {0}
    BY <2>1
  <2>7. \A i \in DOMAIN sent : Before(sent[i], first)
    BY <2>2 DEF Orders, AllBefore
  <2>8. Ordered(sent')
    BY <2>4, <2>5, <2>7 DEF Orders, Ordered
  <2>9. \A j \in DOMAIN queue' : Before(first, queue'[j])
    BY <2>2, <2>3, <2>6 DEF Orders, Ordered
  <2>10. AllBefore(sent', queue')
    BY <2>3, <2>4, <2>9 DEF Orders, AllBefore
  <2>11. Ordered(queue')
    BY <2>3, <2>6 DEF Orders, Ordered
  <2> QED BY <2>8, <2>10, <2>11 DEF Orders
<1>5. CASE queue' = queue /\ sent' = sent
  BY <1>5 DEF Orders
<1> QED
  BY <1>1, <1>2, <1>3, <1>4, <1>5
  DEF Next, Run, SendFails, SendAnswers, ErrorRead, ErrorBreaks, Yield, Await, Raise,
      Return, Close, Cancel, Finalize, vars

-----------------------------------------------------------------------------
\* The invariant of a turn.
THEOREM Invariance == Spec => []IInv
<1>1. IInv /\ [Next]_vars => IInv'
  BY TypeStep, ConnectionsStep, OffersStep, OrdersStep DEF IInv
<1> QED BY <1>1, InitInv, PTL DEF Spec

\* The turn keeps its types.
THEOREM TypeCorrect == Spec => []TypeOK
<1>1. IInv => TypeOK
  BY DEF IInv
<1> QED BY <1>1, Invariance, PTL

\* A turn that is over holds no connection, but for the two ends that nothing
\* closes behind.
THEOREM ConnectionsAreClosed == Spec => []ClosedWhenOver
<1>1. IInv => ClosedWhenOver
  BY DEF IInv
<1> QED BY <1>1, Invariance, PTL

\* Only a completed stream is recorded.
THEOREM StoresCompleted == Spec => []StoredIsCompleted
<1>1. IInv => StoredIsCompleted
  BY DEF IInv, Offers, Committed, StoredIsCompleted
<1> QED BY <1>1, Invariance, PTL

\* Nothing durable is promised before it is on file.
THEOREM OffersWhatIsStored == Spec => []OfferedIsStored
<1>1. IInv => OfferedIsStored
  <2> SUFFICES ASSUME IInv, ~ stored, NEW i \in DOMAIN (sent \o queue)
               PROVE  (sent \o queue)[i] \notin {"request", "terminal"}
    BY DEF OfferedIsStored
  <2>1. sent \in Seq(Plain) /\ queue \in Seq(Plain)
    BY DEF IInv, Offers
  <2>2. (sent \o queue) \in Seq(Plain)
    BY <2>1
  <2>3. (sent \o queue)[i] \in Plain
    BY <2>2
  <2> QED BY <2>3 DEF Plain
<1> QED BY <1>1, Invariance, PTL

\* The frames of a turn leave in their order.
THEOREM FramesOrdered == Spec => []FramesInOrder
<1>1. IInv => FramesInOrder
  <2> SUFFICES ASSUME IInv
               PROVE  Ordered(sent \o queue)
    BY DEF FramesInOrder, Ordered
  <2>1. /\ sent \in Seq(Kinds) /\ queue \in Seq(Kinds)
        /\ Ordered(sent) /\ Ordered(queue) /\ AllBefore(sent, queue)
    BY DEF IInv, TypeOK, Orders
  <2> QED BY <2>1, OrderedConcat
<1> QED BY <1>1, Invariance, PTL
=============================================================================
