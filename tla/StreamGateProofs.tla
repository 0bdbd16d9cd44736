-------------------------- MODULE StreamGateProofs --------------------------
(***************************************************************************)
(* Proofs about the stream gate, for provider streams of any length over   *)
(* any response ids: the automaton first, then the frames it is given,     *)
(* then the scan of their data.                                            *)
(***************************************************************************)
EXTENDS
  StreamGate, SseFraming, DuplicateKeys, SequenceTheorems, WellFoundedInduction, TLAPS

Gates ==
  [state : {"open", "failed", "completed"},
   createdId : ResponseIds \cup {None},
   completedId : ResponseIds \cup {None},
   withheld : Seq(Frames)]

-----------------------------------------------------------------------------
(* #accept. *)

LEMMA GenericFailureIsFrame ==
  GenericFailure \in Frames /\ GenericFailure.data = "failure"
BY DEF GenericFailure, Frames, EventNames, DataKinds

LEMMA FrameFields ==
  ASSUME NEW f \in Frames
  PROVE  f.event \in EventNames /\ f.data \in DataKinds /\ f.id \in ResponseIds \cup {None}
BY DEF Frames

\* A frame that completes the stream finds the gate open and names its id,
\* the created one if there is one.
LEMMA CompletesFacts ==
  ASSUME NEW g \in Gates, NEW f \in Frames, Completes(g, f)
  PROVE  /\ g.state = "open"
         /\ ~ Fails(f) /\ f.data = "completed"
         /\ f.id \in ResponseIds /\ f.id # None
         /\ g.createdId \in {None, f.id}
<1>1. /\ ~ Fails(f) /\ f.data = "completed" /\ ~ Raises(g, f)
      /\ f.event \notin {"unusable", "failure"}
  BY DEF Completes, Fails, Raises
<1>2. g.state = "open"
  BY <1>1 DEF Raises, AfterEnd, Substantive, Gates
<1>3. ~ InvalidId(g, f)
  BY <1>1 DEF Raises
<1> QED BY <1>1, <1>2, <1>3, FrameFields DEF InvalidId

\* What ends the stream early also finds the gate open, or is not a frame that
\* ends it once more.
LEMMA EndsEarlyFacts ==
  ASSUME NEW g \in Gates, NEW f \in Frames, EndsEarly(g, f)
  PROVE  g.state = "open" /\ ~ Completes(g, f)
<1>1. ~ Raises(g, f)
  BY DEF EndsEarly
<1>2. CASE Fails(f)
  BY <1>1, <1>2 DEF Raises, Fails, AfterEnd, Substantive, Completes
<1>3. CASE f.data = "done" /\ g.state = "open"
  BY <1>3 DEF Completes
<1> QED BY <1>2, <1>3 DEF EndsEarly

\* After the end only frames that say nothing are accepted.
LEMMA QuietAfterEnd ==
  ASSUME NEW g \in Gates, NEW f \in Frames, ~ Raises(g, f), g.state # "open"
  PROVE  /\ ~ Substantive(f) /\ ~ Fails(f)
         /\ ~ Completes(g, f) /\ ~ EndsEarly(g, f)
<1>1. ~ Fails(f)
  BY DEF Raises, Fails, AfterEnd, Substantive
<1>2. ~ Substantive(f)
  BY <1>1 DEF Raises, Fails, AfterEnd
<1> QED BY <1>1, <1>2 DEF Completes, EndsEarly, Substantive

\* A frame the gate stays open for does not end the stream.
LEMMA NotTerminalWhileOpen ==
  ASSUME NEW g \in Gates, NEW f \in Frames, ~ Raises(g, f), g.state = "open",
         ~ EndsEarly(g, f)
  PROVE  ~ Terminal(f)
BY DEF EndsEarly, Terminal

LEMMA AcceptedState ==
  ASSUME NEW g \in Gates, NEW f \in Frames
  PROVE  /\ Completes(g, f) => Accepted(g, f).state = "completed"
         /\ EndsEarly(g, f) => Accepted(g, f).state = "failed"
         /\ ~ Completes(g, f) /\ ~ EndsEarly(g, f) => Accepted(g, f).state = g.state
<1>1. EndsEarly(g, f) => ~ Completes(g, f)
  BY EndsEarlyFacts
<1> HIDE DEF Gates
<1> DEFINE c == Completes(g, f)
           e == EndsEarly(g, f)
<1>2. Accepted(g, f).state =
        CASE c -> "completed" [] e -> "failed" [] OTHER -> g.state
  BY DEF Accepted
<1> HIDE DEF c, e
<1>3. /\ c => Accepted(g, f).state = "completed"
      /\ e /\ ~ c => Accepted(g, f).state = "failed"
      /\ ~ c /\ ~ e => Accepted(g, f).state = g.state
  <2>1. CASE c /\ ~ e
    BY <1>2, <2>1
  <2>2. CASE e /\ ~ c
    BY <1>2, <2>2
  <2>3. CASE ~ c /\ ~ e
    BY <1>2, <2>3
  <2> QED BY <1>1, <2>1, <2>2, <2>3 DEF c, e
<1> QED BY <1>1, <1>3 DEF c, e

LEMMA AcceptedIds ==
  ASSUME NEW g \in Gates, NEW f \in Frames
  PROVE  /\ Accepted(g, f).createdId =
              IF f.data = "created" /\ ~ Fails(f) THEN f.id ELSE g.createdId
         /\ Accepted(g, f).completedId =
              IF Completes(g, f) THEN f.id ELSE g.completedId
         /\ Accepted(g, f).withheld =
              IF Completes(g, f) \/ Follows(g, f)
                THEN Append(g.withheld, f) ELSE g.withheld
BY DEF Accepted

LEMMA AcceptedType ==
  ASSUME NEW g \in Gates, NEW f \in Frames
  PROVE  Accepted(g, f) \in Gates
<1>1. Accepted(g, f).state \in {"open", "failed", "completed"}
  BY AcceptedState DEF Gates
<1>2. /\ Accepted(g, f).createdId \in ResponseIds \cup {None}
      /\ Accepted(g, f).completedId \in ResponseIds \cup {None}
  BY AcceptedIds, FrameFields DEF Gates
<1>4. Accepted(g, f).withheld \in Seq(Frames)
  <2>1. g.withheld \in Seq(Frames)
    BY DEF Gates
  <2>2. Append(g.withheld, f) \in Seq(Frames)
    BY <2>1
  <2> QED BY <2>1, <2>2, AcceptedIds
<1>3. Accepted(g, f) = [state |-> Accepted(g, f).state,
                        createdId |-> Accepted(g, f).createdId,
                        completedId |-> Accepted(g, f).completedId,
                        withheld |-> Accepted(g, f).withheld]
  BY DEF Accepted
<1> QED BY <1>1, <1>2, <1>3, <1>4 DEF Gates

\* A frame is relayed, or withheld, and only the terminal one is new to the
\* client under another form.
LEMMA RelaysFacts ==
  ASSUME NEW g \in Gates, NEW f \in Frames, ~ Raises(g, f)
  PROVE  LET kept == Completes(g, f) \/ Follows(g, f)
             shown == IF Fails(f) THEN GenericFailure ELSE f
         IN  /\ kept => Relays(g, f) = <<>> /\ shown = f
             /\ ~ kept => Relays(g, f) = <<shown>> /\ shown.data # "completed"
             /\ Follows(g, f) <=> g.state = "completed"
<1> DEFINE kept == Completes(g, f) \/ Follows(g, f)
           fails == Fails(f)
<1>1. Relays(g, f) = CASE kept -> <<>> [] fails -> <<GenericFailure>> [] OTHER -> <<f>>
  BY DEF Relays
<1>2. kept => ~ fails
  BY QuietAfterEnd, CompletesFacts DEF Follows, Gates
<1>3. ~ kept /\ ~ fails => f.data # "completed"
  BY DEF Completes
<1>4. Follows(g, f) <=> g.state = "completed"
  BY DEF Follows
<1>5. /\ kept => Relays(g, f) = <<>>
      /\ ~ kept /\ fails => Relays(g, f) = <<GenericFailure>>
      /\ ~ kept /\ ~ fails => Relays(g, f) = <<f>>
  <2> HIDE DEF kept, fails
  <2> QED BY <1>1, <1>2
<1> QED BY <1>2, <1>3, <1>4, <1>5, GenericFailureIsFrame

-----------------------------------------------------------------------------
(* The relayed stream. *)

\* What the client is to see of a frame
Shown(f) == IF Fails(f) THEN GenericFailure ELSE f

ShownAll(s) == [i \in DOMAIN s |-> Shown(s[i])]

LEMMA ShownIsFrame ==
  ASSUME NEW f \in Frames
  PROVE  Shown(f) \in Frames
BY GenericFailureIsFrame DEF Shown

LEMMA AppendFacts ==
  ASSUME NEW S, NEW s \in Seq(S), NEW x \in S
  PROVE  /\ Append(s, x) \in Seq(S)
         /\ Len(Append(s, x)) = Len(s) + 1
         /\ DOMAIN Append(s, x) = 1..(Len(s) + 1) /\ DOMAIN s = 1..Len(s)
         /\ \A i \in 1..Len(s) : Append(s, x)[i] = s[i]
         /\ Append(s, x)[Len(s) + 1] = x
OBVIOUS

LEMMA ShownAllAppend ==
  ASSUME NEW s \in Seq(Frames), NEW f \in Frames
  PROVE  ShownAll(Append(s, f)) = Append(ShownAll(s), Shown(f))
<1> DEFINE n == Len(s)
<1>1. n \in Nat /\ DOMAIN s = 1..n /\ \A i \in 1..n : s[i] \in Frames
  BY LenProperties, ElementOfSeq
<1>2. ShownAll(s) = [i \in 1..n |-> Shown(s[i])]
  BY <1>1 DEF ShownAll
<1>3. ShownAll(s) \in Seq(Frames) /\ Len(ShownAll(s)) = n
  <2>1. ShownAll(s) \in [1..n -> Frames]
    BY <1>1, <1>2, ShownIsFrame
  <2> QED BY <1>1, <2>1, SeqDef
<1>4. ShownAll(Append(s, f)) = [i \in 1..(n + 1) |-> Shown(Append(s, f)[i])]
  BY AppendFacts DEF ShownAll
<1>5. Append(ShownAll(s), Shown(f)) =
        [i \in 1..(n + 1) |-> IF i = n + 1 THEN Shown(f) ELSE ShownAll(s)[i]]
  <2> DEFINE a == ShownAll(s)
             x == Shown(f)
  <2>1. a \in Seq(Frames) /\ Len(a) = n /\ x \in Frames /\ n \in Nat
    BY <1>1, <1>3, ShownIsFrame
  <2> HIDE DEF a, x, n
  <2>2. /\ Append(a, x) \in Seq(Frames) /\ Len(Append(a, x)) = n + 1
        /\ Append(a, x)[n + 1] = x
        /\ \A i \in 1..n : Append(a, x)[i] = a[i]
    BY <2>1, AppendFacts
  <2>3. Append(a, x) \in [1..(n + 1) -> Frames]
    BY <2>2, LenProperties
  <2>4. Append(a, x) = [i \in 1..(n + 1) |-> IF i = n + 1 THEN x ELSE a[i]]
    <3>1. Append(a, x) = [i \in 1..(n + 1) |-> Append(a, x)[i]]
      BY <2>3
    <3>2. \A i \in 1..(n + 1) : Append(a, x)[i] = IF i = n + 1 THEN x ELSE a[i]
      BY <2>1, <2>2
    <3> QED BY <3>1, <3>2, Zenon
  <2> QED BY <2>4 DEF a, x
<1>6. ASSUME NEW i \in 1..(n + 1)
      PROVE  Shown(Append(s, f)[i]) = IF i = n + 1 THEN Shown(f) ELSE ShownAll(s)[i]
  BY <1>1, <1>2, AppendFacts
<1> QED BY <1>4, <1>5, <1>6

LEMMA ConcatSingle ==
  ASSUME NEW S, NEW s \in Seq(S), NEW x \in S
  PROVE  s \o <<x>> = Append(s, x) /\ <<x>> \in Seq(S)
OBVIOUS

LEMMA ConcatAppend ==
  ASSUME NEW S, NEW s \in Seq(S), NEW t \in Seq(S), NEW x \in S
  PROVE  s \o Append(t, x) = Append(s \o t, x)
<1>1. Append(t, x) = t \o <<x>> /\ <<x>> \in Seq(S)
  OBVIOUS
<1>2. (s \o t) \o <<x>> = s \o (t \o <<x>>)
  BY <1>1, ConcatAssociative
<1>3. s \o t \in Seq(S)
  BY ConcatProperties
<1>4. (s \o t) \o <<x>> = Append(s \o t, x)
  BY <1>3
<1> QED BY <1>1, <1>2, <1>4

Clean(s) == \A i \in DOMAIN s : s[i].data # "completed"

LEMMA CleanConcat ==
  ASSUME NEW s \in Seq(Frames), NEW t \in Seq(Frames), Clean(s), Clean(t)
  PROVE  Clean(s \o t)
<1>1. /\ DOMAIN s = 1..Len(s) /\ DOMAIN t = 1..Len(t)
      /\ Len(s) \in Nat /\ Len(t) \in Nat
      /\ DOMAIN (s \o t) = 1..(Len(s) + Len(t))
      /\ \A i \in 1..(Len(s) + Len(t)) :
           (s \o t)[i] = IF i <= Len(s) THEN s[i] ELSE t[i - Len(s)]
  BY ConcatProperties, LenProperties
<1>2. ASSUME NEW i \in 1..(Len(s) + Len(t)) PROVE (s \o t)[i].data # "completed"
  <2>1. CASE i <= Len(s)
    BY <1>1, <2>1 DEF Clean
  <2>2. CASE ~ (i <= Len(s))
    <3>1. i - Len(s) \in 1..Len(t)
      BY <1>1, <2>2
    <3> QED BY <1>1, <2>2, <3>1 DEF Clean
  <2> QED BY <2>1, <2>2
<1> QED BY <1>1, <1>2 DEF Clean

-----------------------------------------------------------------------------
(* The inductive invariant. *)

LEMMA TypeFacts ==
  ASSUME TypeOK
  PROVE  /\ gate \in Gates
         /\ output \in Seq(Frames) /\ relayed \in Seq(Frames) /\ seen \in Seq(Frames)
BY DEF TypeOK, Gates

LEMMA StreamEquation ==
  StreamPreserved <=>
    (phase # "thrown" => (relayed \o output) \o gate.withheld = ShownAll(seen))
BY DEF StreamPreserved, ShownAll, Shown

LEMMA StreamEquationNext ==
  ASSUME phase' # "thrown" =>
           (relayed' \o output') \o gate'.withheld = ShownAll(seen')
  PROVE  StreamPreserved'
BY DEF StreamPreserved, ShownAll, Shown

LEMMA InitInvariant == Init => IInv
<1> SUFFICES ASSUME Init PROVE IInv
  OBVIOUS
<1> USE DEF Init
<1>1. gate = NewGate /\ seen = <<>> /\ output = <<>> /\ relayed = <<>> /\ DOMAIN seen = {}
  OBVIOUS
<1>2. <<>> \in Seq(Frames)
  OBVIOUS
<1>3. TypeOK
  BY <1>1, <1>2 DEF TypeOK, NewGate
<1>4. CompletionWithheld
  BY <1>1 DEF CompletionWithheld
<1>5. StreamPreserved
  <2>1. ShownAll(seen) = <<>>
    BY <1>1 DEF ShownAll
  <2>2. (relayed \o output) \o gate.withheld = <<>>
    BY <1>1 DEF NewGate
  <2> QED BY <2>1, <2>2, StreamEquation
<1>6. StateSumsUp
  BY <1>1 DEF StateSumsUp, NewGate
<1>7. CreatedSumsUp
  BY <1>1 DEF CreatedSumsUp, NewGate
<1> QED BY <1>3, <1>4, <1>5, <1>6, <1>7 DEF IInv

LEMMA AcceptInvariant ==
  ASSUME IInv, NEW f \in Frames, Accept(f)
  PROVE  IInv'
<1> DEFINE n == Len(seen)
           kept == Completes(gate, f) \/ Follows(gate, f)
<1>1. /\ gate \in Gates /\ gate' = Accepted(gate, f) /\ ~ Raises(gate, f)
      /\ phase = "streaming" /\ phase' = phase /\ relayed' = relayed
      /\ output' = output \o Relays(gate, f)
      /\ output \in Seq(Frames) /\ relayed \in Seq(Frames) /\ seen \in Seq(Frames)
      /\ gate.withheld \in Seq(Frames)
  BY TypeFacts DEF IInv, Accept, Arrive, Gates
<1>2. /\ n \in Nat /\ DOMAIN seen = 1..n /\ Len(seen') = n + 1
      /\ DOMAIN seen' = 1..(n + 1) /\ seen' = Append(seen, f)
      /\ \A i \in 1..n : seen'[i] = seen[i] /\ seen[i] \in Frames
      /\ seen'[n + 1] = f
  <2>1. seen' = Append(seen, f)
    BY DEF Accept, Arrive
  <2> QED BY <1>1, <2>1, AppendFacts, LenProperties, ElementOfSeq
<1> HIDE DEF n
<1>3. /\ kept => Relays(gate, f) = <<>> /\ Shown(f) = f
      /\ ~ kept => Relays(gate, f) = <<Shown(f)>> /\ Shown(f).data # "completed"
      /\ Follows(gate, f) <=> gate.state = "completed"
  BY <1>1, RelaysFacts DEF Shown
<1>7. Shown(f) \in Frames /\ Relays(gate, f) \in Seq(Frames) /\ Clean(Relays(gate, f))
  <2>1. Shown(f) \in Frames
    BY ShownIsFrame
  <2>2. CASE kept
    <3>1. Relays(gate, f) = <<>> /\ <<>> \in Seq(Frames)
      BY <1>3, <2>2, EmptySeq
    <3>2. DOMAIN <<>> = {}
      OBVIOUS
    <3> QED BY <2>1, <3>1, <3>2 DEF Clean
  <2>3. CASE ~ kept
    <3>1. Relays(gate, f) = <<Shown(f)>> /\ <<Shown(f)>> \in Seq(Frames)
      BY <1>3, <2>1, <2>3, ConcatSingle
    <3>2. DOMAIN <<Shown(f)>> = {1} /\ <<Shown(f)>>[1] = Shown(f)
      OBVIOUS
    <3> QED BY <1>3, <2>1, <2>3, <3>1, <3>2 DEF Clean
  <2> QED BY <2>2, <2>3
<1>4. TypeOK'
  <2>1. gate' \in Gates
    BY <1>1, AcceptedType
  <2>2. seen' \in Seq(Frames)
    BY <1>1, <1>2, AppendFacts
  <2>3. output' \in Seq(Frames)
    BY <1>1, <1>7, ConcatProperties
  <2>4. phase' \in {"streaming", "thrown", "finished"}
    BY <1>1
  <2> QED BY <1>1, <2>1, <2>2, <2>3, <2>4 DEF TypeOK, Gates
<1>5. CompletionWithheld'
  <2>1. Clean(relayed) /\ Clean(output)
    BY DEF IInv, CompletionWithheld, Clean
  <2>3. Clean(output')
    BY <1>1, <1>7, <2>1, CleanConcat
  <2> QED BY <1>1, <2>1, <2>3 DEF CompletionWithheld, Clean
<1>6. StreamPreserved'
  <2> DEFINE r == relayed
             o == output
             w == gate.withheld
             x == Shown(f)
  <2>1. (r \o o) \o w = ShownAll(seen)
    BY <1>1, StreamEquation DEF IInv
  <2>2. ShownAll(seen') = Append((r \o o) \o w, x)
    BY <1>1, <1>2, <2>1, ShownAllAppend
  <2>3. (r \o o) \in Seq(Frames) /\ x \in Frames
    BY <1>1, ShownIsFrame, ConcatProperties
  <2>7. w \in Seq(Frames) /\ o \in Seq(Frames) /\ r \in Seq(Frames)
    BY <1>1
  <2>4. gate'.withheld = IF kept THEN Append(w, f) ELSE w
    BY <1>1, AcceptedIds
  <2>5. CASE kept
    <3>1. gate'.withheld = Append(w, x) /\ output' = o
      BY <1>1, <1>3, <2>4, <2>5, ConcatEmptySeq
    <3>2. (r \o o) \o Append(w, x) = Append((r \o o) \o w, x)
      <4> HIDE DEF r, o, w, x
      <4> QED BY <2>3, <2>7, ConcatAppend
    <3>3. (relayed' \o output') \o gate'.withheld = ShownAll(seen')
      BY <1>1, <2>2, <3>1, <3>2
    <3> QED BY <3>3, StreamEquationNext
  <2>6. CASE ~ kept
    <3>1. w = <<>>
      BY <1>1, <1>3, <2>6 DEF IInv, StateSumsUp
    <3>2. gate'.withheld = <<>> /\ output' = Append(o, x)
      <4>1. o \o <<x>> = Append(o, x)
        <5> HIDE DEF o, x
        <5> QED BY <2>3, <2>7, ConcatSingle
      <4> QED BY <1>1, <1>3, <2>4, <2>6, <3>1, <4>1
    <3>3. r \o Append(o, x) = Append(r \o o, x) /\ Append(r \o o, x) \in Seq(Frames)
      BY <1>1, <2>3, ConcatAppend
    <3>4. (relayed' \o output') \o gate'.withheld = ShownAll(seen')
      BY <1>1, <2>2, <2>3, <3>1, <3>2, <3>3, ConcatEmptySeq
    <3> QED BY <3>4, StreamEquationNext
  <2> QED BY <2>5, <2>6
<1>8. StateSumsUp'
  <2>1. phase # "thrown" /\ phase' # "thrown"
    BY <1>1
  <2>2. /\ Completes(gate, f) => gate'.state = "completed"
        /\ EndsEarly(gate, f) => gate'.state = "failed"
        /\ ~ Completes(gate, f) /\ ~ EndsEarly(gate, f) => gate'.state = gate.state
        /\ gate'.completedId = IF Completes(gate, f) THEN f.id ELSE gate.completedId
        /\ gate'.withheld = IF kept THEN Append(gate.withheld, f) ELSE gate.withheld
        /\ Follows(gate, f) <=> gate.state = "completed"
    BY <1>1, <1>3, AcceptedState, AcceptedIds
  <2>3. CASE gate.state = "open"
    <3>1. (\A j \in 1..n : ~ Terminal(seen[j])) /\ gate.completedId = None /\ gate.withheld = <<>>
      BY <1>2, <2>1, <2>3 DEF IInv, StateSumsUp
    <3>2. CASE Completes(gate, f)
      <4>1. Names(f, f.id) /\ f.id # None
        BY <1>1, <3>2, CompletesFacts DEF Names
      <4>2. CompletedBy(f.id)'
        BY <1>2, <3>1, <4>1 DEF CompletedBy
      <4> QED BY <2>2, <3>2, <4>1, <4>2 DEF StateSumsUp
    <3>3. CASE EndsEarly(gate, f)
      <4>1. ~ Completes(gate, f)
        BY <1>1, <3>3, EndsEarlyFacts
      <4> QED BY <2>2, <2>3, <3>1, <3>3, <4>1 DEF StateSumsUp
    <3>4. CASE ~ Completes(gate, f) /\ ~ EndsEarly(gate, f)
      <4>1. ~ Terminal(f)
        BY <1>1, <2>3, <3>4, NotTerminalWhileOpen
      <4>2. \A j \in DOMAIN seen' : ~ Terminal(seen'[j])
        BY <1>2, <3>1, <4>1
      <4> QED BY <2>2, <2>3, <3>1, <3>4, <4>2 DEF StateSumsUp
    <3> QED BY <3>2, <3>3, <3>4
  <2>4. CASE gate.state # "open"
    <3>1. /\ ~ Substantive(f) /\ ~ Fails(f)
          /\ ~ Completes(gate, f) /\ ~ EndsEarly(gate, f)
      BY <1>1, <2>4, QuietAfterEnd
    <3>2. CASE gate.state = "failed"
      BY <2>1, <2>2, <3>1, <3>2 DEF IInv, StateSumsUp
    <3>3. CASE gate.state = "completed"
      <4>1. gate.completedId # None /\ CompletedBy(gate.completedId)
        BY <2>1, <3>3 DEF IInv, StateSumsUp
      <4>2. PICK i \in 1..n :
              /\ Names(seen[i], gate.completedId)
              /\ \A j \in 1..(i - 1) : ~ Terminal(seen[j])
              /\ \A j \in (i + 1)..n : ~ Substantive(seen[j]) /\ ~ Fails(seen[j])
        BY <1>2, <4>1 DEF CompletedBy, n
      <4>3. CompletedBy(gate.completedId)'
        <5>1. gate'.completedId = gate.completedId
          BY <2>2, <3>1
        <5>2. /\ Names(seen'[i], gate.completedId)
              /\ \A j \in 1..(i - 1) : ~ Terminal(seen'[j])
          BY <1>2, <4>2
        <5>3. \A j \in (i + 1)..(n + 1) : ~ Substantive(seen'[j]) /\ ~ Fails(seen'[j])
          BY <1>2, <3>1, <4>2
        <5>4. i \in DOMAIN seen'
          BY <1>2, <4>2
        <5> QED BY <1>2, <5>1, <5>2, <5>3, <5>4 DEF CompletedBy
      <4> QED BY <2>2, <3>1, <3>3, <4>1, <4>3 DEF StateSumsUp
    <3> QED BY <1>1, <2>4, <3>2, <3>3 DEF Gates
  <2> QED BY <2>3, <2>4
<1>9. CreatedSumsUp'
  <2> DEFINE Created(x) == x.data = "created" /\ ~ Fails(x)
  <2>1. phase # "thrown" /\ phase' # "thrown"
    BY <1>1
  <2>2. /\ gate'.createdId = IF Created(f) THEN f.id ELSE gate.createdId
        /\ gate'.completedId = IF Completes(gate, f) THEN f.id ELSE gate.completedId
    BY <1>1, AcceptedIds
  <2>3. /\ gate.completedId # None => gate.createdId \in {None, gate.completedId}
        /\ \A i \in 1..n : Created(seen[i]) =>
             /\ gate.createdId # None
             /\ \E j \in i..n : seen[j].data = "created" /\ seen[j].id = gate.createdId
    BY <1>2, <2>1 DEF IInv, CreatedSumsUp, n
  <2>4. CASE Created(f)
    <3>1. gate.state = "open" /\ f.id # None /\ ~ Completes(gate, f)
      <4>1. f.event \notin {"unusable", "failure"} /\ ~ InvalidId(gate, f) /\ ~ AfterEnd(gate, f)
        BY <1>1, <2>4 DEF Raises, Fails
      <4> QED BY <2>4, <4>1 DEF InvalidId, AfterEnd, Substantive, Completes
    <3>2. gate'.completedId = None
      BY <2>1, <2>2, <3>1 DEF IInv, StateSumsUp
    <3>3. \A i \in 1..(n + 1) : \E j \in i..(n + 1) :
            seen'[j].data = "created" /\ seen'[j].id = gate'.createdId
      BY <1>2, <2>2, <2>4
    <3> QED BY <1>2, <2>2, <2>4, <3>1, <3>2, <3>3 DEF CreatedSumsUp
  <2>5. CASE ~ Created(f)
    <3>1. gate'.createdId = gate.createdId
      BY <2>2, <2>5
    <3>2. gate'.completedId # None => gate'.createdId \in {None, gate'.completedId}
      BY <1>1, <2>2, <2>3, <3>1, CompletesFacts
    <3>3. ASSUME NEW i \in 1..(n + 1), Created(seen'[i])
          PROVE  /\ gate'.createdId # None
                 /\ \E j \in i..(n + 1) :
                      seen'[j].data = "created" /\ seen'[j].id = gate'.createdId
      <4>1. i \in 1..n /\ Created(seen[i])
        BY <1>2, <2>5, <3>3
      <4>2. PICK j \in i..n : seen[j].data = "created" /\ seen[j].id = gate.createdId
        BY <2>3, <4>1
      <4>3. j \in i..(n + 1) /\ seen'[j] = seen[j]
        BY <1>2, <4>1, <4>2
      <4> QED BY <2>3, <3>1, <4>1, <4>2, <4>3
    <3> QED BY <1>2, <3>2, <3>3 DEF CreatedSumsUp
  <2> QED BY <2>4, <2>5
<1> QED BY <1>4, <1>5, <1>6, <1>8, <1>9 DEF IInv

LEMMA ThrowInvariant ==
  ASSUME IInv, NEW f \in Frames, Throw(f)
  PROVE  IInv'
<1>1. /\ gate \in Gates /\ gate' = Raised(gate, f) /\ output' = <<>>
      /\ relayed' = relayed /\ seen' = Append(seen, f) /\ phase' = "thrown"
      /\ relayed \in Seq(Frames) /\ seen \in Seq(Frames)
  BY TypeFacts DEF IInv, Throw, Arrive
<1>2. gate' \in Gates
  BY <1>1 DEF Raised, Gates
<1>3. output' \in Seq(Frames) /\ seen' \in Seq(Frames) /\ DOMAIN output' = {}
  BY <1>1, EmptySeq, AppendFacts
<1>4. TypeOK'
  BY <1>1, <1>2, <1>3 DEF TypeOK, Gates
<1>5. CompletionWithheld'
  BY <1>1, <1>3 DEF CompletionWithheld, IInv
<1> QED BY <1>1, <1>4, <1>5 DEF IInv, StreamPreserved, StateSumsUp, CreatedSumsUp

\* push() and finish() return.
LEMMA ReturnInvariant ==
  ASSUME IInv, Return \/ Finish
  PROVE  IInv'
<1>1. /\ gate \in Gates /\ gate' = gate /\ output' = <<>> /\ seen' = seen
      /\ relayed' = relayed \o output
      /\ phase = "streaming" /\ phase' \in {"streaming", "finished"}
      /\ relayed \in Seq(Frames) /\ output \in Seq(Frames) /\ seen \in Seq(Frames)
  BY TypeFacts DEF IInv, Return, Finish
<1>2. relayed' \in Seq(Frames) /\ output' \in Seq(Frames) /\ DOMAIN output' = {}
  BY <1>1, ConcatProperties, EmptySeq
<1>3. TypeOK'
  BY <1>1, <1>2 DEF TypeOK, Gates
<1>4. CompletionWithheld'
  <2>1. Clean(relayed) /\ Clean(output)
    BY DEF IInv, CompletionWithheld, Clean
  <2>2. Clean(relayed')
    BY <1>1, <2>1, CleanConcat
  <2> QED BY <1>2, <2>2 DEF CompletionWithheld, Clean
<1>5. StreamPreserved'
  <2>1. (relayed \o output) \o gate.withheld = ShownAll(seen)
    BY <1>1, StreamEquation DEF IInv
  <2>2. relayed' \o output' = relayed \o output
    BY <1>1, <1>2, ConcatEmptySeq
  <2> QED BY <1>1, <2>1, <2>2, StreamEquationNext
<1>6. StateSumsUp' /\ CreatedSumsUp'
  BY <1>1 DEF IInv, StateSumsUp, CreatedSumsUp, CompletedBy
<1> QED BY <1>3, <1>4, <1>5, <1>6 DEF IInv

LEMMA NextInvariant == IInv /\ [Next]_vars => IInv'
<1> SUFFICES ASSUME IInv, [Next]_vars PROVE IInv'
  OBVIOUS
<1>1. CASE Return \/ Finish
  BY <1>1, ReturnInvariant
<1>2. ASSUME NEW f \in Frames, Accept(f) PROVE IInv'
  BY <1>2, AcceptInvariant
<1>3. ASSUME NEW f \in Frames, Throw(f) PROVE IInv'
  BY <1>3, ThrowInvariant
<1>4. CASE UNCHANGED vars
  BY <1>4 DEF vars, IInv, TypeOK, CompletionWithheld, StreamPreserved,
              StateSumsUp, CreatedSumsUp, CompletedBy
<1> QED BY <1>1, <1>2, <1>3, <1>4 DEF Next

-----------------------------------------------------------------------------
\* In every reachable state the gate sums up the frames it has taken: its
\* state, the id it keeps and the frames it withholds say what they were.
THEOREM GateInvariance == Spec => []IInv
BY InitInvariant, NextInvariant, PTL DEF Spec

\* The gate, and everything it passes on, has its type.
THEOREM GateTypeCorrect == Spec => []TypeOK
<1>1. IInv => TypeOK
  BY DEF IInv
<1> QED BY <1>1, GateInvariance, PTL

\* A response is reported as completed only if the provider completed it,
\* with no end before and nothing that matters after.
THEOREM NothingCompletesAfterAnEnd == Spec => []NoCompletionAfterTerminal
<1>1. IInv => NoCompletionAfterTerminal
  <2> SUFFICES ASSUME IInv, phase = "finished", gate.completedId # None
               PROVE  CompletedBy(gate.completedId)
    BY DEF NoCompletionAfterTerminal, Completion
  <2>1. gate.state = "completed"
    BY DEF IInv, StateSumsUp
  <2> QED BY <2>1 DEF IInv, StateSumsUp
<1> QED BY <1>1, GateInvariance, PTL

\* No response.completed is relayed while the stream runs.
THEOREM CompletionIsWithheld == Spec => []CompletionWithheld
<1>1. IInv => CompletionWithheld
  BY DEF IInv
<1> QED BY <1>1, GateInvariance, PTL

\* Nothing is lost, added or reordered until a frame raises.
THEOREM StreamIsPreserved == Spec => []StreamPreserved
<1>1. IInv => StreamPreserved
  BY DEF IInv
<1> QED BY <1>1, GateInvariance, PTL

\* The response recorded is the one the client was told was created.
THEOREM RecordsTheCreatedResponse == Spec => []CompletedIsCreated
<1>1. IInv => CompletedIsCreated
  <2> SUFFICES ASSUME IInv, phase # "thrown", gate.completedId # None,
                      NEW i \in DOMAIN seen,
                      seen[i].data = "created" /\ ~ Fails(seen[i])
               PROVE  \E j \in i..Len(seen) :
                        seen[j].data = "created" /\ seen[j].id = gate.completedId
    BY DEF CompletedIsCreated
  <2>1. /\ gate.createdId \in {None, gate.completedId} /\ gate.createdId # None
        /\ \E j \in i..Len(seen) :
             seen[j].data = "created" /\ seen[j].id = gate.createdId
    BY DEF IInv, CreatedSumsUp
  <2> QED BY <2>1
<1> QED BY <1>1, GateInvariance, PTL

\* An end, of either kind, is for good.
THEOREM EndsAreIrreversible == Spec => EndIsIrreversible
<1>1. IInv /\ [Next]_vars =>
        (gate.state # "open" =>
           gate'.state = gate.state /\ gate'.completedId = gate.completedId)
  <2> SUFFICES ASSUME IInv, [Next]_vars, gate.state # "open"
               PROVE  gate'.state = gate.state /\ gate'.completedId = gate.completedId
    OBVIOUS
  <2>1. gate \in Gates
    BY TypeFacts DEF IInv
  <2>2. ASSUME NEW f \in Frames, Accept(f)
        PROVE  gate'.state = gate.state /\ gate'.completedId = gate.completedId
    <3>1. ~ Raises(gate, f) /\ gate' = Accepted(gate, f)
      BY <2>2 DEF Accept
    <3>2. ~ Completes(gate, f) /\ ~ EndsEarly(gate, f)
      BY <2>1, <3>1, QuietAfterEnd
    <3> QED BY <2>1, <3>1, <3>2, AcceptedState, AcceptedIds
  <2>3. ASSUME NEW f \in Frames, Throw(f)
        PROVE  gate' = gate
    BY <2>3 DEF Throw, Raised
  <2>4. CASE Return \/ Finish \/ UNCHANGED vars
    BY <2>4 DEF Return, Finish, vars
  <2> QED BY <2>2, <2>3, <2>4 DEF Next
<1> QED BY <1>1, GateInvariance, PTL DEF Spec, EndIsIrreversible

-----------------------------------------------------------------------------
(* Induction over data.  The library states it for a property, which the   *)
(* provers cannot instantiate; here it is stated for a set.                *)

LEMMA Related ==
  ASSUME NEW m \in Nat, NEW n \in Nat, ~ (<<m, n>> \in OpToRel(<, Nat))
  PROVE  ~ (m < n)
BY DEF OpToRel

\* Some number of a set is the least.
LEMMA Least ==
  ASSUME NEW T \in SUBSET Nat, T # {}
  PROVE  \E n \in T : \A m \in T : n <= m
<1>1. PICK n \in T : \A m \in T : ~ (<<m, n>> \in OpToRel(<, Nat))
  BY NatLessThanWellFounded, WFMin
<1>2. \A m \in T : ~ (m < n)
  BY <1>1, Related
<1> QED BY <1>2

\* A set that has 0 and with each number the next one has all of them.
LEMMA Induction ==
  ASSUME NEW T, 0 \in T, \A n \in Nat : n \in T => n + 1 \in T
  PROVE  Nat \subseteq T
<1> SUFFICES ASSUME Nat \ T # {} PROVE FALSE
  OBVIOUS
<1>1. PICK n \in Nat \ T : \A m \in Nat \ T : n <= m
  BY Least
<1>2. n - 1 \in Nat /\ n - 1 \in T
  BY <1>1
<1> QED BY <1>1, <1>2

\* So has one that has each number whose smaller ones it has.
LEMMA StrongInduction ==
  ASSUME NEW T, \A n \in Nat : (\A m \in Nat : m < n => m \in T) => n \in T
  PROVE  Nat \subseteq T
<1> SUFFICES ASSUME Nat \ T # {} PROVE FALSE
  OBVIOUS
<1>1. PICK n \in Nat \ T : \A m \in Nat \ T : n <= m
  BY Least
<1>2. \A m \in Nat : m < n => m \in T
  BY <1>1
<1> QED BY <1>1, <1>2

\* A sequence that is not empty is one with a last element.
LEMMA FrontLast ==
  ASSUME NEW S, NEW s \in Seq(S), s # <<>>
  PROVE  /\ Front(s) \in Seq(S) /\ Last(s) \in S
         /\ s = Append(Front(s), Last(s))
         /\ Len(Front(s)) = Len(s) - 1 /\ Len(s) \in Nat \ {0}
         /\ \A i \in 1 .. Len(s) - 1 : Front(s)[i] = s[i]
<1>1. PICK t \in Seq(S), e \in S : s = Append(t, e)
  BY SequenceEmptyOrAppend
<1>2. /\ Len(s) = Len(t) + 1 /\ Len(t) \in Nat
      /\ \A i \in 1 .. Len(t) : s[i] = t[i]
      /\ s[Len(t) + 1] = e
  BY <1>1, AppendProperties, LenProperties
<1>3. /\ Front(s) \in Seq(S) /\ Len(Front(s)) = Len(t)
      /\ \A i \in 1 .. Len(t) : Front(s)[i] = s[i]
  <2>1. \A i \in 1 .. Len(s) - 1 : s[i] \in S
    BY <1>2, ElementOfSeq
  <2> QED BY <2>1, <1>2, SubSeqProperties DEF Front
<1>4. Front(s) = t
  BY <1>2, <1>3, SeqEqual
<1> QED BY <1>1, <1>2, <1>3, <1>4 DEF Last

LEMMA OfAppend ==
  ASSUME NEW S, NEW s \in Seq(S), NEW e \in S
  PROVE  /\ Append(s, e) \in Seq(S) /\ Append(s, e) # <<>>
         /\ Front(Append(s, e)) = s /\ Last(Append(s, e)) = e
         /\ Len(Append(s, e)) = Len(s) + 1
<1>1. /\ Append(s, e) \in Seq(S) /\ Append(s, e) # <<>>
      /\ Len(Append(s, e)) = Len(s) + 1
  BY AppendProperties
<1>2. Append(s, e) = Append(Front(Append(s, e)), Last(Append(s, e)))
      /\ Front(Append(s, e)) \in Seq(S) /\ Last(Append(s, e)) \in S
  BY <1>1, FrontLast
<1> QED BY <1>1, <1>2, AppendInjective

\* A set of sequences that has the empty one, and with each one all that are
\* longer by an element, has all of them.
LEMMA SeqInduction ==
  ASSUME NEW S, NEW T, <<>> \in T,
         \A s \in Seq(S), e \in S : s \in T => Append(s, e) \in T
  PROVE  Seq(S) \subseteq T
<1> DEFINE Lengths == {n \in Nat : \A s \in Seq(S) : Len(s) = n => s \in T}
<1>1. 0 \in Lengths
  BY EmptySeq
<1>2. ASSUME NEW n \in Nat, n \in Lengths PROVE n + 1 \in Lengths
  <2> SUFFICES ASSUME NEW s \in Seq(S), Len(s) = n + 1 PROVE s \in T
    OBVIOUS
  <2>1. s # <<>>
    BY EmptySeq
  <2>2. /\ Front(s) \in Seq(S) /\ Last(s) \in S /\ Len(Front(s)) = n
        /\ s = Append(Front(s), Last(s))
    BY <2>1, FrontLast
  <2>3. Front(s) \in T
    BY <1>2, <2>2
  <2>4. Append(Front(s), Last(s)) \in T
    BY <2>2, <2>3
  <2> QED BY <2>2, <2>4
<1>3. Nat \subseteq Lengths
  <2> HIDE DEF Lengths
  <2> QED BY <1>1, <1>2, Induction
<1> QED BY <1>3, LenProperties

-----------------------------------------------------------------------------
(* Recursion over data: a function of sequences that says what it is of    *)
(* the empty one, and what one more element makes of it.                   *)

\* r holds what H makes of the first i elements of s, for every i.
IsRun(r, s, a, H) ==
  /\ r[0] = a
  /\ \A i \in 1 .. Len(s) : r[i] = H[<<r[i - 1], s[i]>>]

\* There is one such r,
LEMMA RunOf ==
  ASSUME NEW S, NEW R, NEW a \in R, NEW H \in [R \X S -> R], NEW s \in Seq(S)
  PROVE  \E r \in [0 .. Len(s) -> R] : IsRun(r, s, a, H)
<1> DEFINE T == {u \in Seq(S) : \E r \in [0 .. Len(u) -> R] : IsRun(r, u, a, H)}
<1>1. <<>> \in T
  <2>1. /\ [i \in 0 .. 0 |-> a] \in [0 .. Len(<<>>) -> R]
        /\ <<>> \in Seq(S) /\ Len(<<>>) = 0
    BY EmptySeq
  <2>2. IsRun([i \in 0 .. 0 |-> a], <<>>, a, H)
    BY <2>1 DEF IsRun
  <2> QED BY <2>1, <2>2
<1>2. ASSUME NEW u \in Seq(S), NEW e \in S, u \in T PROVE Append(u, e) \in T
  <2>1. PICK r \in [0 .. Len(u) -> R] : IsRun(r, u, a, H)
    BY <1>2
  <2> DEFINE n == Len(u)
             q == [i \in 0 .. n + 1 |-> IF i <= n THEN r[i] ELSE H[<<r[n], e>>]]
  <2>2. n \in Nat /\ r[n] \in R /\ H[<<r[n], e>>] \in R
    BY LenProperties
  <2>3. q \in [0 .. n + 1 -> R]
    BY <2>2
  <2>4. /\ Append(u, e) \in Seq(S) /\ Len(Append(u, e)) = n + 1
        /\ \A i \in 1 .. n : Append(u, e)[i] = u[i]
        /\ Append(u, e)[n + 1] = e
    BY AppendProperties
  <2>5. IsRun(q, Append(u, e), a, H)
    <3>0. /\ \A i \in 0 .. n : q[i] = r[i]
          /\ q[n + 1] = H[<<r[n], e>>]
      BY <2>2
    <3> HIDE DEF q
    <3>1. q[0] = a
      BY <2>1, <2>2, <3>0 DEF IsRun
    <3>2. ASSUME NEW i \in 1 .. n
          PROVE  q[i] = H[<<q[i - 1], Append(u, e)[i]>>]
      <4>1. r[i] = H[<<r[i - 1], u[i]>>]
        BY <2>1 DEF IsRun
      <4>2. i \in 0 .. n /\ i - 1 \in 0 .. n
        BY <2>2
      <4> QED BY <4>1, <4>2, <3>0, <2>4
    <3>3. q[n + 1] = H[<<q[n], Append(u, e)[n + 1]>>]
      <4>1. q[n] = r[n] /\ n \in Nat
        BY <2>2, <3>0
      <4>2. Append(u, e)[n + 1] = e
        BY <2>4
      <4> HIDE DEF n
      <4> QED BY <4>1, <4>2, <3>0
    <3>4. ASSUME NEW i \in 1 .. Len(Append(u, e))
          PROVE  q[i] = H[<<q[i - 1], Append(u, e)[i]>>]
      <4>1. i \in 1 .. n \/ i = n + 1
        BY <2>2, <2>4
      <4>2. CASE i = n + 1
        BY <4>2, <2>2, <3>3
      <4> QED BY <4>1, <4>2, <3>2
    <3> QED BY <3>1, <3>4 DEF IsRun
  <2> HIDE DEF q
  <2> QED BY <2>3, <2>4, <2>5
<1>3. Seq(S) \subseteq T
  <2> HIDE DEF T
  <2> QED BY <1>1, <1>2, SeqInduction
<1> QED BY <1>3

\* and one more element changes nothing of it.
LEMMA RunsAgree ==
  ASSUME NEW S, NEW a, NEW H, NEW s \in Seq(S), NEW e \in S,
         NEW r, NEW q, IsRun(r, Append(s, e), a, H), IsRun(q, s, a, H)
  PROVE  r[Len(s)] = q[Len(s)]
<1> DEFINE u == Append(s, e)
           n == Len(s)
<1> DEFINE T == {i \in Nat : i <= n => r[i] = q[i]}
<1>0. /\ Len(s) \in Nat /\ Len(u) \in Nat /\ n <= Len(u)
      /\ \A i \in 1 .. n : s[i] = u[i]
  BY LenProperties, AppendProperties
<1>4. IsRun(r, u, a, H) /\ IsRun(q, s, a, H)
  OBVIOUS
<1> HIDE DEF u
<1>1. 0 \in T
  BY <1>4 DEF IsRun
<1>2. ASSUME NEW i \in Nat, i \in T PROVE i + 1 \in T
  <2> SUFFICES ASSUME i + 1 <= n PROVE r[i + 1] = q[i + 1]
    OBVIOUS
  <2>1. r[i] = q[i] /\ i + 1 \in 1 .. Len(s) /\ i + 1 \in 1 .. Len(u)
        /\ s[i + 1] = u[i + 1] /\ (i + 1) - 1 = i
    BY <1>0, <1>2
  <2> QED BY <2>1, <1>4 DEF IsRun
<1>3. Nat \subseteq T
  <2> HIDE DEF T
  <2> QED BY <1>1, <1>2, Induction
<1> QED BY <1>0, <1>3

Steps(R, S) == [R \X S -> R]

\* F holds, for every sequence over S, what H makes of its elements in turn.
ComputedBy(F, S, a, H) ==
  /\ F[<<>>] = a
  /\ \A s \in Seq(S), e \in S : F[Append(s, e)] = H[<<F[s], e>>]

\* So a function of a sequence may be defined by what it is of the empty one
\* and by what one more element makes of it.
LEMMA Recursion ==
  ASSUME NEW S, NEW R, NEW a \in R, NEW H \in Steps(R, S)
  PROVE  \E F \in [Seq(S) -> R] : ComputedBy(F, S, a, H)
<1> DEFINE run(s) == CHOOSE r \in [0 .. Len(s) -> R] : IsRun(r, s, a, H)
           F == [s \in Seq(S) |-> run(s)[Len(s)]]
<1>1. ASSUME NEW s \in Seq(S)
      PROVE  run(s) \in [0 .. Len(s) -> R] /\ IsRun(run(s), s, a, H)
  BY RunOf DEF Steps
<1>0. ASSUME NEW s \in Seq(S) PROVE Len(s) \in Nat /\ Len(s) \in 0 .. Len(s)
  BY LenProperties
<1> HIDE DEF run
<1>2. F \in [Seq(S) -> R]
  <2>1. ASSUME NEW s \in Seq(S) PROVE run(s)[Len(s)] \in R
    BY <1>0, <1>1
  <2> QED BY <2>1
<1>3. F[<<>>] = a
  <2>1. <<>> \in Seq(S) /\ Len(<<>>) = 0
    BY EmptySeq
  <2> QED BY <1>1, <2>1 DEF IsRun
<1>4. ASSUME NEW s \in Seq(S), NEW e \in S
      PROVE  F[Append(s, e)] = H[<<F[s], e>>]
  <2> DEFINE u == Append(s, e)
             n == Len(s)
  <2>1. /\ u \in Seq(S) /\ Len(u) = n + 1 /\ n \in Nat
        /\ \A i \in 1 .. n : u[i] = s[i]
        /\ u[n + 1] = e
    BY AppendProperties, LenProperties
  <2> HIDE DEF u
  <2>2. IsRun(run(u), u, a, H) /\ IsRun(run(s), s, a, H)
    BY <1>1, <2>1
  <2>3. run(u)[n + 1] = H[<<run(u)[n], e>>]
    <3>1. n + 1 \in 1 .. Len(u) /\ (n + 1) - 1 = n
      BY <2>1
    <3> QED BY <2>1, <2>2, <3>1 DEF IsRun
  <2>4. run(u)[n] = run(s)[n]
    BY <2>2, RunsAgree DEF u
  <2>5. F[u] = run(u)[n + 1] /\ F[s] = run(s)[n]
    BY <2>1
  <2> HIDE DEF F
  <2> QED BY <2>3, <2>4, <2>5 DEF u
<1> HIDE DEF F
<1> QED BY <1>2, <1>3, <1>4 DEF ComputedBy

-----------------------------------------------------------------------------
(* replaceAll and the reader, by what one more character makes of them.    *)

Streams == Seq(Characters)

Readers == [frames : Seq(Streams), open : Streams]

LEMMA ReplaceType ==
  ASSUME NEW s \in Streams, NEW c \in Characters
  PROVE  Replace(s, c) \in Streams
<1>1. CASE c = "LF" /\ s # <<>> /\ Last(s) = "CR"
  <2>1. Front(s) \in Streams
    BY <1>1, FrontLast DEF Streams
  <2> QED BY <1>1, <2>1, OfAppend DEF Replace, Streams
<1>2. CASE ~ (c = "LF" /\ s # <<>> /\ Last(s) = "CR")
  BY <1>2, OfAppend DEF Replace, Streams
<1> QED BY <1>1, <1>2

LEMMA NormalisedFacts ==
  /\ Normalised \in [Streams -> Streams]
  /\ Normalised[<<>>] = <<>>
  /\ \A s \in Streams, c \in Characters :
       Normalised[Append(s, c)] = Replace(Normalised[s], c)
<1> DEFINE Step(f) == [s \in Streams |->
                         IF s = <<>> THEN <<>> ELSE Replace(f[Front(s)], Last(s))]
<1>1. PICK H \in Steps(Streams, Characters) :
        \A s \in Streams, c \in Characters : H[<<s, c>>] = Replace(s, c)
  <2> DEFINE G == [p \in Streams \X Characters |-> Replace(p[1], p[2])]
  <2>1. /\ G \in [Streams \X Characters -> Streams]
        /\ \A s \in Streams, c \in Characters : G[<<s, c>>] = Replace(s, c)
    BY ReplaceType
  <2> QED BY <2>1 DEF Steps
<1>2. <<>> \in Streams
  BY EmptySeq DEF Streams
<1>3. PICK F \in [Streams -> Streams] :
        ComputedBy(F, Characters, <<>>, H)
  BY <1>1, <1>2, Recursion DEF Streams
<1>4. ASSUME NEW s \in Streams, NEW c \in Characters
      PROVE  F[Append(s, c)] = Replace(F[s], c)
  BY <1>1, <1>3 DEF ComputedBy, Streams
<1>5. F = Step(F)
  <2>1. ASSUME NEW s \in Streams
        PROVE  F[s] = IF s = <<>> THEN <<>> ELSE Replace(F[Front(s)], Last(s))
    <3>1. CASE s = <<>>
      BY <1>3, <3>1 DEF ComputedBy
    <3>2. CASE s # <<>>
      <4>1. /\ Front(s) \in Streams /\ Last(s) \in Characters
            /\ s = Append(Front(s), Last(s))
        BY <3>2, FrontLast DEF Streams
      <4> QED BY <1>4, <3>2, <4>1
    <3> QED BY <3>1, <3>2
  <2> QED BY <2>1
<1>6. Normalised = Step(Normalised)
  <2>1. Normalised = CHOOSE f : f = Step(f)
    BY DEF Normalised, Streams
  <2> HIDE DEF Step
  <2> QED BY <1>5, <2>1
<1>7. ASSUME NEW s \in Streams, NEW c \in Characters
      PROVE  Normalised[Append(s, c)] = Replace(Normalised[s], c)
  <2>1. /\ Append(s, c) \in Streams /\ Append(s, c) # <<>>
        /\ Front(Append(s, c)) = s /\ Last(Append(s, c)) = c
    BY OfAppend DEF Streams
  <2> QED BY <1>6, <2>1
<1>8. Normalised[<<>>] = <<>>
  BY <1>2, <1>6
<1>9. Normalised \in [Streams -> Streams]
  <2> DEFINE T == {s \in Streams : Normalised[s] \in Streams}
  <2>1. <<>> \in T
    BY <1>2, <1>8
  <2>2. ASSUME NEW s \in Streams, NEW c \in Characters, s \in T
        PROVE  Append(s, c) \in T
    BY <1>7, <2>2, OfAppend, ReplaceType DEF Streams
  <2>3. Streams \subseteq T
    <3> HIDE DEF T
    <3> QED BY <2>1, <2>2, SeqInduction DEF Streams
  <2> QED BY <1>6, <2>3
<1> QED BY <1>7, <1>8, <1>9

Nothing == [frames |-> <<>>, open |-> <<>>]

LEMMA NothingType ==
  Nothing \in Readers
BY EmptySeq DEF Nothing, Readers, Streams

LEMMA ReadType ==
  ASSUME NEW r \in Readers, NEW c \in Characters
  PROVE  Read(r, c) \in Readers
<1>0. r.frames \in Seq(Streams) /\ r.open \in Streams
  BY DEF Readers
<1>1. CASE c = "LF" /\ r.open # <<>> /\ Last(r.open) = "LF"
  <2>1. Front(r.open) \in Streams
    BY <1>0, <1>1, FrontLast DEF Streams
  <2>2. Append(r.frames, Front(r.open)) \in Seq(Streams) /\ <<>> \in Streams
    BY <1>0, <2>1, OfAppend, EmptySeq DEF Streams
  <2> QED BY <1>1, <2>2 DEF Read, Readers
<1>2. CASE ~ (c = "LF" /\ r.open # <<>> /\ Last(r.open) = "LF")
  <2>1. Append(r.open, c) \in Streams
    BY <1>0, OfAppend DEF Streams
  <2>2. Read(r, c) = [frames |-> r.frames, open |-> Append(r.open, c)]
    BY <1>2 DEF Read, Readers
  <2> QED BY <1>0, <2>1, <2>2 DEF Readers
<1> QED BY <1>1, <1>2

LEMMA ReadAllFacts ==
  /\ ReadAll \in [Streams -> Readers]
  /\ ReadAll[<<>>] = Nothing
  /\ \A s \in Streams, c \in Characters :
       ReadAll[Append(s, c)] = Read(ReadAll[s], c)
<1> DEFINE Step(f) == [s \in Streams |->
                         IF s = <<>> THEN Nothing ELSE Read(f[Front(s)], Last(s))]
<1>1. PICK H \in Steps(Readers, Characters) :
        \A s \in Readers, c \in Characters : H[<<s, c>>] = Read(s, c)
  <2> DEFINE G == [p \in Readers \X Characters |-> Read(p[1], p[2])]
  <2>1. /\ G \in [Readers \X Characters -> Readers]
        /\ \A s \in Readers, c \in Characters : G[<<s, c>>] = Read(s, c)
    BY ReadType
  <2> QED BY <2>1 DEF Steps
<1>2. <<>> \in Streams
  BY EmptySeq DEF Streams
<1>3. PICK F \in [Streams -> Readers] :
        ComputedBy(F, Characters, Nothing, H)
  BY <1>1, NothingType, Recursion DEF Streams
<1>4. ASSUME NEW s \in Streams, NEW c \in Characters
      PROVE  F[Append(s, c)] = Read(F[s], c)
  BY <1>1, <1>3 DEF ComputedBy, Streams
<1>5. F = Step(F)
  <2>1. ASSUME NEW s \in Streams
        PROVE  F[s] = IF s = <<>> THEN Nothing ELSE Read(F[Front(s)], Last(s))
    <3>1. CASE s = <<>>
      BY <1>3, <3>1 DEF ComputedBy
    <3>2. CASE s # <<>>
      <4>1. /\ Front(s) \in Streams /\ Last(s) \in Characters
            /\ s = Append(Front(s), Last(s))
        BY <3>2, FrontLast DEF Streams
      <4> QED BY <1>4, <3>2, <4>1
    <3> QED BY <3>1, <3>2
  <2> QED BY <2>1
<1>6. ReadAll = Step(ReadAll)
  <2>1. ReadAll = CHOOSE f : f = Step(f)
    BY DEF ReadAll, Streams, Nothing
  <2> HIDE DEF Step
  <2> QED BY <1>5, <2>1
<1>7. ASSUME NEW s \in Streams, NEW c \in Characters
      PROVE  ReadAll[Append(s, c)] = Read(ReadAll[s], c)
  <2>1. /\ Append(s, c) \in Streams /\ Append(s, c) # <<>>
        /\ Front(Append(s, c)) = s /\ Last(Append(s, c)) = c
    BY OfAppend DEF Streams
  <2> QED BY <1>6, <2>1
<1>8. ReadAll[<<>>] = Nothing
  BY <1>2, <1>6
<1>9. ReadAll \in [Streams -> Readers]
  <2> DEFINE T == {s \in Streams : ReadAll[s] \in Readers}
  <2>1. <<>> \in T
    BY <1>2, <1>8, NothingType
  <2>2. ASSUME NEW s \in Streams, NEW c \in Characters, s \in T
        PROVE  Append(s, c) \in T
    BY <1>7, <2>2, OfAppend, ReadType DEF Streams
  <2>3. Streams \subseteq T
    <3> HIDE DEF T
    <3> QED BY <2>1, <2>2, SeqInduction DEF Streams
  <2> QED BY <1>6, <2>3
<1> QED BY <1>7, <1>8, <1>9

-----------------------------------------------------------------------------
(* What the reader leaves open has no blank line, and behind a blank line  *)
(* it begins anew.                                                         *)

\* b does not stand behind a anywhere in s.
Apart(s, a, b) ==
  \A i \in DOMAIN s : i + 1 \in DOMAIN s => ~ (s[i] = a /\ s[i + 1] = b)

LEMMA ApartFront ==
  ASSUME NEW s \in Streams, s # <<>>, NEW a, NEW b, Apart(s, a, b)
  PROVE  Apart(Front(s), a, b)
<1>1. /\ Front(s) \in Streams /\ Len(Front(s)) = Len(s) - 1 /\ Len(s) \in Nat \ {0}
      /\ \A i \in 1 .. Len(s) - 1 : Front(s)[i] = s[i]
  BY FrontLast DEF Streams
<1>2. DOMAIN s = 1 .. Len(s) /\ DOMAIN Front(s) = 1 .. Len(s) - 1
  BY <1>1, LenProperties DEF Streams
<1> QED BY <1>1, <1>2 DEF Apart

LEMMA ApartAppend ==
  ASSUME NEW s \in Streams, NEW c \in Characters, NEW a, NEW b
  PROVE  Apart(Append(s, c), a, b)
           <=> Apart(s, a, b) /\ ~ (s # <<>> /\ Last(s) = a /\ c = b)
<1> DEFINE u == Append(s, c)
           n == Len(s)
<1>1. /\ n \in Nat /\ DOMAIN s = 1 .. n /\ DOMAIN u = 1 .. n + 1
      /\ \A i \in 1 .. n : u[i] = s[i]
      /\ u[n + 1] = c
      /\ s # <<>> <=> n # 0
  BY AppendProperties, LenProperties, EmptySeq DEF Streams
<1>2. Last(s) = s[n]
  BY DEF Last
<1> HIDE DEF u, n
<1>3. ASSUME Apart(u, a, b) PROVE Apart(s, a, b)
  BY <1>1, <1>3 DEF Apart
<1>4. ASSUME Apart(u, a, b), n # 0 PROVE ~ (s[n] = a /\ c = b)
  <2>1. n \in DOMAIN u /\ n + 1 \in DOMAIN u /\ u[n] = s[n]
    BY <1>1, <1>4
  <2> QED BY <1>1, <1>4, <2>1 DEF Apart
<1>5. ASSUME Apart(s, a, b), n # 0 => ~ (s[n] = a /\ c = b) PROVE Apart(u, a, b)
  <2> SUFFICES ASSUME NEW i \in 1 .. n + 1, i + 1 \in 1 .. n + 1
               PROVE  ~ (u[i] = a /\ u[i + 1] = b)
    BY <1>1 DEF Apart
  <2>1. CASE i = n
    BY <1>1, <1>5, <2>1
  <2>2. CASE i # n
    <3>1. i \in 1 .. n /\ i + 1 \in 1 .. n
      BY <1>1, <2>2
    <3> QED BY <1>1, <1>5, <3>1 DEF Apart
  <2> QED BY <2>1, <2>2
<1> QED BY <1>1, <1>2, <1>3, <1>4, <1>5 DEF u

LEMMA NoBoundary ==
  ASSUME NEW s \in Streams
  PROVE  Boundaries(s) = {} <=> Apart(s, "LF", "LF")
<1>1. Len(s) \in Nat /\ DOMAIN s = 1 .. Len(s)
  BY LenProperties DEF Streams
<1> QED BY <1>1 DEF Boundaries, Apart

LEMMA ReadCases ==
  ASSUME NEW fs, NEW o, NEW c
  PROVE  Read([frames |-> fs, open |-> o], c) =
           IF c = "LF" /\ o # <<>> /\ Last(o) = "LF"
           THEN [frames |-> Append(fs, Front(o)), open |-> <<>>]
           ELSE [frames |-> fs, open |-> Append(o, c)]
BY DEF Read

\* What has no blank line is open.
LEMMA ReadsOpen ==
  ASSUME NEW s \in Streams, Apart(s, "LF", "LF")
  PROVE  ReadAll[s] = [frames |-> <<>>, open |-> s]
<1> DEFINE T == {u \in Streams : Apart(u, "LF", "LF")
                                   => ReadAll[u] = [frames |-> <<>>, open |-> u]}
<1>1. <<>> \in T
  BY ReadAllFacts, EmptySeq DEF Nothing, Streams
<1>2. ASSUME NEW u \in Streams, NEW c \in Characters, u \in T
      PROVE  Append(u, c) \in T
  <2> SUFFICES ASSUME Apart(Append(u, c), "LF", "LF")
               PROVE  ReadAll[Append(u, c)] = [frames |-> <<>>, open |-> Append(u, c)]
    BY OfAppend DEF Streams
  <2>1. /\ ReadAll[u] = [frames |-> <<>>, open |-> u]
        /\ ~ (u # <<>> /\ Last(u) = "LF" /\ c = "LF")
    BY <1>2, ApartAppend
  <2>2. ReadAll[Append(u, c)] = Read(ReadAll[u], c)
    BY ReadAllFacts
  <2> QED BY <2>1, <2>2, ReadCases
<1>3. Streams \subseteq T
  <2> HIDE DEF T
  <2> QED BY <1>1, <1>2, SeqInduction DEF Streams
<1> QED BY <1>3

\* The reader r with the frames fs ahead of its own
Ahead(fs, r) == [frames |-> fs \o r.frames, open |-> r.open]

LEMMA ReadAhead ==
  ASSUME NEW fs \in Seq(Streams), NEW r \in Readers, NEW c \in Characters
  PROVE  Read(Ahead(fs, r), c) = Ahead(fs, Read(r, c))
<1>0. r.frames \in Seq(Streams) /\ r.open \in Streams
  BY DEF Readers
<1>1. CASE c = "LF" /\ r.open # <<>> /\ Last(r.open) = "LF"
  <2>1. Front(r.open) \in Streams
    BY <1>0, <1>1, FrontLast DEF Streams
  <2>2. Append(fs \o r.frames, Front(r.open)) = fs \o Append(r.frames, Front(r.open))
    <3> DEFINE gs == r.frames
               e == Front(r.open)
    <3>1. gs \in Seq(Streams) /\ e \in Streams
      BY <1>0, <2>1
    <3> HIDE DEF gs, e
    <3>2. fs \o Append(gs, e) = Append(fs \o gs, e)
      BY <3>1, ConcatAppend
    <3> QED BY <3>2 DEF gs, e
  <2> QED BY <1>1, <2>2 DEF Read, Ahead
<1>2. CASE ~ (c = "LF" /\ r.open # <<>> /\ Last(r.open) = "LF")
  <2>1. Read(r, c) = [frames |-> r.frames, open |-> Append(r.open, c)]
    BY <1>2 DEF Read, Readers
  <2>2. Read(Ahead(fs, r), c) = [frames |-> fs \o r.frames, open |-> Append(r.open, c)]
    BY <1>2 DEF Read, Ahead
  <2> QED BY <2>1, <2>2 DEF Ahead
<1> QED BY <1>1, <1>2

\* When a frame has just ended, the reading begins anew.
LEMMA ReadsOn ==
  ASSUME NEW s \in Streams, NEW t \in Streams, ReadAll[s].open = <<>>
  PROVE  ReadAll[s \o t] = Ahead(ReadAll[s].frames, ReadAll[t])
<1> DEFINE fs == ReadAll[s].frames
           T == {u \in Streams : ReadAll[s \o u] = Ahead(fs, ReadAll[u])}
<1>0. /\ fs \in Seq(Streams) /\ ReadAll[s] \in Readers
      /\ ReadAll[s] = [frames |-> fs, open |-> <<>>]
  BY ReadAllFacts DEF Readers
<1> HIDE DEF fs
<1>1. <<>> \in T
  <2>1. <<>> \in Streams /\ s \o <<>> = s /\ fs \o <<>> = fs
    BY <1>0, EmptySeq, ConcatEmptySeq DEF Streams
  <2> QED BY <1>0, <2>1, ReadAllFacts DEF Nothing, Ahead
<1>2. ASSUME NEW u \in Streams, NEW c \in Characters, u \in T
      PROVE  Append(u, c) \in T
  <2>1. /\ s \o Append(u, c) = Append(s \o u, c)
        /\ s \o u \in Streams /\ Append(u, c) \in Streams
    BY ConcatAppend, ConcatProperties, AppendProperties DEF Streams
  <2>2. /\ ReadAll[Append(s \o u, c)] = Read(ReadAll[s \o u], c)
        /\ ReadAll[Append(u, c)] = Read(ReadAll[u], c)
        /\ ReadAll[u] \in Readers
    BY <2>1, ReadAllFacts
  <2>3. ReadAll[s \o u] = Ahead(fs, ReadAll[u])
    BY <1>2
  <2>4. Read(Ahead(fs, ReadAll[u]), c) = Ahead(fs, Read(ReadAll[u], c))
    BY <1>0, <2>2, ReadAhead
  <2> QED BY <2>1, <2>2, <2>3, <2>4
<1>3. Streams \subseteq T
  <2> HIDE DEF T
  <2> QED BY <1>1, <1>2, SeqInduction DEF Streams
<1> QED BY <1>3 DEF fs

-----------------------------------------------------------------------------
(* The loop of #consume finds the frames the reader does.                  *)

LEMMA MinFacts ==
  ASSUME NEW T \in SUBSET Nat, T # {}
  PROVE  Min(T) \in T /\ \A n \in T : Min(T) <= n
BY Least DEF Min

LEMMA PartOf ==
  ASSUME NEW S, NEW s \in Seq(S), NEW m \in Nat \ {0}, NEW n \in Nat, n <= Len(s)
  PROVE  /\ SubSeq(s, m, n) \in Seq(S)
         /\ Len(SubSeq(s, m, n)) = IF m <= n THEN n - m + 1 ELSE 0
         /\ \A i \in 1 .. n - m + 1 : SubSeq(s, m, n)[i] = s[m + i - 1]
<1>1. Len(s) \in Nat
  BY LenProperties
<1>2. \A i \in m .. n : s[i] \in S
  <2> SUFFICES ASSUME NEW i \in m .. n PROVE s[i] \in S
    OBVIOUS
  <2>1. i \in 1 .. Len(s)
    BY <1>1
  <2> QED BY <2>1, ElementOfSeq
<1> QED BY <1>2, SubSeqProperties

Divided(s, p, e, t) ==
  /\ Len(s) = Len(p) + 1 + Len(t)
  /\ \A i \in 1 .. Len(p) : p[i] = s[i]
  /\ s[Len(p) + 1] = e
  /\ \A i \in 1 .. Len(t) : t[i] = s[Len(p) + 1 + i]

\* A sequence is what stands before an element of it, the element, and what
\* stands behind it.
LEMMA Joined ==
  ASSUME NEW S, NEW s \in Seq(S), NEW p \in Seq(S), NEW t \in Seq(S), NEW e \in S,
         Divided(s, p, e, t)
  PROVE  Append(p, e) \o t = s
<1> DEFINE m == Len(p)
           k == Len(t)
           q == Append(p, e)
           u == q \o t
<1>0. m \in Nat /\ k \in Nat
  BY LenProperties
<1>1. /\ q \in Seq(S) /\ Len(q) = m + 1 /\ q[m + 1] = e
      /\ \A i \in 1 .. m : q[i] = s[i]
  BY AppendProperties DEF Divided
<1> HIDE DEF q
<1>2. /\ u \in Seq(S) /\ Len(u) = Len(q) + Len(t)
      /\ \A i \in 1 .. Len(q) + Len(t) :
           u[i] = IF i <= Len(q) THEN q[i] ELSE t[i - Len(q)]
  BY <1>1, ConcatProperties
<1> HIDE DEF u
<1>3. Len(u) = m + 1 + k /\ Len(q) + Len(t) = m + 1 + k
  BY <1>1, <1>2
<1>6. /\ \A i \in 1 .. m : p[i] = s[i]
      /\ s[m + 1] = e /\ \A i \in 1 .. k : t[i] = s[m + 1 + i]
      /\ Len(s) = m + 1 + k
  BY DEF Divided
<1> HIDE DEF m, k
<1>4. ASSUME NEW i \in 1 .. m + 1 + k PROVE u[i] = s[i]
  <2>1. CASE i <= m
    BY <1>0, <1>1, <1>2, <1>3, <1>6, <2>1
  <2>2. CASE i = m + 1
    BY <1>0, <1>1, <1>2, <1>3, <1>6, <2>2
  <2>3. CASE i > m + 1
    <3>1. i - (m + 1) \in 1 .. k /\ m + 1 + (i - (m + 1)) = i
      BY <1>0, <2>3
    <3>2. u[i] = t[i - (m + 1)]
      BY <1>0, <1>1, <1>2, <1>3, <2>3
    <3> QED BY <1>6, <3>1, <3>2
  <2> QED BY <1>0, <2>1, <2>2, <2>3
<1>5. u = s
  BY <1>2, <1>3, <1>4, <1>6, SeqEqual
<1> QED BY <1>5 DEF u, q

LEMMA FirstBoundary ==
  ASSUME NEW s \in Streams, Boundaries(s) # {}
  PROVE  /\ Min(Boundaries(s)) \in Nat \ {0} /\ Min(Boundaries(s)) < Len(s)
         /\ s[Min(Boundaries(s))] = "LF" /\ s[Min(Boundaries(s)) + 1] = "LF"
         /\ \A i \in Nat \ {0} :
              i < Min(Boundaries(s)) => ~ (s[i] = "LF" /\ s[i + 1] = "LF")
<1> DEFINE B == Boundaries(s)
<1>1. Len(s) \in Nat /\ DOMAIN s = 1 .. Len(s)
  BY LenProperties DEF Streams
<1>2. \A i : i \in B <=> i \in 1 .. Len(s) /\ i < Len(s) /\ s[i] = "LF" /\ s[i + 1] = "LF"
  BY <1>1 DEF Boundaries
<1>3. B \in SUBSET Nat /\ B # {}
  BY <1>1, <1>2
<1> HIDE DEF B
<1>4. Min(B) \in B /\ \A i \in B : Min(B) <= i
  BY <1>3, MinFacts
<1> DEFINE m == Min(B)
<1>5. m \in Nat \ {0} /\ m < Len(s) /\ s[m] = "LF" /\ s[m + 1] = "LF"
  BY <1>1, <1>2, <1>4
<1>6. ASSUME NEW i \in Nat \ {0}, i < m, s[i] = "LF" /\ s[i + 1] = "LF" PROVE FALSE
  <2>1. i \in B
    BY <1>1, <1>2, <1>5, <1>6
  <2>2. m <= i
    BY <1>4, <2>1
  <2> QED BY <1>5, <1>6, <2>2
<1> HIDE DEF m
<1> QED BY <1>5, <1>6 DEF m, B

\* What is read of the frame p and the blank line behind it
LEMMA ReadsFrame ==
  ASSUME NEW p \in Streams, p # <<>>, Last(p) = "LF", Apart(p, "LF", "LF")
  PROVE  /\ Append(p, "LF") \in Streams
         /\ ReadAll[Append(p, "LF")] = [frames |-> <<Front(p)>>, open |-> <<>>]
<1>1. "LF" \in Characters /\ Append(p, "LF") \in Streams
  BY AppendProperties DEF Characters, Streams
<1>2. ReadAll[p] = [frames |-> <<>>, open |-> p]
  BY ReadsOpen
<1>3. ReadAll[Append(p, "LF")] = Read(ReadAll[p], "LF")
  BY <1>1, ReadAllFacts
<1>4. ReadAll[Append(p, "LF")] = [frames |-> Append(<<>>, Front(p)), open |-> <<>>]
  BY <1>2, <1>3, ReadCases
<1>5. Append(<<>>, Front(p)) = <<Front(p)>>
  OBVIOUS
<1> QED BY <1>1, <1>4, <1>5

\* The frame up to the first blank line is read, and then the rest of s.
LEMMA FirstFrame ==
  ASSUME NEW s \in Streams, NEW m \in Nat \ {0}, m < Len(s),
         s[m] = "LF", s[m + 1] = "LF",
         \A i \in Nat \ {0} : i < m => ~ (s[i] = "LF" /\ s[i + 1] = "LF")
  PROVE  /\ SubSeq(s, m + 2, Len(s)) \in Streams
         /\ Len(SubSeq(s, m + 2, Len(s))) < Len(s)
         /\ SubSeq(s, 1, m - 1) \in Streams
         /\ ReadAll[s] = Ahead(<<SubSeq(s, 1, m - 1)>>,
                                ReadAll[SubSeq(s, m + 2, Len(s))])
<1> DEFINE k == Len(s) - m - 1
           f == SubSeq(s, 1, m - 1)
           p == SubSeq(s, 1, m)
           t == SubSeq(s, m + 2, Len(s))
<1>1. Len(s) \in Nat /\ k \in Nat /\ Len(s) = m + 1 + k /\ "LF" \in Characters
  BY LenProperties DEF Streams, Characters
<1>2. /\ p \in Streams /\ Len(p) = m /\ \A i \in 1 .. m : p[i] = s[i]
  BY <1>1, PartOf DEF Streams
<1>3. /\ f \in Streams /\ Len(f) = m - 1 /\ \A i \in 1 .. m - 1 : f[i] = s[i]
  <2>1. m - 1 \in Nat /\ m - 1 <= Len(s)
    BY <1>1
  <2> QED BY <2>1, PartOf DEF Streams
<1>4. /\ t \in Streams /\ Len(t) = k /\ \A i \in 1 .. k : t[i] = s[m + 1 + i]
  <2>1. m + 2 \in Nat \ {0} /\ Len(s) <= Len(s)
    BY <1>1
  <2>2. /\ t \in Streams
        /\ Len(t) = IF m + 2 <= Len(s) THEN Len(s) - (m + 2) + 1 ELSE 0
        /\ \A i \in 1 .. Len(s) - (m + 2) + 1 : t[i] = s[m + 2 + i - 1]
    BY <1>1, <2>1, PartOf DEF Streams
  <2> HIDE DEF t
  <2>3. Len(s) - (m + 2) + 1 = k /\ (m + 2 <= Len(s) <=> k # 0)
    BY <1>1
  <2> HIDE DEF k
  <2>4. ASSUME NEW i \in 1 .. k PROVE t[i] = s[m + 1 + i]
    <3>1. m + 2 + i - 1 = m + 1 + i
      BY <1>1
    <3> QED BY <2>2, <2>3, <3>1
  <2>5. Len(t) = k
    BY <1>1, <2>2, <2>3
  <2> QED BY <2>2, <2>4, <2>5
<1> HIDE DEF p, t, f, k
<1>5. p # <<>> /\ Last(p) = "LF"
  BY <1>2, EmptySeq DEF Last
<1>6. Front(p) = f
  <2>1. Front(p) \in Streams /\ Len(Front(p)) = m - 1
        /\ \A i \in 1 .. m - 1 : Front(p)[i] = p[i]
    BY <1>2, <1>5, FrontLast DEF Streams
  <2>2. \A i \in 1 .. m - 1 : Front(p)[i] = f[i]
    BY <1>2, <1>3, <2>1
  <2> QED BY <1>3, <2>1, <2>2, SeqEqual DEF Streams
<1>7. Apart(p, "LF", "LF")
  <2>1. DOMAIN p = 1 .. m
    BY <1>2, LenProperties DEF Streams
  <2> QED BY <1>2, <2>1 DEF Apart
<1>8. /\ Append(p, "LF") \in Streams
      /\ ReadAll[Append(p, "LF")] = [frames |-> <<f>>, open |-> <<>>]
  BY <1>2, <1>5, <1>6, <1>7, ReadsFrame
<1>9. Append(p, "LF") \o t = s
  <2>1. Divided(s, p, "LF", t)
    BY <1>1, <1>2, <1>4 DEF Divided
  <2> QED BY <1>1, <1>2, <1>4, <2>1, Joined DEF Streams
<1>10. PICK q \in Streams : /\ ReadAll[q].open = <<>> /\ ReadAll[q].frames = <<f>>
                            /\ q \o t = s
  <2> DEFINE r == Append(p, "LF")
  <2>1. r \in Streams /\ ReadAll[r] = [frames |-> <<f>>, open |-> <<>>] /\ r \o t = s
    BY <1>8, <1>9
  <2> HIDE DEF r
  <2>2. ReadAll[r].open = <<>> /\ ReadAll[r].frames = <<f>>
    BY <2>1
  <2> QED BY <2>1, <2>2
<1>11. ReadAll[q \o t] = Ahead(ReadAll[q].frames, ReadAll[t])
  BY <1>4, <1>10, ReadsOn
<1>12. Len(t) < Len(s)
  BY <1>1, <1>4
<1>13. ReadAll[s] = Ahead(<<f>>, ReadAll[t])
  BY <1>10, <1>11
<1> QED BY <1>3, <1>4, <1>12, <1>13 DEF t, f

LEMMA CutFacts ==
  ASSUME NEW s \in Streams
  PROVE  Cut[s] = [frames |-> ReadAll[s].frames, rest |-> ReadAll[s].open]
<1> DEFINE G == [u \in Streams |-> [frames |-> ReadAll[u].frames, rest |-> ReadAll[u].open]]
           at(u) == Min(Boundaries(u))
           behind(u) == SubSeq(u, at(u) + 2, Len(u))
           Step(f) == [u \in Streams |->
             IF Boundaries(u) = {} THEN [frames |-> <<>>, rest |-> u]
             ELSE [frames |-> <<SubSeq(u, 1, at(u) - 1)>> \o f[behind(u)].frames,
                   rest |-> f[behind(u)].rest]]
<1>1. ASSUME NEW u \in Streams, Boundaries(u) = {}
      PROVE  G[u] = [frames |-> <<>>, rest |-> u]
  <2>1. ReadAll[u] = [frames |-> <<>>, open |-> u]
    BY <1>1, NoBoundary, ReadsOpen
  <2> QED BY <2>1
<1>2. ASSUME NEW u \in Streams, Boundaries(u) # {}
      PROVE  /\ behind(u) \in Streams /\ Len(behind(u)) < Len(u)
             /\ G[u] = [frames |-> <<SubSeq(u, 1, at(u) - 1)>> \o G[behind(u)].frames,
                        rest |-> G[behind(u)].rest]
  <2>1. /\ behind(u) \in Streams /\ Len(behind(u)) < Len(u)
        /\ ReadAll[u] = Ahead(<<SubSeq(u, 1, at(u) - 1)>>, ReadAll[behind(u)])
    BY <1>2, FirstBoundary, FirstFrame
  <2> HIDE DEF at, behind
  <2>2. /\ ReadAll[u].frames = <<SubSeq(u, 1, at(u) - 1)>> \o ReadAll[behind(u)].frames
        /\ ReadAll[u].open = ReadAll[behind(u)].open
    BY <2>1 DEF Ahead
  <2>3. /\ G[u] = [frames |-> ReadAll[u].frames, rest |-> ReadAll[u].open]
        /\ G[behind(u)].frames = ReadAll[behind(u)].frames
        /\ G[behind(u)].rest = ReadAll[behind(u)].open
    BY <2>1
  <2> HIDE DEF G
  <2> QED BY <2>1, <2>2, <2>3
<1> HIDE DEF at, behind
<1>3. G = Step(G)
  <2>1. ASSUME NEW u \in Streams PROVE G[u] = Step(G)[u]
    <3> HIDE DEF G
    <3> QED BY <1>1, <1>2
  <2> QED BY <2>1
<1>4. Cut = Step(Cut)
  <2>1. Cut = CHOOSE f : f = Step(f)
    BY DEF Cut, Streams, at, behind
  <2> HIDE DEF Step, G
  <2> QED BY <1>3, <2>1
<1> HIDE DEF G
<1> DEFINE T == {n \in Nat : \A u \in Streams : Len(u) = n => Cut[u] = G[u]}
<1>5. ASSUME NEW n \in Nat, \A k \in Nat : k < n => k \in T PROVE n \in T
  <2> SUFFICES ASSUME NEW u \in Streams, Len(u) = n PROVE Cut[u] = G[u]
    OBVIOUS
  <2>1. Cut[u] = Step(Cut)[u] /\ G[u] = Step(G)[u]
    BY <1>3, <1>4
  <2>2. CASE Boundaries(u) = {}
    BY <2>1, <2>2
  <2>3. CASE Boundaries(u) # {}
    <3>1. behind(u) \in Streams /\ Len(behind(u)) < n
      BY <1>2, <2>3
    <3>2. Len(behind(u)) \in Nat
      BY <3>1, LenProperties DEF Streams
    <3>3. Cut[behind(u)] = G[behind(u)]
      BY <1>5, <3>1, <3>2
    <3> QED BY <2>1, <2>3, <3>3
  <2> QED BY <2>2, <2>3
<1>6. Nat \subseteq T
  <2> HIDE DEF T, Step
  <2> QED BY <1>5, StrongInduction
<1> QED BY <1>6, LenProperties DEF G, Streams

-----------------------------------------------------------------------------
(* The reader of a stream as it arrives, and what is read of the buffer    *)
(* instead of the stream behind which it stands.                           *)

\* What a character makes of a reader whose stream has not been normalised: a
\* LF takes the place of the CR before it.
Feed(r, c) ==
  IF c = "LF" /\ r.open # <<>> /\ Last(r.open) = "CR"
  THEN Read([frames |-> r.frames, open |-> Front(r.open)], c)
  ELSE Read(r, c)

\* A reader is left with the character it has read, or with none.
LEMMA ReadLast ==
  ASSUME NEW r \in Readers, NEW c \in Characters, c # "LF"
  PROVE  Read(r, c) = [frames |-> r.frames, open |-> Append(r.open, c)]
BY DEF Read

LEMMA ReadWholeFacts ==
  /\ \A s \in Streams : ReadWhole(s) \in Readers /\ Normalised[s] \in Streams
  /\ ReadWhole(<<>>) = Nothing
  /\ \A s \in Streams, c \in Characters :
       ReadWhole(Append(s, c)) = Feed(ReadWhole(s), c)
<1>1. ASSUME NEW s \in Streams
      PROVE  ReadWhole(s) \in Readers /\ Normalised[s] \in Streams
  BY NormalisedFacts, ReadAllFacts DEF ReadWhole
<1>2. ReadWhole(<<>>) = Nothing
  BY NormalisedFacts, ReadAllFacts DEF ReadWhole
<1>3. ASSUME NEW s \in Streams, NEW c \in Characters
      PROVE  ReadWhole(Append(s, c)) = Feed(ReadWhole(s), c)
  <2> DEFINE n == Normalised[s]
  <2>1. /\ n \in Streams
        /\ ReadWhole(Append(s, c)) = ReadAll[Replace(n, c)]
        /\ ReadWhole(s) = ReadAll[n]
    BY NormalisedFacts DEF ReadWhole
  <2> HIDE DEF n
  <2>2. CASE n = <<>>
    <3>1. ReadAll[n].open = <<>>
      BY <2>2, ReadAllFacts DEF Nothing
    <3>2. ReadAll[Replace(n, c)] = Read(ReadAll[n], c)
      BY <2>1, <2>2, ReadAllFacts DEF Replace
    <3> QED BY <2>1, <3>1, <3>2 DEF Feed
  <2>3. CASE n # <<>>
    <3> DEFINE m == Front(n)
               e == Last(n)
               r == ReadAll[m]
    <3>1. /\ m \in Streams /\ e \in Characters /\ n = Append(m, e)
      BY <2>1, <2>3, FrontLast DEF Streams
    <3> HIDE DEF m, e
    <3>2. r \in Readers /\ r.open \in Streams /\ ReadAll[n] = Read(r, e)
      BY <3>1, ReadAllFacts DEF Readers
    <3>3. CASE e = "CR"
      <4>1. ReadAll[n] = [frames |-> r.frames, open |-> Append(r.open, e)]
        BY <3>1, <3>2, <3>3, ReadLast
      <4>2. /\ Append(r.open, e) # <<>> /\ Last(Append(r.open, e)) = e
            /\ Front(Append(r.open, e)) = r.open
        <5>1. \A v \in Streams : /\ Append(v, e) # <<>> /\ Last(Append(v, e)) = e
                                 /\ Front(Append(v, e)) = v
          BY <3>1, OfAppend DEF Streams
        <5> QED BY <3>2, <5>1
      <4>3. CASE c = "LF"
        <5>1. Replace(n, c) = Append(m, c)
          <6>1. Last(n) = "CR" /\ Front(n) = m
            BY <3>3 DEF m, e
          <6> QED BY <2>3, <4>3, <6>1 DEF Replace
        <5>2. ReadAll[Append(m, c)] = Read(r, c)
          BY <3>1, ReadAllFacts
        <5>3. [frames |-> r.frames, open |-> r.open] = r
          BY <3>2 DEF Readers
        <5>4. Feed(ReadAll[n], c) = Read([frames |-> r.frames, open |-> r.open], c)
          BY <3>3, <4>1, <4>2, <4>3 DEF Feed
        <5> QED BY <2>1, <5>1, <5>2, <5>3, <5>4
      <4>4. CASE c # "LF"
        <5>1. Replace(n, c) = Append(n, c)
          BY <4>4 DEF Replace
        <5> QED BY <2>1, <4>4, <5>1, ReadAllFacts DEF Feed
      <4> QED BY <4>3, <4>4
    <3>4. CASE e # "CR"
      <4>1. Replace(n, c) = Append(n, c)
        BY <3>4 DEF Replace, e
      <4>2. ReadAll[Append(n, c)] = Read(ReadAll[n], c)
        BY <2>1, ReadAllFacts
      <4>3. ReadAll[n].open = <<>> \/ Last(ReadAll[n].open) = e
        <5>1. ReadAll[n].open = <<>> \/ ReadAll[n].open = Append(r.open, e)
          BY <3>2 DEF Read
        <5>2. Last(Append(r.open, e)) = e
          BY <3>1, <3>2, OfAppend DEF Streams
        <5> QED BY <5>1, <5>2
      <4> QED BY <2>1, <3>4, <4>1, <4>2, <4>3 DEF Feed
    <3> QED BY <3>3, <3>4
  <2> QED BY <2>2, <2>3
<1> QED BY <1>1, <1>2, <1>3

\* A stream with no CR LF is left as it is.
LEMMA NothingToNormalise ==
  ASSUME NEW s \in Streams, Apart(s, "CR", "LF")
  PROVE  Normalised[s] = s
<1> DEFINE T == {u \in Streams : Apart(u, "CR", "LF") => Normalised[u] = u}
<1>1. <<>> \in T
  BY NormalisedFacts, EmptySeq DEF Streams
<1>2. ASSUME NEW u \in Streams, NEW c \in Characters, u \in T
      PROVE  Append(u, c) \in T
  <2> SUFFICES ASSUME Apart(Append(u, c), "CR", "LF")
               PROVE  Normalised[Append(u, c)] = Append(u, c)
    BY OfAppend DEF Streams
  <2>1. Normalised[u] = u /\ ~ (u # <<>> /\ Last(u) = "CR" /\ c = "LF")
    BY <1>2, ApartAppend
  <2>2. Normalised[Append(u, c)] = Replace(u, c)
    BY <2>1, NormalisedFacts
  <2> QED BY <2>1, <2>2 DEF Replace
<1>3. Streams \subseteq T
  <2> HIDE DEF T
  <2> QED BY <1>1, <1>2, SeqInduction DEF Streams
<1> QED BY <1>3

LEMMA FeedAhead ==
  ASSUME NEW fs \in Seq(Streams), NEW r \in Readers, NEW c \in Characters
  PROVE  Feed(Ahead(fs, r), c) = Ahead(fs, Feed(r, c))
<1>1. CASE c = "LF" /\ r.open # <<>> /\ Last(r.open) = "CR"
  <2> DEFINE q == [frames |-> r.frames, open |-> Front(r.open)]
  <2>1. q \in Readers
    BY <1>1, FrontLast DEF Readers, Streams
  <2>2. /\ Feed(r, c) = Read(q, c)
        /\ Feed(Ahead(fs, r), c) = Read(Ahead(fs, q), c)
    BY <1>1 DEF Feed, Ahead
  <2> HIDE DEF q
  <2> QED BY <2>1, <2>2, ReadAhead
<1>2. CASE ~ (c = "LF" /\ r.open # <<>> /\ Last(r.open) = "CR")
  BY <1>2, ReadAhead DEF Feed, Ahead
<1> QED BY <1>1, <1>2

\* What is open can be read again behind the frames, as often as one likes.
LEMMA ReadsAgain ==
  ASSUME NEW s \in Streams, NEW t \in Streams,
         Apart(ReadWhole(s).open, "CR", "LF"), Apart(ReadWhole(s).open, "LF", "LF")
  PROVE  ReadWhole(s \o t) = Ahead(ReadWhole(s).frames, ReadWhole(ReadWhole(s).open \o t))
<1> DEFINE fs == ReadWhole(s).frames
           b == ReadWhole(s).open
           T == {u \in Streams : ReadWhole(s \o u) = Ahead(fs, ReadWhole(b \o u))}
<1>0. /\ fs \in Seq(Streams) /\ b \in Streams
      /\ ReadWhole(s) = [frames |-> fs, open |-> b]
      /\ Apart(b, "CR", "LF") /\ Apart(b, "LF", "LF")
  BY ReadWholeFacts DEF Readers
<1> HIDE DEF fs, b
<1>1. <<>> \in T
  <2>1. <<>> \in Streams /\ s \o <<>> = s /\ b \o <<>> = b /\ fs \o <<>> = fs
    BY <1>0, EmptySeq, ConcatEmptySeq DEF Streams
  <2>2. ReadWhole(b) = [frames |-> <<>>, open |-> b]
    BY <1>0, NothingToNormalise, ReadsOpen DEF ReadWhole
  <2> QED BY <1>0, <2>1, <2>2 DEF Ahead
<1>2. ASSUME NEW u \in Streams, NEW c \in Characters, u \in T
      PROVE  Append(u, c) \in T
  <2>1. /\ s \o Append(u, c) = Append(s \o u, c)
        /\ b \o Append(u, c) = Append(b \o u, c)
        /\ s \o u \in Streams /\ b \o u \in Streams /\ Append(u, c) \in Streams
    <3>1. \A v \in Streams : v \o Append(u, c) = Append(v \o u, c)
      BY ConcatAppend DEF Streams
    <3>2. \A v \in Streams : v \o u \in Streams
      BY ConcatProperties DEF Streams
    <3>3. Append(u, c) \in Streams
      BY AppendProperties DEF Streams
    <3> QED BY <1>0, <3>1, <3>2, <3>3
  <2>2. /\ ReadWhole(Append(s \o u, c)) = Feed(ReadWhole(s \o u), c)
        /\ ReadWhole(Append(b \o u, c)) = Feed(ReadWhole(b \o u), c)
        /\ ReadWhole(b \o u) \in Readers
    BY <2>1, ReadWholeFacts
  <2>3. ReadWhole(s \o u) = Ahead(fs, ReadWhole(b \o u))
    BY <1>2
  <2>4. Feed(Ahead(fs, ReadWhole(b \o u)), c) = Ahead(fs, Feed(ReadWhole(b \o u), c))
    BY <1>0, <2>2, FeedAhead
  <2>5. ReadWhole(s \o Append(u, c)) = Ahead(fs, ReadWhole(b \o Append(u, c)))
    BY <2>1, <2>2, <2>3, <2>4
  <2> QED BY <2>1, <2>5
<1>3. Streams \subseteq T
  <2> HIDE DEF T
  <2> QED BY <1>1, <1>2, SeqInduction DEF Streams
<1> QED BY <1>3 DEF fs, b

-----------------------------------------------------------------------------
(* A stream that is not ambiguous leaves nothing open that the next call   *)
(* could normalise or cut.                                                 *)

\* s ends in CR CR.
EndsTwice(s) == s # <<>> /\ Last(s) = "CR" /\ Front(s) # <<>> /\ Last(Front(s)) = "CR"

LEMMA AmbiguousAppend ==
  ASSUME NEW s \in Streams, NEW c \in Characters
  PROVE  Ambiguous(Append(s, c)) <=> Ambiguous(s) \/ (EndsTwice(s) /\ c = "LF")
<1> DEFINE u == Append(s, c)
           n == Len(s)
<1>1. /\ n \in Nat /\ DOMAIN s = 1 .. n /\ DOMAIN u = 1 .. n + 1
      /\ \A i \in 1 .. n : u[i] = s[i]
      /\ u[n + 1] = c
  BY AppendProperties, LenProperties DEF Streams
<1>2. EndsTwice(s) <=> n >= 2 /\ s[n] = "CR" /\ s[n - 1] = "CR"
  <2>1. CASE s = <<>>
    BY <2>1, EmptySeq DEF EndsTwice
  <2>2. CASE s # <<>>
    <3>1. /\ Front(s) \in Streams /\ Len(Front(s)) = n - 1 /\ n # 0
          /\ \A i \in 1 .. n - 1 : Front(s)[i] = s[i]
      BY <2>2, FrontLast DEF Streams
    <3>2. Front(s) # <<>> <=> n - 1 # 0
      BY <3>1, EmptySeq DEF Streams
    <3>3. Last(s) = s[n] /\ Last(Front(s)) = Front(s)[n - 1]
      BY <3>1 DEF Last
    <3> HIDE DEF n
    <3> QED BY <1>1, <2>2, <3>1, <3>2, <3>3 DEF EndsTwice
  <2> QED BY <2>1, <2>2
<1> HIDE DEF u, n
<1>3. ASSUME Ambiguous(s) PROVE Ambiguous(u)
  BY <1>1, <1>3 DEF Ambiguous
<1>4. ASSUME EndsTwice(s), c = "LF" PROVE Ambiguous(u)
  <2>1. n - 1 \in DOMAIN u /\ n - 1 + 2 \in DOMAIN u /\ n - 1 + 1 = n /\ n - 1 + 2 = n + 1
    BY <1>1, <1>2, <1>4
  <2>2. u[n - 1] = "CR" /\ u[n] = "CR" /\ u[n + 1] = "LF"
    BY <1>1, <1>2, <1>4
  <2> QED BY <2>1, <2>2 DEF Ambiguous
<1>5. ASSUME Ambiguous(u) PROVE Ambiguous(s) \/ (EndsTwice(s) /\ c = "LF")
  <2>1. PICK i \in DOMAIN u : /\ i + 2 \in DOMAIN u
                              /\ u[i] = "CR" /\ u[i + 1] = "CR" /\ u[i + 2] = "LF"
    BY <1>5 DEF Ambiguous
  <2>2. CASE i + 2 = n + 1
    <3>1. i = n - 1 /\ i + 1 = n /\ n >= 2 /\ i \in 1 .. n /\ i + 1 \in 1 .. n
      BY <1>1, <2>1, <2>2
    <3> QED BY <1>1, <1>2, <2>1, <2>2, <3>1
  <2>3. CASE i + 2 # n + 1
    <3>1. i \in 1 .. n /\ i + 1 \in 1 .. n /\ i + 2 \in 1 .. n
      BY <1>1, <2>1, <2>3
    <3> QED BY <1>1, <2>1, <3>1 DEF Ambiguous
  <2> QED BY <2>2, <2>3
<1> QED BY <1>3, <1>4, <1>5 DEF u

\* A stream that goes on from an ambiguous one is ambiguous.
LEMMA AmbiguousStays ==
  ASSUME NEW s \in Streams, NEW t \in Streams, Ambiguous(s)
  PROVE  Ambiguous(s \o t)
<1> DEFINE T == {u \in Streams : Ambiguous(s \o u)}
<1>1. <<>> \in T
  BY EmptySeq, ConcatEmptySeq DEF Streams
<1>2. ASSUME NEW u \in Streams, NEW c \in Characters, u \in T
      PROVE  Append(u, c) \in T
  <2>1. /\ s \o Append(u, c) = Append(s \o u, c)
        /\ s \o u \in Streams /\ Append(u, c) \in Streams
    BY ConcatAppend, ConcatProperties, AppendProperties DEF Streams
  <2> QED BY <1>2, <2>1, AmbiguousAppend
<1>3. Streams \subseteq T
  <2> HIDE DEF T
  <2> QED BY <1>1, <1>2, SeqInduction DEF Streams
<1> QED BY <1>3

\* What the reader of s has open, if s is not ambiguous
Sound(o, s) ==
  /\ Apart(o, "CR", "LF") /\ Apart(o, "LF", "LF")
  /\ o # <<>> => s # <<>> /\ Last(o) = Last(s)
  /\ EndsTwice(o) => EndsTwice(s)

LEMMA EmptySound ==
  ASSUME NEW s
  PROVE  Sound(<<>>, s)
BY EmptySeq DEF Sound, Apart, EndsTwice

LEMMA FeedSound ==
  ASSUME NEW s \in Streams, NEW c \in Characters, NEW r \in Readers,
         Sound(r.open, s), ~ Ambiguous(Append(s, c))
  PROVE  Sound(Feed(r, c).open, Append(s, c))
<1> DEFINE o == r.open
           v == Append(s, c)
<1>1. /\ o \in Streams
      /\ v \in Streams /\ v # <<>> /\ Last(v) = c /\ Front(v) = s
  BY OfAppend DEF Readers, Streams
<1>2. ~ (EndsTwice(s) /\ c = "LF")
  BY AmbiguousAppend
<1> HIDE DEF v
<1>3. CASE c = "LF" /\ o # <<>> /\ Last(o) = "CR"
  <2> DEFINE f == Front(o)
  <2>1. f \in Streams /\ Apart(f, "CR", "LF") /\ Apart(f, "LF", "LF")
    BY <1>1, <1>3, FrontLast, ApartFront DEF Sound, Streams
  <2>2. f # <<>> => Last(f) # "CR"
    BY <1>2, <1>3 DEF Sound, EndsTwice
  <2> HIDE DEF f
  <2>3. Feed(r, c).open = IF f # <<>> /\ Last(f) = "LF" THEN <<>> ELSE Append(f, c)
    BY <1>3 DEF Feed, Read, f
  <2>4. CASE f # <<>> /\ Last(f) = "LF"
    BY <2>3, <2>4, EmptySound DEF v
  <2>5. CASE ~ (f # <<>> /\ Last(f) = "LF")
    <3>1. Feed(r, c).open = Append(f, c)
      BY <2>3, <2>5
    <3>2. Apart(Append(f, c), "CR", "LF") /\ Apart(Append(f, c), "LF", "LF")
      BY <2>1, <2>2, <2>5, ApartAppend
    <3>3. Append(f, c) # <<>> /\ Last(Append(f, c)) = c
      BY <2>1, OfAppend DEF Streams
    <3>4. ~ EndsTwice(Append(f, c))
      BY <1>3, <3>3 DEF EndsTwice
    <3> QED BY <1>1, <3>1, <3>2, <3>3, <3>4 DEF Sound, v
  <2> QED BY <2>4, <2>5
<1>4. CASE ~ (c = "LF" /\ o # <<>> /\ Last(o) = "CR")
  <2>1. Feed(r, c).open = IF c = "LF" /\ o # <<>> /\ Last(o) = "LF" THEN <<>>
                          ELSE Append(o, c)
    BY <1>4 DEF Feed, Read
  <2>2. CASE c = "LF" /\ o # <<>> /\ Last(o) = "LF"
    BY <2>1, <2>2, EmptySound DEF v
  <2>3. CASE ~ (c = "LF" /\ o # <<>> /\ Last(o) = "LF")
    <3>1. Feed(r, c).open = Append(o, c)
      BY <2>1, <2>3
    <3>2. Apart(Append(o, c), "CR", "LF") /\ Apart(Append(o, c), "LF", "LF")
      BY <1>1, <1>4, <2>3, ApartAppend DEF Sound
    <3>3. /\ Append(o, c) # <<>> /\ Last(Append(o, c)) = c
          /\ Front(Append(o, c)) = o
      BY <1>1, OfAppend DEF Streams
    <3>4. EndsTwice(Append(o, c)) => EndsTwice(v)
      BY <1>1, <3>3 DEF EndsTwice, Sound
    <3> QED BY <1>1, <3>1, <3>2, <3>3, <3>4 DEF Sound, v
  <2> QED BY <2>2, <2>3
<1> QED BY <1>3, <1>4

LEMMA OpenIsSound ==
  ASSUME NEW s \in Streams, ~ Ambiguous(s)
  PROVE  Sound(ReadWhole(s).open, s)
<1> DEFINE T == {u \in Streams : ~ Ambiguous(u) => Sound(ReadWhole(u).open, u)}
<1>1. <<>> \in T
  BY ReadWholeFacts, EmptySeq, EmptySound DEF Nothing, Streams
<1>2. ASSUME NEW u \in Streams, NEW c \in Characters, u \in T
      PROVE  Append(u, c) \in T
  <2> SUFFICES ASSUME ~ Ambiguous(Append(u, c))
               PROVE  Sound(ReadWhole(Append(u, c)).open, Append(u, c))
    BY AppendProperties DEF Streams
  <2>1. ~ Ambiguous(u)
    BY AmbiguousAppend
  <2>2. Sound(ReadWhole(u).open, u) /\ ReadWhole(u) \in Readers
    BY <1>2, <2>1, ReadWholeFacts
  <2>3. ReadWhole(Append(u, c)) = Feed(ReadWhole(u), c)
    BY ReadWholeFacts
  <2> QED BY <2>2, <2>3, FeedSound
<1>3. Streams \subseteq T
  <2> HIDE DEF T
  <2> QED BY <1>1, <1>2, SeqInduction DEF Streams
<1> QED BY <1>3

-----------------------------------------------------------------------------
(* #accept of the frames of a call.                                        *)

LEMMA NoneTooLarge ==
  ASSUME NEW fs \in Seq(Streams), NEW gs \in Seq(Streams),
         \A i \in DOMAIN fs : ~ TooLarge(fs[i]), \A i \in DOMAIN gs : ~ TooLarge(gs[i])
  PROVE  \A i \in DOMAIN (fs \o gs) : ~ TooLarge((fs \o gs)[i])
<1> SUFFICES ASSUME NEW i \in DOMAIN (fs \o gs) PROVE ~ TooLarge((fs \o gs)[i])
  OBVIOUS
<1>1. /\ Len(fs) \in Nat /\ DOMAIN fs = 1 .. Len(fs)
      /\ Len(gs) \in Nat /\ DOMAIN gs = 1 .. Len(gs)
      /\ i \in 1 .. Len(fs) + Len(gs)
      /\ (fs \o gs)[i] = IF i <= Len(fs) THEN fs[i] ELSE gs[i - Len(fs)]
  BY ConcatProperties, LenProperties
<1>2. CASE i <= Len(fs)
  BY <1>1, <1>2
<1>3. CASE i > Len(fs)
  <2>1. i - Len(fs) \in DOMAIN gs
    BY <1>1, <1>3
  <2> QED BY <1>1, <1>3, <2>1
<1> QED BY <1>1, <1>2, <1>3

\* The frames in front of the first that is too large are taken.
LEMMA AcceptFramesFacts ==
  ASSUME NEW fs \in Seq(Streams), NEW rest, AcceptFrames(fs, rest),
         frames \in Seq(Streams), \A i \in DOMAIN frames : ~ TooLarge(frames[i])
  PROVE  /\ frames' \in Seq(Streams) /\ \A i \in DOMAIN frames' : ~ TooLarge(frames'[i])
         /\ (\E i \in DOMAIN fs : TooLarge(fs[i])) => state' = "refused"
         /\ (\A i \in DOMAIN fs : ~ TooLarge(fs[i]))
              => frames' = frames \o fs /\ state' = rest
<1> DEFINE large == {i \in DOMAIN fs : TooLarge(fs[i])}
           gs == SubSeq(fs, 1, Min(large) - 1)
<1>0. Len(fs) \in Nat /\ DOMAIN fs = 1 .. Len(fs)
  BY LenProperties
<1>1. CASE large # {}
  <2>1. frames' = frames \o gs /\ state' = "refused"
    BY <1>1 DEF AcceptFrames
  <2>2. /\ Min(large) \in large /\ \A i \in large : Min(large) <= i
        /\ Min(large) \in 1 .. Len(fs)
    <3>1. large \in SUBSET Nat
      BY <1>0
    <3>2. Min(large) \in large /\ \A i \in large : Min(large) <= i
      <4> HIDE DEF large
      <4> QED BY <1>1, <3>1, MinFacts
    <3> QED BY <1>0, <3>2
  <2> DEFINE n == Min(large) - 1
  <2>3. n \in Nat /\ n <= Len(fs) /\ \A i \in 1 .. n : ~ TooLarge(fs[i])
    <3> HIDE DEF large
    <3>1. n \in Nat /\ n <= Len(fs) /\ \A i \in 1 .. n : i \in DOMAIN fs /\ i \notin large
      BY <1>0, <2>2
    <3> QED BY <3>1 DEF large
  <2>4. gs \in Seq(Streams) /\ Len(gs) = n /\ \A i \in 1 .. n : gs[i] = fs[i]
    <3> HIDE DEF n
    <3>1. /\ SubSeq(fs, 1, n) \in Seq(Streams) /\ Len(SubSeq(fs, 1, n)) = n
          /\ \A i \in 1 .. n : SubSeq(fs, 1, n)[i] = fs[i]
      BY <2>3, PartOf
    <3> QED BY <3>1 DEF n
  <2> HIDE DEF gs, n, large
  <2>5. \A i \in DOMAIN gs : ~ TooLarge(gs[i])
    BY <2>3, <2>4, LenProperties
  <2>6. frames \o gs \in Seq(Streams)
        /\ \A i \in DOMAIN (frames \o gs) : ~ TooLarge((frames \o gs)[i])
    BY <2>4, <2>5, NoneTooLarge, ConcatProperties
  <2> QED BY <1>1, <2>1, <2>6 DEF large
<1>2. CASE large = {}
  <2>1. frames' = frames \o fs /\ state' = rest
    BY <1>2 DEF AcceptFrames
  <2>2. \A i \in DOMAIN fs : ~ TooLarge(fs[i])
    BY <1>2
  <2>3. frames \o fs \in Seq(Streams)
        /\ \A i \in DOMAIN (frames \o fs) : ~ TooLarge((frames \o fs)[i])
    BY <2>2, NoneTooLarge, ConcatProperties
  <2> QED BY <2>1, <2>2, <2>3
<1> QED BY <1>1, <1>2

LEMMA CutIsReadWhole ==
  ASSUME NEW s \in Streams
  PROVE  /\ Cut[Normalised[s]] = [frames |-> ReadWhole(s).frames, rest |-> ReadWhole(s).open]
         /\ ReadWhole(s).frames \in Seq(Streams) /\ ReadWhole(s).open \in Streams
<1>1. Normalised[s] \in Streams /\ ReadWhole(s) \in Readers
  BY ReadWholeFacts
<1> QED BY <1>1, CutFacts DEF ReadWhole, Readers

-----------------------------------------------------------------------------
(* The invariant of push and finish.                                       *)

\* The gate holds what the reader of the whole stream does.
FramingInv == FramingTypeOK /\ FramesOfTheStream /\ RefusedForItsSize

LEMMA FramingTypes ==
  FramingTypeOK <=>
    /\ arrived \in Streams /\ buffer \in Streams /\ frames \in Seq(Streams)
    /\ state \in {"streaming", "refused", "finished"}
    /\ \A i \in DOMAIN frames : ~ TooLarge(frames[i])
    /\ state # "refused" => ~ TooLarge(buffer)
<1>1. ASSUME NEW s \in Streams PROVE ~ TooLarge(s) <=> Len(s) <= Maximum
  BY FramingAssumption, LenProperties DEF TooLarge, Streams
<1>2. ASSUME frames \in Seq(Streams), NEW i \in DOMAIN frames
      PROVE  frames[i] \in Streams
  BY <1>2, ElementOfSeq, LenProperties
<1> QED BY <1>1, <1>2 DEF FramingTypeOK, Streams

LEMMA FramingInitial ==
  FramingInit => FramingInv
<1> SUFFICES ASSUME FramingInit PROVE FramingInv
  OBVIOUS
<1>1. /\ <<>> \in Streams /\ <<>> \in Seq(Streams) /\ Len(<<>>) = 0
      /\ DOMAIN <<>> = {}
  BY EmptySeq DEF Streams
<1>2. FramingTypeOK
  BY <1>1, FramingAssumption, FramingTypes DEF FramingInit, TooLarge
<1>3. ReadWhole(<<>>) = Nothing
  BY ReadWholeFacts
<1> QED BY <1>2, <1>3 DEF FramingInv, FramingInit, FramesOfTheStream, RefusedForItsSize, Nothing

LEMMA ChunksAreStreams ==
  ASSUME NEW n \in Int, NEW chunk \in Chunks(n)
  PROVE  chunk \in Streams
<1>1. PICK k \in 1 .. n : chunk \in [1 .. k -> Characters]
  BY DEF Chunks
<1> QED BY <1>1 DEF Streams

LEMMA FramingTypesAfter ==
  ASSUME arrived' \in Streams, buffer' \in Streams, frames' \in Seq(Streams),
         state' \in {"streaming", "refused", "finished"},
         \A i \in DOMAIN frames' : ~ TooLarge(frames'[i]),
         state' # "refused" => ~ TooLarge(buffer')
  PROVE  FramingTypeOK'
<1>1. ASSUME NEW s \in Streams PROVE ~ TooLarge(s) => Len(s) <= Maximum
  BY FramingAssumption, LenProperties DEF TooLarge, Streams
<1>2. ASSUME NEW i \in DOMAIN frames' PROVE frames'[i] \in Streams
  BY ElementOfSeq, LenProperties
<1> QED BY <1>1, <1>2 DEF FramingTypeOK, Streams

LEMMA SecondPart ==
  ASSUME NEW fs \in Seq(Streams), NEW gs \in Seq(Streams), NEW i \in DOMAIN gs
  PROVE  /\ Len(fs) + i \in DOMAIN (fs \o gs)
         /\ (fs \o gs)[Len(fs) + i] = gs[i]
<1>1. /\ Len(fs) \in Nat /\ Len(gs) \in Nat /\ i \in 1 .. Len(gs)
      /\ DOMAIN (fs \o gs) = 1 .. Len(fs) + Len(gs)
  BY ConcatProperties, LenProperties
<1>2. /\ Len(fs) + i \in 1 .. Len(fs) + Len(gs)
      /\ ~ (Len(fs) + i <= Len(fs)) /\ Len(fs) + i - Len(fs) = i
  BY <1>1
<1> QED BY <1>1, <1>2, ConcatProperties

\* What the call reads of the buffer and the chunk continues what the reader has
\* of the stream before.
LEMMA PushKeepsFraming ==
  ASSUME FramingInv, NEW chunk \in Streams, Push(chunk)
  PROVE  FramingInv'
<1> DEFINE s == arrived \o chunk
           w == ReadWhole(buffer \o chunk)
           fs == w.frames
           open == w.open
           rest == IF TooLarge(open) THEN "refused" ELSE "streaming"
<1>1. /\ arrived \in Streams /\ buffer \in Streams /\ frames \in Seq(Streams)
      /\ \A i \in DOMAIN frames : ~ TooLarge(frames[i])
      /\ state = "streaming"
  BY FramingTypes DEF FramingInv, Push
<1>2. s \in Streams /\ buffer \o chunk \in Streams
  BY <1>1, ConcatProperties DEF Streams
<1>3. /\ Cut[Normalised[buffer \o chunk]] = [frames |-> fs, rest |-> open]
      /\ fs \in Seq(Streams) /\ open \in Streams
  BY <1>2, CutIsReadWhole
<1>4. /\ arrived' = s /\ buffer' = open
      /\ AcceptFrames(fs, rest)
  <2> HIDE DEF w
  <2> QED BY <1>3 DEF Push
<1> HIDE DEF s, fs, open, w
<1>5. /\ frames' \in Seq(Streams) /\ \A i \in DOMAIN frames' : ~ TooLarge(frames'[i])
      /\ (\E i \in DOMAIN fs : TooLarge(fs[i])) => state' = "refused"
      /\ (\A i \in DOMAIN fs : ~ TooLarge(fs[i]))
           => frames' = frames \o fs /\ state' = rest
  BY <1>1, <1>3, <1>4, AcceptFramesFacts
<1>6. FramingTypeOK'
  <2>1. /\ state' \in {"streaming", "refused", "finished"}
        /\ state' # "refused" => ~ TooLarge(buffer')
    BY <1>4, <1>5
  <2> QED BY <1>2, <1>3, <1>4, <1>5, <2>1, FramingTypesAfter
<1>7. ASSUME ~ Ambiguous(s)
      PROVE  /\ ReadWhole(s).frames = frames \o fs
             /\ ReadWhole(s).open = open
  <2>1. ~ Ambiguous(arrived)
    BY <1>1, <1>7, AmbiguousStays DEF s
  <2>2. /\ frames = ReadWhole(arrived).frames /\ buffer = ReadWhole(arrived).open
    BY <1>1, <2>1 DEF FramingInv, FramesOfTheStream
  <2>3. Sound(ReadWhole(arrived).open, arrived)
    BY <1>1, <2>1, OpenIsSound
  <2>4. ReadWhole(arrived \o chunk) = Ahead(frames, ReadWhole(buffer \o chunk))
    BY <1>1, <2>2, <2>3, ReadsAgain DEF Sound
  <2> QED BY <2>4 DEF s, w, fs, open, Ahead
<1>8. ASSUME ~ Ambiguous(s), state' # "refused"
      PROVE  /\ state' = "streaming"
             /\ frames' = ReadWhole(s).frames /\ buffer' = ReadWhole(s).open
  <2>1. frames' = frames \o fs /\ state' = rest
    BY <1>5, <1>8
  <2> QED BY <1>4, <1>7, <1>8, <2>1
<1>9. ASSUME ~ Ambiguous(s), state' = "refused"
      PROVE  \/ \E i \in DOMAIN ReadWhole(s).frames : TooLarge(ReadWhole(s).frames[i])
             \/ TooLarge(ReadWhole(s).open)
  <2>1. CASE \E i \in DOMAIN fs : TooLarge(fs[i])
    <3>1. PICK i \in DOMAIN fs : TooLarge(fs[i])
      BY <2>1
    <3>2. /\ Len(frames) + i \in DOMAIN (frames \o fs)
          /\ (frames \o fs)[Len(frames) + i] = fs[i]
      BY <1>1, <1>3, SecondPart
    <3> QED BY <1>7, <1>9, <3>1, <3>2
  <2>2. CASE \A i \in DOMAIN fs : ~ TooLarge(fs[i])
    <3>1. state' = rest
      BY <1>5, <2>2
    <3> QED BY <1>7, <1>9, <3>1
  <2> QED BY <2>1, <2>2
<1>10. FramesOfTheStream'
  BY <1>4, <1>8 DEF FramesOfTheStream
<1>11. RefusedForItsSize'
  BY <1>4, <1>9 DEF RefusedForItsSize, TooLarge
<1> QED BY <1>6, <1>10, <1>11 DEF FramingInv

\* There is no frame left but the last, unless CR CR LF was normalised again.
LEMMA FinishKeepsFraming ==
  ASSUME FramingInv, FinishFraming
  PROVE  FramingInv'
<1> DEFINE w == ReadWhole(buffer)
           fs == w.frames
           open == w.open
           last == IF OnlyBlanks(open) THEN <<>> ELSE <<open>>
<1>1. /\ arrived \in Streams /\ buffer \in Streams /\ frames \in Seq(Streams)
      /\ \A i \in DOMAIN frames : ~ TooLarge(frames[i])
      /\ state = "streaming" /\ ~ TooLarge(buffer)
  BY FramingTypes DEF FramingInv, FinishFraming
<1>2. /\ Cut[Normalised[buffer]] = [frames |-> fs, rest |-> open]
      /\ fs \in Seq(Streams) /\ open \in Streams
  BY <1>1, CutIsReadWhole
<1>3. /\ arrived' = arrived
      /\ TooLarge(open) => AcceptFrames(fs, "refused") /\ buffer' = open
      /\ ~ TooLarge(open) => AcceptFrames(fs \o last, "finished") /\ buffer' = <<>>
  <2> HIDE DEF w
  <2> QED BY <1>2 DEF FinishFraming
<1>4. last \in Seq(Streams) /\ fs \o last \in Seq(Streams)
  <2>1. last \in Seq(Streams)
    <3> HIDE DEF open
    <3>1. <<open>> \in Seq(Streams) /\ <<>> \in Seq(Streams)
      BY <1>2
    <3> QED BY <3>1
  <2> HIDE DEF last, fs
  <2> QED BY <1>2, <2>1, ConcatProperties
<1> HIDE DEF w, fs, open, last
<1>5. FramingTypeOK'
  <2>1. CASE TooLarge(open)
    <3>1. /\ frames' \in Seq(Streams) /\ \A i \in DOMAIN frames' : ~ TooLarge(frames'[i])
          /\ state' = "refused"
      BY <1>1, <1>2, <1>3, <2>1, AcceptFramesFacts
    <3> QED BY <1>1, <1>2, <1>3, <2>1, <3>1, FramingTypesAfter
  <2>2. CASE ~ TooLarge(open)
    <3>1. /\ frames' \in Seq(Streams) /\ \A i \in DOMAIN frames' : ~ TooLarge(frames'[i])
          /\ state' \in {"refused", "finished"}
      BY <1>1, <1>3, <1>4, <2>2, AcceptFramesFacts
    <3>2. buffer' \in Streams /\ ~ TooLarge(buffer')
      BY <1>3, <2>2, FramingAssumption, EmptySeq DEF TooLarge, Streams
    <3> QED BY <1>1, <1>3, <3>1, <3>2, FramingTypesAfter
  <2> QED BY <2>1, <2>2
<1>6. ASSUME ~ Ambiguous(arrived)
      PROVE  /\ state' = "finished"
             /\ frames' = ReadWhole(arrived).frames
                            \o (IF OnlyBlanks(ReadWhole(arrived).open) THEN <<>>
                                ELSE <<ReadWhole(arrived).open>>)
  <2>1. /\ frames = ReadWhole(arrived).frames /\ buffer = ReadWhole(arrived).open
    BY <1>1, <1>6 DEF FramingInv, FramesOfTheStream
  <2>2. Apart(buffer, "CR", "LF") /\ Apart(buffer, "LF", "LF")
    BY <1>1, <1>6, <2>1, OpenIsSound DEF Sound
  <2>3. ReadWhole(buffer) = [frames |-> <<>>, open |-> buffer]
    BY <1>1, <2>2, NothingToNormalise, ReadsOpen DEF ReadWhole
  <2>4. fs = <<>> /\ open = buffer
    BY <2>3 DEF w, fs, open
  <2>5. AcceptFrames(last, "finished")
    <3>1. <<>> \o last = last
      BY <1>4, ConcatEmptySeq
    <3> QED BY <1>1, <1>3, <2>4, <3>1
  <2>6. \A i \in DOMAIN last : ~ TooLarge(last[i])
    BY <1>1, <2>4 DEF last
  <2>7. frames' = frames \o last /\ state' = "finished"
    BY <1>1, <1>4, <2>5, <2>6, AcceptFramesFacts
  <2> QED BY <2>1, <2>4, <2>7 DEF last
<1>7. FramesOfTheStream' /\ RefusedForItsSize'
  BY <1>3, <1>6 DEF FramesOfTheStream, RefusedForItsSize
<1> QED BY <1>5, <1>7 DEF FramingInv

LEMMA FramingStep ==
  FramingInv /\ [FramingNext]_framingVars => FramingInv'
<1> SUFFICES ASSUME FramingInv, [FramingNext]_framingVars PROVE FramingInv'
  OBVIOUS
<1>1. ASSUME NEW chunk \in Chunks(MaxStream - Len(arrived)), Push(chunk)
      PROVE  FramingInv'
  <2>1. MaxStream - Len(arrived) \in Int
    BY FramingTypes, FramingAssumption, LenProperties DEF FramingInv, Streams
  <2> QED BY <1>1, <2>1, ChunksAreStreams, PushKeepsFraming
<1>2. CASE FinishFraming
  BY <1>2, FinishKeepsFraming
<1>3. CASE UNCHANGED framingVars
  BY <1>3 DEF FramingInv, framingVars, FramingTypeOK, FramesOfTheStream, RefusedForItsSize
<1> QED BY <1>1, <1>2, <1>3 DEF FramingNext

\* push and finish give #accept the frames of the stream, wherever its chunks are
\* cut and however long it is, and refuse it only for the size of one of them or
\* of what stands behind them.
THEOREM FramingExact ==
  FramingSpec => []FramingIsExact
<1>1. FramingInv => FramingIsExact
  BY DEF FramingInv, FramingIsExact
<1> QED BY <1>1, FramingInitial, FramingStep, PTL DEF FramingSpec

-----------------------------------------------------------------------------
(* What the loops of the scan compute.                                     *)

\* A function on the numbers may be defined by its values behind a limit and by
\* what the next two values make of the one before.
Backward(R) == [Nat \X R \X R -> R]

RunsBack(f, L, a, H) ==
  \A i \in Nat : f[i] = IF i > L THEN a[i] ELSE H[<<i, f[i + 1], f[i + 2]>>]

LEMMA Descent ==
  ASSUME NEW R, NEW L \in Nat, NEW a \in [Nat -> R], NEW H \in Backward(R)
  PROVE  \E f \in [Nat -> R] : RunsBack(f, L, a, H)
<1> DEFINE Holds(f, i) == f[i] = IF i > L THEN a[i] ELSE H[<<i, f[i + 1], f[i + 2]>>]
           T == {k \in Nat : \E f \in [Nat -> R] : \A i \in Nat : i + k > L => Holds(f, i)}
<1>1. 0 \in T
  <2>1. \A i \in Nat : i + 0 > L => Holds(a, i)
    OBVIOUS
  <2> HIDE DEF Holds
  <2> QED BY <2>1
<1>2. ASSUME NEW k \in Nat, k \in T PROVE k + 1 \in T
  <2>1. PICK f \in [Nat -> R] : \A i \in Nat : i + k > L => Holds(f, i)
    BY <1>2
  <2>2. CASE k > L
    <3>1. \A i \in Nat : i + (k + 1) > L => i + k > L
      BY <2>2
    <3> HIDE DEF Holds
    <3> QED BY <2>1, <3>1
  <2>3. CASE k <= L
    <3>0. H \in [Nat \X R \X R -> R]
      BY DEF Backward
    <3> DEFINE n == L - k
               v == H[<<n, f[n + 1], f[n + 2]>>]
               g == [f EXCEPT ![n] = v]
    <3>1. n \in Nat /\ v \in R
      BY <2>3, <3>0
    <3>2. g \in [Nat -> R] /\ g[n] = v /\ \A i \in Nat : i # n => g[i] = f[i]
      BY <3>1
    <3> HIDE DEF g
    <3>3. ASSUME NEW i \in Nat, i + (k + 1) > L PROVE Holds(g, i)
      <4>1. CASE i = n
        <5>1. g[n + 1] = f[n + 1] /\ g[n + 2] = f[n + 2] /\ ~ (n > L)
          BY <3>1, <3>2, <2>3
        <5> QED BY <3>2, <4>1, <5>1
      <4>2. CASE i # n
        <5>1. i + k > L /\ i # n /\ i + 1 # n /\ i + 2 # n
          BY <3>1, <3>3, <4>2, <2>3
        <5>2. g[i] = f[i] /\ g[i + 1] = f[i + 1] /\ g[i + 2] = f[i + 2]
          BY <3>2, <5>1
        <5> QED BY <2>1, <5>1, <5>2
      <4> QED BY <4>1, <4>2
    <3> HIDE DEF Holds
    <3> QED BY <3>2, <3>3
  <2> QED BY <2>2, <2>3
<1>3. Nat \subseteq T
  <2> HIDE DEF T
  <2> QED BY <1>1, <1>2, Induction
<1>4. PICK f \in [Nat -> R] : \A i \in Nat : i + (L + 1) > L => Holds(f, i)
  <2>1. L + 1 \in T
    <3> HIDE DEF T
    <3> QED BY <1>3
  <2> QED BY <2>1
<1> QED BY <1>4 DEF RunsBack

LEMMA CharacterType ==
  ASSUME NEW text \in Seq(JsonCharacters), NEW i \in Nat
  PROVE  /\ i \in 1 .. Len(text) => Character(text, i) \in JsonCharacters
         /\ Character(text, i) = "none" <=> i \notin 1 .. Len(text)
<1>1. DOMAIN text = 1 .. Len(text)
  BY LenProperties
<1>2. CASE i \in 1 .. Len(text)
  <2>1. text[i] \in JsonCharacters /\ "none" \notin JsonCharacters
    BY <1>2, ElementOfSeq, LettersAssumption DEF JsonCharacters, Structure
  <2> QED BY <1>1, <1>2, <2>1 DEF Character
<1>3. CASE i \notin 1 .. Len(text)
  BY <1>1, <1>3 DEF Character
<1> QED BY <1>2, <1>3

\* What stands in a text from i to before j
Reads(text, i, w, j) ==
  /\ i \in Nat \ {0} /\ j = i + Len(w) /\ j <= Len(text) + 1
  /\ \A k \in 1 .. Len(w) : Character(text, i + k - 1) = w[k]

\* The inner loop goes on by one character or by two.
LEMMA EndOfStringIs ==
  ASSUME NEW text \in Seq(JsonCharacters), NEW start \in Nat
  PROVE  EndOfString(text, start) =
           IF Character(text, start + 1) = "escape" THEN EndOfString(text, start + 2)
           ELSE IF Character(text, start + 1) \in {"quote", "none"} THEN start + 1
           ELSE EndOfString(text, start + 1)
<1> DEFINE L == Len(text)
           Step(f) == [i \in Nat |->
                         IF Character(text, i) = "escape" THEN f[i + 2]
                         ELSE IF Character(text, i) \in {"quote", "none"} THEN i
                         ELSE f[i + 1]]
           end == CHOOSE f : f = Step(f)
<1>0. L \in Nat
  BY LenProperties
<1>1. PICK a \in [Nat -> Nat] : \A i \in Nat : a[i] = i
  <2>1. [i \in Nat |-> i] \in [Nat -> Nat]
    OBVIOUS
  <2> QED BY <2>1
<1>2. PICK H \in Backward(Nat) :
        \A i, x, y \in Nat :
          H[<<i, x, y>>] = IF Character(text, i) = "escape" THEN y
                           ELSE IF Character(text, i) \in {"quote", "none"} THEN i
                           ELSE x
  <2> DEFINE G == [p \in Nat \X Nat \X Nat |->
                     IF Character(text, p[1]) = "escape" THEN p[3]
                     ELSE IF Character(text, p[1]) \in {"quote", "none"} THEN p[1]
                     ELSE p[2]]
  <2>1. G \in [Nat \X Nat \X Nat -> Nat]
    OBVIOUS
  <2> QED BY <2>1 DEF Backward
<1>3. PICK f \in [Nat -> Nat] : RunsBack(f, L, a, H)
  <2> HIDE DEF L, Step, end
  <2> QED BY <1>0, Descent
<1>4. f = Step(f)
  <2>1. ASSUME NEW i \in Nat PROVE f[i] = Step(f)[i]
    <3> HIDE DEF end
    <3>0. f[i] = IF i > L THEN a[i] ELSE H[<<i, f[i + 1], f[i + 2]>>]
      BY <1>3 DEF RunsBack
    <3>1. f[i + 1] \in Nat /\ f[i + 2] \in Nat
      <4>1. i + 1 \in Nat /\ i + 2 \in Nat
        OBVIOUS
      <4> HIDE DEF Step, L
      <4> QED BY <4>1
    <3>2. CASE i > L
      <4>1. Character(text, i) = "none"
        BY <1>0, <3>2, CharacterType
      <4> QED BY <1>1, <3>0, <3>2, <4>1
    <3>3. CASE ~ (i > L)
      <4>1. f[i] = H[<<i, f[i + 1], f[i + 2]>>]
        BY <3>0, <3>3
      <4>2. H[<<i, f[i + 1], f[i + 2]>>] =
              IF Character(text, i) = "escape" THEN f[i + 2]
              ELSE IF Character(text, i) \in {"quote", "none"} THEN i
              ELSE f[i + 1]
        BY <1>2, <3>1
      <4> QED BY <4>1, <4>2
    <3> QED BY <3>2, <3>3
  <2> QED BY <2>1
<1>5. end = Step(end)
  <2> HIDE DEF Step
  <2> QED BY <1>4
<1>6. \A n \in Nat : EndOfString(text, n) = end[n + 1]
  BY DEF EndOfString
<1>7. \A i \in Nat : end[i] = Step(end)[i]
  <2> HIDE DEF end, Step
  <2> QED BY <1>5
<1> HIDE DEF end
<1>8. end[start + 1] = IF Character(text, start + 1) = "escape" THEN end[start + 3]
                       ELSE IF Character(text, start + 1) \in {"quote", "none"} THEN start + 1
                       ELSE end[start + 2]
  BY <1>7
<1>9. /\ EndOfString(text, start) = end[start + 1]
      /\ EndOfString(text, start + 1) = end[start + 2]
      /\ EndOfString(text, start + 2) = end[start + 3]
  <2>1. start + 1 \in Nat /\ start + 2 \in Nat /\ (start + 1) + 1 = start + 2
        /\ (start + 2) + 1 = start + 3
    OBVIOUS
  <2> QED BY <1>6, <2>1
<1> QED BY <1>8, <1>9

\* So does the parser of a name.
LEMMA NameIs ==
  ASSUME NEW text \in Seq(JsonCharacters), NEW start \in Nat, NEW end \in Nat
  PROVE  Name(text, start, end) =
           IF start + 1 >= end THEN <<>>
           ELSE IF Character(text, start + 1) = "escape"
                THEN <<Unescaped(Character(text, start + 2))>>
                       \o Name(text, start + 2, end)
                ELSE <<Character(text, start + 1)>> \o Name(text, start + 1, end)
<1> DEFINE C(i) == Character(text, i)
           R == Seq({Unescaped(C(i)) : i \in Nat} \cup {C(i) : i \in Nat})
           Step(f) == [i \in Nat |->
                         IF i >= end THEN <<>>
                         ELSE IF C(i) = "escape"
                              THEN <<Unescaped(C(i + 1))>> \o f[i + 2]
                              ELSE <<C(i)>> \o f[i + 1]]
           decoded == CHOOSE f : f = Step(f)
<1>1. PICK a \in [Nat -> R] : \A i \in Nat : a[i] = <<>>
  <2>1. <<>> \in R
    BY EmptySeq
  <2> HIDE DEF R
  <2>2. [i \in Nat |-> <<>>] \in [Nat -> R]
    BY <2>1
  <2> QED BY <2>2
<1>2. PICK H \in Backward(R) :
        \A i \in Nat, x, y \in R :
          H[<<i, x, y>>] = IF i >= end THEN <<>>
                           ELSE IF C(i) = "escape" THEN <<Unescaped(C(i + 1))>> \o y
                           ELSE <<C(i)>> \o x
  <2> DEFINE h(i, x, y) == IF i >= end THEN <<>>
                           ELSE IF C(i) = "escape" THEN <<Unescaped(C(i + 1))>> \o y
                           ELSE <<C(i)>> \o x
             G == [p \in Nat \X R \X R |-> h(p[1], p[2], p[3])]
  <2>1. ASSUME NEW i \in Nat, NEW x \in R, NEW y \in R PROVE h(i, x, y) \in R
    <3>1. <<>> \in R
      BY EmptySeq
    <3>2. <<Unescaped(C(i + 1))>> \in R /\ <<C(i)>> \in R
      <4> DEFINE S == {Unescaped(C(n)) : n \in Nat} \cup {C(n) : n \in Nat}
      <4>1. Unescaped(C(i + 1)) \in S /\ C(i) \in S
        BY i + 1 \in Nat
      <4> HIDE DEF S, C
      <4>2. <<Unescaped(C(i + 1))>> \in Seq(S) /\ <<C(i)>> \in Seq(S)
        BY <4>1
      <4> QED BY <4>2 DEF S
    <3>3. <<Unescaped(C(i + 1))>> \o y \in R /\ <<C(i)>> \o x \in R
      <4> DEFINE S == {Unescaped(C(n)) : n \in Nat} \cup {C(n) : n \in Nat}
      <4> HIDE DEF S
      <4> QED BY <3>2, ConcatProperties DEF S
    <3> HIDE DEF R, C
    <3> QED BY <3>1, <3>3
  <2> HIDE DEF R, h
  <2>2. G \in [Nat \X R \X R -> R]
    BY <2>1
  <2>3. \A i \in Nat, x, y \in R : G[<<i, x, y>>] = h(i, x, y)
    OBVIOUS
  <2> HIDE DEF G
  <2> QED BY <2>2, <2>3 DEF h, Backward
<1> HIDE DEF R, C
<1>3. PICK f \in [Nat -> R] : RunsBack(f, end, a, H)
  <2> HIDE DEF Step, decoded
  <2> QED BY Descent
<1>4. f = Step(f)
  <2>1. ASSUME NEW i \in Nat PROVE f[i] = Step(f)[i]
    <3> HIDE DEF decoded
    <3>0. f[i] = IF i > end THEN a[i] ELSE H[<<i, f[i + 1], f[i + 2]>>]
      BY <1>3 DEF RunsBack
    <3>1. f[i + 1] \in R /\ f[i + 2] \in R
      BY <1>3
    <3>2. CASE i > end
      BY <1>1, <3>0, <3>2
    <3>3. CASE ~ (i > end)
      BY <1>2, <3>0, <3>1, <3>3
    <3> QED BY <3>2, <3>3
  <2> QED BY <2>1
<1>5. decoded = Step(decoded)
  <2> HIDE DEF Step
  <2> QED BY <1>4
<1>6. \A n \in Nat : Name(text, n, end) = decoded[n + 1]
  BY DEF Name, C
<1>7. \A i \in Nat : decoded[i] = Step(decoded)[i]
  <2> HIDE DEF decoded, Step
  <2> QED BY <1>5
<1> HIDE DEF decoded
<1>8. decoded[start + 1] =
        IF start + 1 >= end THEN <<>>
        ELSE IF C(start + 1) = "escape" THEN <<Unescaped(C(start + 2))>> \o decoded[start + 3]
        ELSE <<C(start + 1)>> \o decoded[start + 2]
  <2>1. start + 1 \in Nat /\ (start + 1) + 1 = start + 2 /\ (start + 1) + 2 = start + 3
    OBVIOUS
  <2>2. decoded[start + 1] = Step(decoded)[start + 1]
    BY <1>7, <2>1
  <2>3. Step(decoded)[start + 1] =
        IF start + 1 >= end THEN <<>>
        ELSE IF C(start + 1) = "escape"
             THEN <<Unescaped(C((start + 1) + 1))>> \o decoded[(start + 1) + 2]
             ELSE <<C(start + 1)>> \o decoded[(start + 1) + 1]
    BY <2>1
  <2> QED BY <2>1, <2>2, <2>3
<1>9. /\ Name(text, start, end) = decoded[start + 1]
      /\ Name(text, start + 1, end) = decoded[start + 2]
      /\ Name(text, start + 2, end) = decoded[start + 3]
  <2>1. start + 1 \in Nat /\ start + 2 \in Nat /\ (start + 1) + 1 = start + 2
        /\ (start + 2) + 1 = start + 3
    OBVIOUS
  <2> QED BY <1>6, <2>1
<1> QED BY <1>8, <1>9 DEF C

-----------------------------------------------------------------------------
(* Places of a text.                                                       *)

LEMMA ReadsWithin ==
  ASSUME NEW text \in Seq(JsonCharacters), NEW i, NEW j,
         NEW w \in Seq(JsonCharacters), Reads(text, i, w, j)
  PROVE  /\ i \in Nat \ {0} /\ j \in Nat \ {0} /\ i <= j
         /\ i \in 1 .. Len(text) + 1 /\ j \in 1 .. Len(text) + 1
BY LenProperties DEF Reads

LEMMA ReadsParts ==
  ASSUME NEW text \in Seq(JsonCharacters), NEW i, NEW j,
         NEW u \in Seq(JsonCharacters), NEW w \in Seq(JsonCharacters),
         Reads(text, i, u \o w, j)
  PROVE  \E k : Reads(text, i, u, k) /\ Reads(text, k, w, j)
<1> DEFINE k == i + Len(u)
<1>1. /\ Len(u) \in Nat /\ Len(w) \in Nat /\ Len(text) \in Nat
      /\ Len(u \o w) = Len(u) + Len(w)
      /\ \A n \in 1 .. Len(u) : (u \o w)[n] = u[n]
      /\ \A n \in 1 .. Len(w) : (u \o w)[Len(u) + n] = w[n]
  <2>1. /\ Len(u \o w) = Len(u) + Len(w)
        /\ \A n \in 1 .. Len(u) + Len(w) :
             (u \o w)[n] = IF n <= Len(u) THEN u[n] ELSE w[n - Len(u)]
    BY ConcatProperties
  <2>2. Len(u) \in Nat /\ Len(w) \in Nat /\ Len(text) \in Nat
    BY LenProperties
  <2>3. ASSUME NEW n \in 1 .. Len(w) PROVE (u \o w)[Len(u) + n] = w[n]
    <3>1. Len(u) + n \in 1 .. Len(u) + Len(w) /\ ~ (Len(u) + n <= Len(u))
          /\ (Len(u) + n) - Len(u) = n
      BY <2>2
    <3> QED BY <2>1, <3>1
  <2>4. ASSUME NEW n \in 1 .. Len(u) PROVE (u \o w)[n] = u[n]
    <3>1. n \in 1 .. Len(u) + Len(w) /\ n <= Len(u)
      BY <2>2
    <3> QED BY <2>1, <3>1
  <2> QED BY <2>1, <2>2, <2>3, <2>4
<1>2. /\ i \in Nat \ {0} /\ j = i + Len(u \o w) /\ j <= Len(text) + 1
      /\ \A n \in 1 .. Len(u \o w) : Character(text, i + n - 1) = (u \o w)[n]
  BY DEF Reads
<1>3. Reads(text, i, u, k)
  <2>1. ASSUME NEW n \in 1 .. Len(u) PROVE Character(text, i + n - 1) = u[n]
    <3>1. n \in 1 .. Len(u \o w)
      BY <1>1
    <3> QED BY <1>1, <1>2, <3>1
  <2> QED BY <1>1, <1>2, <2>1 DEF Reads
<1>4. Reads(text, k, w, j)
  <2>1. ASSUME NEW n \in 1 .. Len(w) PROVE Character(text, k + n - 1) = w[n]
    <3>1. Len(u) + n \in 1 .. Len(u \o w) /\ i + (Len(u) + n) - 1 = k + n - 1
      BY <1>1, <1>2
    <3>2. Character(text, i + (Len(u) + n) - 1) = (u \o w)[Len(u) + n]
      BY <1>2, <3>1
    <3> QED BY <1>1, <3>1, <3>2
  <2> QED BY <1>1, <1>2, <2>1 DEF Reads
<1> QED BY <1>3, <1>4

LEMMA ReadsOne ==
  ASSUME NEW text \in Seq(JsonCharacters), NEW i, NEW j, NEW c \in JsonCharacters,
         Reads(text, i, <<c>>, j)
  PROVE  /\ i \in 1 .. Len(text) /\ i \in Nat \ {0} /\ j = i + 1
         /\ Character(text, i) = c
<1>1. Len(<<c>>) = 1 /\ <<c>>[1] = c /\ Len(text) \in Nat
  BY LenProperties
<1>2. /\ i \in Nat \ {0} /\ j = i + 1 /\ j <= Len(text) + 1
      /\ Character(text, i + 1 - 1) = <<c>>[1]
  BY <1>1 DEF Reads
<1> QED BY <1>1, <1>2

LEMMA ReadsNone ==
  ASSUME NEW text \in Seq(JsonCharacters), NEW i, NEW j,
         Reads(text, i, <<>>, j)
  PROVE  j = i /\ i \in 1 .. Len(text) + 1 /\ i \in Nat \ {0}
<1>1. Len(<<>>) = 0 /\ Len(text) \in Nat
  BY LenProperties
<1> QED BY <1>1 DEF Reads

\* A sequence in brackets, or one built the same way
LEMMA ReadsBetween ==
  ASSUME NEW text \in Seq(JsonCharacters), NEW i, NEW j,
         NEW c \in JsonCharacters, NEW w \in Seq(JsonCharacters),
         NEW e \in JsonCharacters, Reads(text, i, Enclosed(c, w, e), j)
  PROVE  \E k : /\ Reads(text, i, <<c>>, i + 1) /\ Reads(text, i + 1, w, k)
                /\ Reads(text, k, <<e>>, k + 1) /\ j = k + 1
                /\ i \in 1 .. Len(text) /\ k \in 1 .. Len(text)
                /\ Character(text, i) = c /\ Character(text, k) = e
<1>1. <<c>> \in Seq(JsonCharacters) /\ <<e>> \in Seq(JsonCharacters)
      /\ <<c>> \o w \in Seq(JsonCharacters)
  BY ConcatProperties
<1>2. PICK k : Reads(text, i, <<c>> \o w, k) /\ Reads(text, k, <<e>>, j)
  BY <1>1, ReadsParts DEF Enclosed
<1>3. PICK l : Reads(text, i, <<c>>, l) /\ Reads(text, l, w, k)
  BY <1>1, <1>2, ReadsParts
<1> QED BY <1>2, <1>3, ReadsOne

-----------------------------------------------------------------------------
(* What stands behind a string.                                            *)

LEMMA SeqMonotone ==
  ASSUME NEW S, NEW T, S \subseteq T
  PROVE  Seq(S) \subseteq Seq(T)
<1> DEFINE U == Seq(T)
<1>1. <<>> \in U /\ \A s \in Seq(S), e \in S : s \in U => Append(s, e) \in U
  BY AppendProperties
<1> HIDE DEF U
<1>2. Seq(S) \subseteq U
  BY <1>1, SeqInduction
<1> QED BY <1>2 DEF U

LEMMA WhiteIsText == White \subseteq Seq(JsonCharacters)
<1>1. {"blank"} \subseteq JsonCharacters
  BY DEF JsonCharacters, Structure
<1> QED BY <1>1, SeqMonotone DEF White

LEMMA BehindFacts ==
  ASSUME NEW text \in Seq(JsonCharacters), NEW i \in Nat, 1 <= i, i <= Len(text) + 1
  PROVE  /\ Behind(text, i - 1) \in Nat
         /\ i <= Behind(text, i - 1) /\ Behind(text, i - 1) <= Len(text) + 1
         /\ Character(text, Behind(text, i - 1)) # "blank"
         /\ \A n \in Nat : i <= n /\ n < Behind(text, i - 1) => Character(text, n) = "blank"
<1> DEFINE L == Len(text)
           T == {n \in i .. i + L : Character(text, n) # "blank"}
<1>1. L \in Nat /\ i \in Nat /\ i <= L + 1 /\ 1 <= i
  BY LenProperties
<1>2. Behind(text, i - 1) = Min(T)
  <2>1. (i - 1) + 1 = i /\ (i - 1) + 1 + L = i + L
    BY <1>1
  <2> HIDE DEF L
  <2> QED BY <2>1 DEF Behind, L
<1>3. Character(text, L + 1) # "blank"
  <2>1. Character(text, L + 1) = "none"
    BY <1>1, CharacterType
  <2> QED BY <2>1
<1> HIDE DEF L
<1>4. L + 1 \in i .. i + L
  BY <1>1
<1>5. T \in SUBSET Nat /\ L + 1 \in T
  <2>1. i .. i + L \subseteq Nat
    BY <1>1
  <2> QED BY <1>3, <1>4, <2>1
<1>6. Min(T) \in T /\ \A n \in T : Min(T) <= n
  <2> HIDE DEF T
  <2> QED BY <1>5, MinFacts
<1>7. PICK m \in Nat : m = Min(T) /\ m \in T /\ \A n \in T : m <= n
  <2> HIDE DEF T
  <2> QED BY <1>5, <1>6
<1>8. i <= m /\ m <= i + L /\ Character(text, m) # "blank" /\ m <= L + 1
  <2>1. m \in i .. i + L /\ Character(text, m) # "blank"
    BY <1>7
  <2>2. m <= L + 1
    <3> HIDE DEF T
    <3> QED BY <1>5, <1>7
  <2> QED BY <1>1, <2>1, <2>2
<1>9. ASSUME NEW n \in Nat, i <= n, n < m PROVE Character(text, n) = "blank"
  <2>1. n \in i .. i + L /\ ~ (m <= n)
    <3> HIDE DEF T
    <3>1. i \in Nat /\ L \in Nat /\ m \in Nat /\ n \in Nat
      BY <1>1
    <3> QED BY <1>8, <1>9, <3>1
  <2>2. n \notin T
    <3> HIDE DEF T
    <3> QED BY <1>7, <2>1
  <2> QED BY <2>1, <2>2
<1> HIDE DEF T
<1> QED BY <1>2, <1>7, <1>8, <1>9 DEF L

\* White space makes no difference to it,
LEMMA BehindWhite ==
  ASSUME NEW text \in Seq(JsonCharacters), NEW i, NEW j, NEW a \in White,
         Reads(text, i, a, j)
  PROVE  Behind(text, i - 1) = Behind(text, j - 1)
<1>1. /\ i \in 1 .. Len(text) + 1 /\ j \in 1 .. Len(text) + 1
      /\ i \in Nat \ {0} /\ j \in Nat \ {0} /\ i <= j
      /\ 1 <= i /\ i <= Len(text) + 1 /\ 1 <= j /\ j <= Len(text) + 1
  BY ReadsWithin, WhiteIsText, LenProperties
<1>2. PICK n \in Nat : n = Len(a) /\ j = i + n
  BY LenProperties DEF Reads, White
<1>3. ASSUME NEW m \in Nat, i <= m, m < j PROVE Character(text, m) = "blank"
  <2>1. PICK k \in Nat : k = m - i + 1
    BY <1>1, <1>3
  <2>2. k \in 1 .. n /\ i + k - 1 = m
    BY <1>1, <1>2, <1>3, <2>1
  <2>3. a[k] = "blank"
    <3>1. a[k] \in {"blank"}
      BY <1>2, <2>2, ElementOfSeq DEF White
    <3> QED BY <3>1
  <2>4. Character(text, i + k - 1) = a[k]
    BY <1>2, <2>2 DEF Reads
  <2> QED BY <2>2, <2>3, <2>4
<1>4. PICK m \in Nat : /\ m = Behind(text, i - 1) /\ i <= m /\ Character(text, m) # "blank"
                       /\ \A p \in Nat : i <= p /\ p < m => Character(text, p) = "blank"
  BY <1>1, BehindFacts
<1>5. PICK l \in Nat : /\ l = Behind(text, j - 1) /\ j <= l /\ Character(text, l) # "blank"
                       /\ \A p \in Nat : j <= p /\ p < l => Character(text, p) = "blank"
  BY <1>1, BehindFacts
<1>6. j <= m /\ i <= l
  <2>0. i \in Nat /\ j \in Nat /\ i <= j
    BY <1>1
  <2>1. ~ (m < j)
    BY <1>3, <1>4
  <2> QED BY <1>5, <2>0, <2>1
<1>7. ~ (m < l) /\ ~ (l < m)
  <2>1. ~ (m < l)
    BY <1>4, <1>5, <1>6
  <2>2. ~ (l < m)
    BY <1>4, <1>5, <1>6
  <2> QED BY <2>1, <2>2
<1>8. m = l
  BY <1>7
<1> QED BY <1>4, <1>5, <1>8

\* and nothing else is passed over.
LEMMA BehindNext ==
  ASSUME NEW text \in Seq(JsonCharacters), NEW i \in 1 .. Len(text) + 1,
         Character(text, i) # "blank"
  PROVE  Behind(text, i - 1) = i
<1>0. PICK p \in Nat : p = i /\ 1 <= p /\ p <= Len(text) + 1
  BY LenProperties
<1>1. PICK m \in Nat : /\ m = Behind(text, p - 1) /\ p <= m
                       /\ \A n \in Nat : p <= n /\ n < m => Character(text, n) = "blank"
  BY <1>0, BehindFacts
<1>2. ~ (p < m)
  BY <1>0, <1>1
<1>3. p = m
  BY <1>1, <1>2
<1> QED BY <1>0, <1>1, <1>3

\* What comes behind j is no colon.
Clear(text, j) == Character(text, Behind(text, j - 1)) # "colon"

LEMMA ClearNext ==
  ASSUME NEW text \in Seq(JsonCharacters), NEW j \in 1 .. Len(text) + 1,
         Character(text, j) \notin {"blank", "colon"}
  PROVE  Clear(text, j)
BY BehindNext DEF Clear

LEMMA ClearWhite ==
  ASSUME NEW text \in Seq(JsonCharacters), NEW i, NEW j, NEW a \in White,
         Reads(text, i, a, j), Clear(text, j)
  PROVE  Clear(text, i)
BY BehindWhite DEF Clear

-----------------------------------------------------------------------------
(* Strings.                                                                *)

\* The loops of the scan find what a string was built from.
BodyFound(body) ==
  \A text \in Seq(JsonCharacters) : \A i, j :
     (Reads(text, i, body.text, j) /\ Character(text, j) = "quote")
       => /\ EndOfString(text, i - 1) = j
          /\ Name(text, i - 1, j) = body.is

LEMMA BodiesFound ==
  ASSUME NEW body \in StringBodies
  PROVE  BodyFound(body)
<1> DEFINE Shape == [text : Seq(JsonCharacters), is : Seq(Spelt)]
           K == {b \in Shape : BodyFound(b)}
<1>1. NoBody \in K
  <2>1. NoBody.text = <<>> /\ NoBody.is = <<>> /\ NoBody \in Shape
    BY DEF NoBody
  <2>2. ASSUME NEW text \in Seq(JsonCharacters), NEW i, NEW j,
               Reads(text, i, NoBody.text, j), Character(text, j) = "quote"
        PROVE  /\ EndOfString(text, i - 1) = j
               /\ Name(text, i - 1, j) = NoBody.is
    <3>1. j = i /\ i \in Nat \ {0}
      BY <2>1, <2>2, ReadsNone
    <3>2. i - 1 \in Nat /\ (i - 1) + 1 = i
      BY <3>1
    <3>3. EndOfString(text, i - 1) = (i - 1) + 1
      BY <2>2, <3>1, <3>2, EndOfStringIs
    <3>4. Name(text, i - 1, j) = <<>>
      <4>1. (i - 1) + 1 >= j
        BY <3>1
      <4> QED BY <3>1, <3>2, <4>1, NameIs
    <3> QED BY <2>1, <3>1, <3>2, <3>3, <3>4
  <2> QED BY <2>1, <2>2 DEF BodyFound
<1>2. ASSUME NEW c \in JsonCharacters, NEW b \in K, c \notin {"quote", "escape"}
      PROVE  Plainly(c, b) \in K
  <2> DEFINE p == Plainly(c, b)
  <2>0. b.text \in Seq(JsonCharacters) /\ b.is \in Seq(Spelt) /\ BodyFound(b)
    OBVIOUS
  <2>1. /\ p.text = <<c>> \o b.text /\ p.is = <<c>> \o b.is
        /\ p = [text |-> p.text, is |-> p.is]
    BY DEF Plainly
  <2>2. <<c>> \in Seq(JsonCharacters) /\ <<c>> \in Seq(Spelt)
    BY DEF Spelt
  <2>3. p \in Shape
    <3>1. <<c>> \o b.text \in Seq(JsonCharacters) /\ <<c>> \o b.is \in Seq(Spelt)
      BY <2>0, <2>2, ConcatProperties
    <3> HIDE DEF p
    <3> QED BY <2>1, <3>1
  <2> HIDE DEF p
  <2>4. ASSUME NEW text \in Seq(JsonCharacters), NEW i, NEW j,
               Reads(text, i, p.text, j), Character(text, j) = "quote"
        PROVE  /\ EndOfString(text, i - 1) = j
               /\ Name(text, i - 1, j) = p.is
    <3>1. PICK k : Reads(text, i, <<c>>, k) /\ Reads(text, k, b.text, j)
      BY <2>0, <2>1, <2>2, <2>4, ReadsParts
    <3>2. k = i + 1 /\ i \in Nat \ {0} /\ i \in 1 .. Len(text) /\ Character(text, i) = c
      BY <3>1, ReadsOne
    <3>3. j \in Nat /\ k <= j
      BY <2>0, <3>1, ReadsWithin
    <3>4. EndOfString(text, k - 1) = j /\ Name(text, k - 1, j) = b.is
      BY <2>0, <2>4, <3>1 DEF BodyFound
    <3>5. /\ i - 1 \in Nat /\ (i - 1) + 1 = i /\ k - 1 = i /\ ~ (i >= j)
      BY <3>2, <3>3
    <3>6. c # "none"
      BY <3>2, CharacterType
    <3>7. EndOfString(text, i - 1) = EndOfString(text, i)
      BY <1>2, <3>2, <3>5, <3>6, EndOfStringIs
    <3>8. Name(text, i - 1, j) = <<c>> \o Name(text, i, j)
      <4>1. Name(text, i - 1, j) =
              IF (i - 1) + 1 >= j THEN <<>>
              ELSE IF Character(text, (i - 1) + 1) = "escape"
                   THEN <<Unescaped(Character(text, (i - 1) + 2))>>
                          \o Name(text, (i - 1) + 2, j)
                   ELSE <<Character(text, (i - 1) + 1)>> \o Name(text, (i - 1) + 1, j)
        BY <3>3, <3>5, NameIs
      <4>2. ~ ((i - 1) + 1 >= j) /\ c # "escape"
        BY <1>2, <3>5
      <4> QED BY <3>2, <3>5, <4>1, <4>2
    <3> QED BY <2>1, <3>4, <3>5, <3>7, <3>8
  <2> HIDE DEF Shape
  <2> QED BY <2>3, <2>4 DEF BodyFound, p
<1>3. ASSUME NEW c \in JsonCharacters, NEW b \in K
      PROVE  Escaped(c, b) \in K
  <2> DEFINE p == Escaped(c, b)
             u == Unescaped(c)
  <2>0. b.text \in Seq(JsonCharacters) /\ b.is \in Seq(Spelt) /\ BodyFound(b)
    OBVIOUS
  <2>1. /\ p.text = <<"escape", c>> \o b.text /\ p.is = <<u>> \o b.is
        /\ p = [text |-> p.text, is |-> p.is]
    BY DEF Escaped
  <2>2. /\ "escape" \in JsonCharacters /\ <<"escape">> \in Seq(JsonCharacters)
        /\ <<c>> \in Seq(JsonCharacters) /\ <<"escape", c>> = <<"escape">> \o <<c>>
        /\ <<"escape", c>> \in Seq(JsonCharacters)
    <3>1. "escape" \in JsonCharacters
      BY DEF JsonCharacters, Structure
    <3> QED BY <3>1
  <2>3. p \in Shape
    <3>1. u \in Spelt
      BY DEF Spelt
    <3>2. <<"escape", c>> \o b.text \in Seq(JsonCharacters) /\ <<u>> \o b.is \in Seq(Spelt)
      <4> HIDE DEF u
      <4>1. <<u>> \in Seq(Spelt)
        BY <3>1
      <4> QED BY <2>0, <2>2, <4>1, ConcatProperties
    <3> HIDE DEF p, u
    <3> QED BY <2>1, <3>2
  <2> HIDE DEF p
  <2>4. ASSUME NEW text \in Seq(JsonCharacters), NEW i, NEW j,
               Reads(text, i, p.text, j), Character(text, j) = "quote"
        PROVE  /\ EndOfString(text, i - 1) = j
               /\ Name(text, i - 1, j) = p.is
    <3>1. PICK l : Reads(text, i, <<"escape", c>>, l) /\ Reads(text, l, b.text, j)
      BY <2>0, <2>1, <2>2, <2>4, ReadsParts
    <3>2. PICK k : Reads(text, i, <<"escape">>, k) /\ Reads(text, k, <<c>>, l)
      BY <2>2, <3>1, ReadsParts
    <3>3. /\ k = i + 1 /\ l = k + 1 /\ i \in Nat \ {0}
          /\ Character(text, i) = "escape" /\ Character(text, k) = c
      BY <2>2, <3>2, ReadsOne
    <3>4. j \in Nat /\ l <= j
      BY <2>0, <3>1, ReadsWithin
    <3>5. EndOfString(text, l - 1) = j /\ Name(text, l - 1, j) = b.is
      BY <2>0, <2>4, <3>1 DEF BodyFound
    <3>6. /\ i - 1 \in Nat /\ (i - 1) + 1 = i /\ (i - 1) + 2 = k
          /\ l - 1 = k /\ ~ (i >= j)
      BY <3>3, <3>4
    <3>7. EndOfString(text, i - 1) = EndOfString(text, k)
      BY <3>3, <3>6, EndOfStringIs
    <3>8. Name(text, i - 1, j) = <<u>> \o Name(text, k, j)
      <4>1. Name(text, i - 1, j) =
              IF (i - 1) + 1 >= j THEN <<>>
              ELSE IF Character(text, (i - 1) + 1) = "escape"
                   THEN <<Unescaped(Character(text, (i - 1) + 2))>>
                          \o Name(text, (i - 1) + 2, j)
                   ELSE <<Character(text, (i - 1) + 1)>> \o Name(text, (i - 1) + 1, j)
        BY <3>4, <3>6, NameIs
      <4>2. ~ ((i - 1) + 1 >= j)
        BY <3>6
      <4> HIDE DEF u
      <4> QED BY <3>3, <3>6, <4>1, <4>2 DEF u
    <3> QED BY <2>1, <3>5, <3>6, <3>7, <3>8
  <2> HIDE DEF Shape
  <2> QED BY <2>3, <2>4 DEF BodyFound, p
<1>4. HasBodies(K)
  <2> HIDE DEF K
  <2> QED BY <1>1, <1>2, <1>3 DEF HasBodies
<1>5. body \in K
  <2> HIDE DEF K
  <2> QED BY <1>4 DEF StringBodies
<1> QED BY <1>5

\* So the scan finds the end of a string, and what it spells.
LEMMA QuotedFound ==
  ASSUME NEW text \in Seq(JsonCharacters), NEW i, NEW j, NEW body \in StringBodies,
         Reads(text, i, Quoted(body), j)
  PROVE  /\ i \in 1 .. Len(text) /\ i \in Nat \ {0} /\ Character(text, i) = "quote"
         /\ EndOfString(text, i) = j - 1
         /\ Name(text, i, j - 1) = body.is
         /\ j \in 1 .. Len(text) + 1
<1>1. body.text \in Seq(JsonCharacters) /\ "quote" \in JsonCharacters
  BY DEF StringBodies, JsonCharacters, Structure
<1>2. PICK k : /\ Reads(text, i, <<"quote">>, i + 1) /\ Reads(text, i + 1, body.text, k)
               /\ Reads(text, k, <<"quote">>, k + 1) /\ j = k + 1
               /\ i \in 1 .. Len(text) /\ k \in 1 .. Len(text)
               /\ Character(text, i) = "quote" /\ Character(text, k) = "quote"
  BY <1>1, ReadsBetween DEF Quoted
<1>3. EndOfString(text, (i + 1) - 1) = k /\ Name(text, (i + 1) - 1, k) = body.is
  BY <1>2, BodiesFound DEF BodyFound
<1>4. (i + 1) - 1 = i /\ j - 1 = k /\ j \in 1 .. Len(text) + 1 /\ i \in Nat \ {0}
  BY <1>2, LenProperties
<1> QED BY <1>2, <1>3, <1>4

-----------------------------------------------------------------------------
(* The scan of a text, from a place with some brackets open.               *)

Containers == [kind : {"object", "array"}, names : SUBSET Seq(Spelt)]

Places(text) == (1 .. Len(text) + 1) \X Seq(Containers)

\* One turn of the loop that goes on
Goes(text, i, open, j, after) ==
  \/ /\ Character(text, i) \in {"lbrace", "lbracket"}
     /\ j = i + 1 /\ after = Append(open, Opened(Character(text, i)))
  \/ /\ Character(text, i) \in {"rbrace", "rbracket"}
     /\ j = i + 1 /\ after = Front(open)
  \/ /\ Character(text, i) \notin
          {"lbrace", "lbracket", "rbrace", "rbracket", "quote", "none"}
     /\ j = i + 1 /\ after = open
  \/ /\ Character(text, i) = "quote"
     /\ ~ IsName(text, EndOfString(text, i), open)
     /\ j = EndOfString(text, i) + 1 /\ after = open
  \/ /\ Character(text, i) = "quote"
     /\ IsName(text, EndOfString(text, i), open)
     /\ Name(text, i, EndOfString(text, i)) \notin Last(open).names
     /\ j = EndOfString(text, i) + 1
     /\ after = WithKey(open, Name(text, i, EndOfString(text, i)))

\* One that finds a name a second time
Repeats(text, i, open) ==
  /\ Character(text, i) = "quote"
  /\ IsName(text, EndOfString(text, i), open)
  /\ Name(text, i, EndOfString(text, i)) \in Last(open).names
  /\ EndOfString(text, i) + 1 \in 1 .. Len(text) + 1

\* The places from which the scan comes to a name for the second time, or, if none
\* is repeated, to the end with no bracket open.
Backwards(text, repeated, K) ==
  /\ repeated = {} => <<Len(text) + 1, <<>>>> \in K
  /\ repeated # {} => \A i, open : <<i, open>> \in Places(text) /\ Repeats(text, i, open)
                             => <<i, open>> \in K
  /\ \A i, open, j, after :
       /\ <<i, open>> \in Places(text) /\ <<j, after>> \in K
       /\ Goes(text, i, open, j, after)
       => <<i, open>> \in K

Leads(text, repeated) ==
  {place \in Places(text) : \A K : Backwards(text, repeated, K) => place \in K}

LEMMA LeadsBackwards ==
  ASSUME NEW text \in Seq(JsonCharacters), NEW repeated
  PROVE  Backwards(text, repeated, Leads(text, repeated))
<1>1. repeated = {} => <<Len(text) + 1, <<>>>> \in Leads(text, repeated)
  <2>1. <<Len(text) + 1, <<>>>> \in Places(text)
    <3>1. Len(text) \in Nat
      BY LenProperties
    <3>2. Len(text) + 1 \in 1 .. Len(text) + 1
      BY <3>1
    <3>3. <<>> \in Seq(Containers)
      BY EmptySeq
    <3> QED BY <3>2, <3>3 DEF Places
  <2> QED BY <2>1 DEF Leads, Backwards
<1>2. ASSUME repeated # {}, NEW i, NEW open, <<i, open>> \in Places(text),
             Repeats(text, i, open)
      PROVE  <<i, open>> \in Leads(text, repeated)
  BY <1>2 DEF Leads, Backwards
<1>3. ASSUME NEW i, NEW open, NEW j, NEW after,
             <<i, open>> \in Places(text), <<j, after>> \in Leads(text, repeated),
             Goes(text, i, open, j, after)
      PROVE  <<i, open>> \in Leads(text, repeated)
  <2>1. ASSUME NEW K, Backwards(text, repeated, K) PROVE <<i, open>> \in K
    <3>1. <<j, after>> \in K
      BY <1>3, <2>1 DEF Leads
    <3> QED BY <1>3, <2>1, <3>1 DEF Backwards
  <2> QED BY <1>3, <2>1 DEF Leads
<1> QED BY <1>1, <1>2, <1>3 DEF Backwards

\* There is no other way to be such a place.
LEMMA LeadsOn ==
  ASSUME NEW text \in Seq(JsonCharacters), NEW repeated,
         NEW i, NEW open, <<i, open>> \in Leads(text, repeated)
  PROVE  \/ repeated = {} /\ i = Len(text) + 1 /\ open = <<>>
         \/ repeated # {} /\ Repeats(text, i, open)
         \/ \E j, after : Goes(text, i, open, j, after) /\ <<j, after>> \in Leads(text, repeated)
<1> DEFINE On(p) ==
             \/ repeated = {} /\ p = <<Len(text) + 1, <<>>>>
             \/ repeated # {} /\ Repeats(text, p[1], p[2])
             \/ \E j, after : /\ Goes(text, p[1], p[2], j, after)
                              /\ <<j, after>> \in Leads(text, repeated)
           K == {p \in Leads(text, repeated) : On(p)}
<1>1. Backwards(text, repeated, Leads(text, repeated))
  BY LeadsBackwards
<1>2. repeated = {} => <<Len(text) + 1, <<>>>> \in K
  BY <1>1 DEF Backwards
<1>3. ASSUME repeated # {}, NEW k, NEW o, <<k, o>> \in Places(text), Repeats(text, k, o)
      PROVE  <<k, o>> \in K
  BY <1>1, <1>3 DEF Backwards
<1>4. ASSUME NEW k, NEW o, NEW j, NEW after,
             <<k, o>> \in Places(text), <<j, after>> \in K, Goes(text, k, o, j, after)
      PROVE  <<k, o>> \in K
  <2>1. <<j, after>> \in Leads(text, repeated)
    BY <1>4
  <2>2. <<k, o>> \in Leads(text, repeated)
    BY <1>1, <1>4, <2>1 DEF Backwards
  <2>3. On(<<k, o>>)
    BY <1>4, <2>1
  <2> QED BY <2>2, <2>3
<1>5. Backwards(text, repeated, K)
  <2> HIDE DEF K
  <2> QED BY <1>2, <1>3, <1>4 DEF Backwards
<1>6. <<i, open>> \in K
  <2> HIDE DEF K
  <2> QED BY <1>5 DEF Leads
<1>7. On(<<i, open>>)
  BY <1>6
<1> QED BY <1>7

\* From i with some brackets open the scan comes to j with others, or, if names
\* are repeated between the two, to one for the second time.
Passes(text, i, open, j, after, repeated) ==
  /\ repeated # {} => \A D : D # {} => <<i, open>> \in Leads(text, D)
  /\ repeated = {} => \A D : <<j, after>> \in Leads(text, D)
                               => <<i, open>> \in Leads(text, D)

LEMMA PassesOn ==
  ASSUME NEW text, NEW i, NEW open, NEW j, NEW between, NEW k, NEW after,
         NEW a, NEW b,
         Passes(text, i, open, j, between, a), Passes(text, j, between, k, after, b)
  PROVE  Passes(text, i, open, k, after, a \cup b)
<1>1. CASE a # {}
  BY <1>1 DEF Passes
<1>2. CASE a = {} /\ b # {}
  <2>1. a \cup b # {} /\ b # {}
    BY <1>2
  <2> QED BY <1>2, <2>1 DEF Passes
<1>3. CASE a = {} /\ b = {}
  BY <1>3 DEF Passes
<1> QED BY <1>1, <1>2, <1>3

LEMMA PassesNothing ==
  ASSUME NEW text, NEW i, NEW open
  PROVE  Passes(text, i, open, i, open, {})
BY DEF Passes

LEMMA GoesPasses ==
  ASSUME NEW text \in Seq(JsonCharacters), NEW i \in 1 .. Len(text) + 1,
         NEW open \in Seq(Containers), NEW j, NEW after, Goes(text, i, open, j, after)
  PROVE  Passes(text, i, open, j, after, {})
<1>1. <<i, open>> \in Places(text)
  BY DEF Places
<1>2. ASSUME NEW D, <<j, after>> \in Leads(text, D)
      PROVE  <<i, open>> \in Leads(text, D)
  <2>1. Backwards(text, D, Leads(text, D))
    BY LeadsBackwards
  <2> QED BY <1>1, <1>2, <2>1 DEF Backwards
<1> QED BY <1>2 DEF Passes

LEMMA RepeatsPasses ==
  ASSUME NEW text \in Seq(JsonCharacters), NEW i \in 1 .. Len(text) + 1,
         NEW open \in Seq(Containers), NEW j, NEW after, Repeats(text, i, open),
         NEW repeated, repeated # {}
  PROVE  Passes(text, i, open, j, after, repeated)
<1>1. <<i, open>> \in Places(text)
  BY DEF Places
<1>2. ASSUME NEW D, D # {} PROVE <<i, open>> \in Leads(text, D)
  <2>1. Backwards(text, D, Leads(text, D))
    BY LeadsBackwards
  <2> QED BY <1>1, <1>2, <2>1 DEF Backwards
<1> QED BY <1>2 DEF Passes

\* An open object with the names N so far
Having(N) == [kind |-> "object", names |-> N]

LEMMA OpenPasses ==
  ASSUME NEW text \in Seq(JsonCharacters), NEW i \in 1 .. Len(text),
         NEW open \in Seq(Containers), NEW c \in {"lbrace", "lbracket"},
         Character(text, i) = c
  PROVE  /\ Opened(c) \in Containers /\ Append(open, Opened(c)) \in Seq(Containers)
         /\ Passes(text, i, open, i + 1, Append(open, Opened(c)), {})
<1>1. Opened(c) \in Containers
  BY DEF Opened, Containers
<1>2. i \in 1 .. Len(text) + 1
  BY LenProperties
<1>3. Goes(text, i, open, i + 1, Append(open, Opened(c)))
  BY DEF Goes
<1>4. Append(open, Opened(c)) \in Seq(Containers)
  BY <1>1, AppendProperties
<1> QED BY <1>1, <1>2, <1>3, <1>4, GoesPasses

LEMMA ClosePasses ==
  ASSUME NEW text \in Seq(JsonCharacters), NEW i \in 1 .. Len(text),
         NEW open \in Seq(Containers), NEW x \in Containers,
         Character(text, i) \in {"rbrace", "rbracket"}
  PROVE  Passes(text, i, Append(open, x), i + 1, open, {})
<1>1. /\ Append(open, x) \in Seq(Containers) /\ Front(Append(open, x)) = open
  BY OfAppend
<1>2. i \in 1 .. Len(text) + 1
  BY LenProperties
<1>3. Goes(text, i, Append(open, x), i + 1, open)
  BY <1>1 DEF Goes
<1> QED BY <1>1, <1>2, <1>3, GoesPasses

Busy == {"lbrace", "lbracket", "rbrace", "rbracket", "quote"}

LEMMA OtherPasses ==
  ASSUME NEW text \in Seq(JsonCharacters), NEW i \in 1 .. Len(text),
         NEW open \in Seq(Containers), Character(text, i) \notin Busy
  PROVE  Passes(text, i, open, i + 1, open, {})
<1>1. i \in Nat /\ i \in 1 .. Len(text) + 1
  BY LenProperties
<1>2. Character(text, i) # "none"
  BY <1>1, CharacterType
<1>3. Goes(text, i, open, i + 1, open)
  BY <1>2 DEF Goes, Busy
<1> QED BY <1>1, <1>3, GoesPasses

\* What is neither a bracket nor a string is read over.
QuietFound(w) ==
  \A text \in Seq(JsonCharacters), open \in Seq(Containers) : \A i, j :
     Reads(text, i, w, j) => Passes(text, i, open, j, open, {})

LEMMA QuietPasses ==
  ASSUME NEW w \in Seq(JsonCharacters \ Busy)
  PROVE  QuietFound(w) /\ w \in Seq(JsonCharacters)
<1> DEFINE Q == JsonCharacters \ Busy
           T == {u \in Seq(Q) : QuietFound(u)}
<1>1. <<>> \in T
  <2>1. ASSUME NEW text \in Seq(JsonCharacters), NEW i, NEW j,
               NEW open \in Seq(Containers), Reads(text, i, <<>>, j)
        PROVE  Passes(text, i, open, j, open, {})
    BY <2>1, ReadsNone, PassesNothing
  <2> QED BY <2>1, EmptySeq DEF QuietFound
<1>2. ASSUME NEW u \in Seq(Q), NEW c \in Q, u \in T PROVE Append(u, c) \in T
  <2>0. Seq(Q) \subseteq Seq(JsonCharacters)
    BY SeqMonotone
  <2>1. /\ u \in Seq(JsonCharacters) /\ <<c>> \in Seq(JsonCharacters)
        /\ Append(u, c) = u \o <<c>> /\ Append(u, c) \in Seq(Q) /\ c \in JsonCharacters
    BY <2>0
  <2>2. ASSUME NEW text \in Seq(JsonCharacters), NEW i, NEW j,
               NEW open \in Seq(Containers), Reads(text, i, Append(u, c), j)
        PROVE  Passes(text, i, open, j, open, {})
    <3>1. PICK k : Reads(text, i, u, k) /\ Reads(text, k, <<c>>, j)
      BY <2>1, <2>2, ReadsParts
    <3>2. k \in 1 .. Len(text) /\ j = k + 1 /\ Character(text, k) = c
      BY <2>1, <3>1, ReadsOne
    <3>3. Passes(text, k, open, j, open, {})
      BY <3>2, OtherPasses
    <3>4. Passes(text, i, open, k, open, {})
      <4>1. QuietFound(u)
        BY <1>2
      <4> QED BY <3>1, <4>1 DEF QuietFound
    <3>5. Passes(text, i, open, j, open, {} \cup {})
      BY <3>3, <3>4, PassesOn
    <3> QED BY <3>5
  <2> HIDE DEF Q
  <2> QED BY <2>1, <2>2 DEF QuietFound
<1>3. Seq(Q) \subseteq T
  <2> HIDE DEF T, Q
  <2> QED BY <1>1, <1>2, SeqInduction
<1>4. Seq(Q) \subseteq Seq(JsonCharacters)
  BY SeqMonotone
<1> QED BY <1>3, <1>4

LEMMA WhitePasses ==
  ASSUME NEW a \in White
  PROVE  QuietFound(a) /\ a \in Seq(JsonCharacters)
<1>1. {"blank"} \subseteq JsonCharacters \ Busy
  BY DEF JsonCharacters, Structure, Busy
<1>2. a \in Seq(JsonCharacters \ Busy)
  BY <1>1, SeqMonotone DEF White
<1> QED BY <1>2, QuietPasses

LEMMA WordPasses ==
  ASSUME NEW w \in Seq(Letters)
  PROVE  QuietFound(w) /\ w \in Seq(JsonCharacters)
<1>1. Letters \subseteq JsonCharacters \ Busy
  BY LettersAssumption DEF JsonCharacters, Structure, Busy
<1>2. w \in Seq(JsonCharacters \ Busy)
  BY <1>1, SeqMonotone
<1> QED BY <1>2, QuietPasses

\* A string that no colon comes behind is a value.
LEMMA StringPasses ==
  ASSUME NEW text \in Seq(JsonCharacters), NEW i, NEW j, NEW body \in StringBodies,
         Reads(text, i, Quoted(body), j), Clear(text, j), NEW open \in Seq(Containers)
  PROVE  Passes(text, i, open, j, open, {})
<1>1. /\ i \in 1 .. Len(text) /\ Character(text, i) = "quote"
      /\ EndOfString(text, i) = j - 1 /\ j \in 1 .. Len(text) + 1
  BY QuotedFound
<1>2. i \in 1 .. Len(text) + 1 /\ (j - 1) + 1 = j
  BY <1>1, LenProperties
<1>3. ~ IsName(text, EndOfString(text, i), open)
  BY <1>1 DEF IsName, Clear
<1>4. Goes(text, i, open, j, open)
  BY <1>1, <1>2, <1>3 DEF Goes
<1> QED BY <1>2, <1>4, GoesPasses

\* One that a colon comes behind is the name of a member.
LEMMA NamePasses ==
  ASSUME NEW text \in Seq(JsonCharacters), NEW i, NEW j, NEW body \in StringBodies,
         Reads(text, i, Quoted(body), j), ~ Clear(text, j),
         NEW open \in Seq(Containers), NEW N \in SUBSET Seq(Spelt)
  PROVE  Passes(text, i, Append(open, Having(N)), j,
                Append(open, Having(N \cup {body.is})), {body.is} \cap N)
<1> DEFINE o == Append(open, Having(N))
<1>1. /\ i \in 1 .. Len(text) /\ Character(text, i) = "quote"
      /\ EndOfString(text, i) = j - 1 /\ j \in 1 .. Len(text) + 1
      /\ Name(text, i, j - 1) = body.is
  BY QuotedFound
<1>2. i \in 1 .. Len(text) + 1 /\ (j - 1) + 1 = j
  BY <1>1, LenProperties
<1>3. Having(N) \in Containers
  BY DEF Having, Containers
<1>4. /\ o \in Seq(Containers) /\ o # <<>>
      /\ Front(o) = open /\ Last(o) = Having(N)
  BY <1>3, OfAppend
<1>5. Having(N).kind = "object" /\ Having(N).names = N
  BY DEF Having
<1> HIDE DEF o
<1>6. IsName(text, EndOfString(text, i), o)
  BY <1>1, <1>4, <1>5 DEF IsName, Clear
<1>7. CASE body.is \in N
  <2>1. Repeats(text, i, o)
    BY <1>1, <1>2, <1>4, <1>5, <1>6, <1>7 DEF Repeats
  <2>2. {body.is} \cap N # {}
    BY <1>7
  <2> QED BY <1>2, <1>4, <2>1, <2>2, RepeatsPasses DEF o
<1>8. CASE body.is \notin N
  <2>1. WithKey(o, body.is) = Append(open, Having(N \cup {body.is}))
    BY <1>4, <1>5 DEF WithKey, Having
  <2>2. Goes(text, i, o, j, Append(open, Having(N \cup {body.is})))
    BY <1>1, <1>2, <1>4, <1>5, <1>6, <1>8, <2>1 DEF Goes
  <2>3. Passes(text, i, o, j, Append(open, Having(N \cup {body.is})), {})
    BY <1>2, <1>4, <2>2, GoesPasses
  <2>4. {body.is} \cap N = {}
    BY <1>8
  <2> QED BY <2>3, <2>4 DEF o
<1> QED BY <1>7, <1>8

-----------------------------------------------------------------------------
(* What is built of texts that are scanned as they should be is, too.      *)

LEMMA JsonFields ==
  ASSUME NEW kind \in {"value", "elements", "members"},
         NEW text \in Seq(JsonCharacters), NEW names \in SUBSET Seq(Spelt),
         NEW repeated \in SUBSET Seq(Spelt)
  PROVE  /\ Json(kind, text, names, repeated) \in JsonShapes
         /\ Json(kind, text, names, repeated).kind = kind
         /\ Json(kind, text, names, repeated).text = text
         /\ Json(kind, text, names, repeated).names = names
         /\ Json(kind, text, names, repeated).repeated = repeated
BY DEF Json, JsonShapes

LEMMA OneCharacter ==
  ASSUME NEW c \in JsonCharacters
  PROVE  <<c>> \in Seq(JsonCharacters)
OBVIOUS

LEMMA StructureIsText ==
  /\ "lbrace" \in JsonCharacters /\ "rbrace" \in JsonCharacters
  /\ "lbracket" \in JsonCharacters /\ "rbracket" \in JsonCharacters
  /\ "comma" \in JsonCharacters /\ "colon" \in JsonCharacters
  /\ "quote" \in JsonCharacters
BY DEF JsonCharacters, Structure

\* The scan comes past a value, or the values of an array, with the brackets open
\* that were before, or comes to a name for the second time within it.
ValueFound(v) ==
  \A text \in Seq(JsonCharacters), open \in Seq(Containers) : \A i, j :
     Reads(text, i, v.text, j) /\ Clear(text, j)
       => Passes(text, i, open, j, open, v.repeated)

\* Members add their names to those of the object they are of.
MembersFound(v) ==
  \A text \in Seq(JsonCharacters), open \in Seq(Containers), N \in SUBSET Seq(Spelt) :
    \A i, j :
     Reads(text, i, v.text, j) /\ Clear(text, j)
       => Passes(text, i, Append(open, Having(N)), j,
                 Append(open, Having(N \cup v.names)),
                 v.repeated \cup (N \cap v.names))

Found ==
  {v \in JsonShapes : IF v.kind = "members" THEN MembersFound(v) ELSE ValueFound(v)}

LEMMA WordFound ==
  ASSUME NEW w \in Seq(Letters)
  PROVE  Word(w) \in Found
<1> DEFINE v == Word(w)
<1>1. w \in Seq(JsonCharacters) /\ QuietFound(w)
  BY WordPasses
<1>2. v \in JsonShapes /\ v.kind = "value" /\ v.text = w /\ v.repeated = {}
  BY <1>1, JsonFields DEF Word
<1> HIDE DEF v
<1>3. ValueFound(v)
  BY <1>1, <1>2 DEF ValueFound, QuietFound
<1> QED BY <1>2, <1>3 DEF Found, v

LEMMA StringFound ==
  ASSUME NEW body \in StringBodies
  PROVE  String(body) \in Found
<1> DEFINE v == String(body)
<1>1. Quoted(body) \in Seq(JsonCharacters)
  <2>1. body.text \in Seq(JsonCharacters)
    BY DEF StringBodies
  <2> QED BY <2>1, OneCharacter, StructureIsText, ConcatProperties DEF Quoted, Enclosed
<1>2. v \in JsonShapes /\ v.kind = "value" /\ v.text = Quoted(body) /\ v.repeated = {}
  BY <1>1, JsonFields DEF String
<1> HIDE DEF v
<1>3. ValueFound(v)
  BY <1>2, StringPasses DEF ValueFound
<1> QED BY <1>2, <1>3 DEF Found, v

LEMMA EnclosedIsText ==
  ASSUME NEW c \in JsonCharacters, NEW w \in Seq(JsonCharacters),
         NEW e \in JsonCharacters
  PROVE  Enclosed(c, w, e) \in Seq(JsonCharacters)
BY OneCharacter, ConcatProperties DEF Enclosed

Opening == {"lbrace", "lbracket"}
Closing == {"rbrace", "rbracket"}

\* Wherever w stands in the text
PassesOver(text, w, open, after, repeated) ==
  \A i, j : Reads(text, i, w, j) /\ Clear(text, j)
              => Passes(text, i, open, j, after, repeated)

\* The scan comes past a text in brackets with what was open before it.
LEMMA EnclosedPasses ==
  ASSUME NEW text \in Seq(JsonCharacters), NEW open \in Seq(Containers), NEW i, NEW j,
         NEW c \in JsonCharacters, NEW w \in Seq(JsonCharacters),
         NEW e \in JsonCharacters, c \in Opening, e \in Closing,
         Reads(text, i, Enclosed(c, w, e), j),
         NEW x \in Containers, NEW repeated,
         PassesOver(text, w, Append(open, Opened(c)), Append(open, x), repeated)
  PROVE  Passes(text, i, open, j, open, repeated)
<1>1. PICK k : /\ Reads(text, i, <<c>>, i + 1) /\ Reads(text, i + 1, w, k)
               /\ Reads(text, k, <<e>>, k + 1) /\ j = k + 1
               /\ i \in 1 .. Len(text) /\ k \in 1 .. Len(text)
               /\ Character(text, i) = c /\ Character(text, k) = e
  BY ReadsBetween
<1> DEFINE o == Append(open, Opened(c))
<1>2. Passes(text, i, open, i + 1, o, {})
  BY <1>1, OpenPasses DEF Opening
<1>3. Passes(text, k, Append(open, x), j, open, {})
  BY <1>1, ClosePasses DEF Closing
<1>4. Clear(text, k)
  <2>1. k \in 1 .. Len(text) + 1
    BY <1>1, LenProperties
  <2>2. e \notin {"blank", "colon"}
    BY DEF Closing
  <2> QED BY <1>1, <2>1, <2>2, ClearNext
<1>5. Passes(text, i + 1, o, k, Append(open, x), repeated)
  BY <1>1, <1>4 DEF PassesOver
<1> HIDE DEF o
<1>6. Passes(text, i, open, k, Append(open, x), {} \cup repeated)
  BY <1>2, <1>5, PassesOn
<1>7. Passes(text, i, open, j, open, ({} \cup repeated) \cup {})
  BY <1>3, <1>6, PassesOn
<1>8. ({} \cup repeated) \cup {} = repeated
  OBVIOUS
<1> QED BY <1>7, <1>8

LEMMA EmptyFound ==
  ASSUME NEW a \in White, NEW c \in JsonCharacters, NEW e \in JsonCharacters,
         c \in Opening, e \in Closing
  PROVE  Empty(c, a, e) \in Found
<1> DEFINE v == Empty(c, a, e)
<1>0. a \in Seq(JsonCharacters) /\ QuietFound(a)
  BY WhitePasses
<1>1. Enclosed(c, a, e) \in Seq(JsonCharacters)
  BY <1>0, EnclosedIsText
<1>2. v \in JsonShapes /\ v.kind = "value" /\ v.text = Enclosed(c, a, e) /\ v.repeated = {}
  BY <1>1, JsonFields DEF Empty
<1> HIDE DEF v
<1>3. ASSUME NEW text \in Seq(JsonCharacters), NEW open \in Seq(Containers), NEW i, NEW j,
             Reads(text, i, Enclosed(c, a, e), j)
      PROVE  Passes(text, i, open, j, open, {})
  <2>1. Opened(c) \in Containers /\ Append(open, Opened(c)) \in Seq(Containers)
    BY AppendProperties DEF Opened, Containers
  <2>2. PassesOver(text, a, Append(open, Opened(c)), Append(open, Opened(c)), {})
    BY <1>0, <2>1 DEF QuietFound, PassesOver
  <2> QED BY <1>0, <1>3, <2>1, <2>2, EnclosedPasses
<1>4. ValueFound(v)
  BY <1>2, <1>3 DEF ValueFound
<1> QED BY <1>2, <1>4 DEF Found, v

LEMMA PaddedFound ==
  ASSUME NEW v \in JsonShapes, ValueFound(v), NEW a \in White, NEW b \in White
  PROVE  Padded(a, v, b) \in Found
<1> DEFINE p == Padded(a, v, b)
<1>0. /\ a \in Seq(JsonCharacters) /\ QuietFound(a)
      /\ b \in Seq(JsonCharacters) /\ QuietFound(b)
      /\ v.text \in Seq(JsonCharacters) /\ v.repeated \in SUBSET Seq(Spelt)
  BY WhitePasses DEF JsonShapes
<1>1. a \o v.text \in Seq(JsonCharacters) /\ a \o v.text \o b \in Seq(JsonCharacters)
  BY <1>0, ConcatProperties
<1>2. p \in JsonShapes /\ p.kind = "value" /\ p.text = a \o v.text \o b /\ p.repeated = v.repeated
  <2>1. PICK w \in Seq(JsonCharacters) : w = a \o v.text \o b
    BY <1>1
  <2>2. p = Json("value", w, {}, v.repeated)
    BY <2>1 DEF Padded
  <2> HIDE DEF p
  <2>3. v.repeated \in SUBSET Seq(Spelt)
    BY <1>0
  <2>4. p \in JsonShapes /\ p.kind = "value" /\ p.text = w /\ p.repeated = v.repeated
    BY <2>2, <2>3, JsonFields
  <2> QED BY <2>1, <2>4
<1> HIDE DEF p
<1>3. ASSUME NEW text \in Seq(JsonCharacters), NEW open \in Seq(Containers), NEW i, NEW j,
             Reads(text, i, a \o v.text \o b, j), Clear(text, j)
      PROVE  Passes(text, i, open, j, open, v.repeated)
  <2>1. PICK l : Reads(text, i, a \o v.text, l) /\ Reads(text, l, b, j)
    BY <1>0, <1>1, <1>3, ReadsParts
  <2>2. PICK k : Reads(text, i, a, k) /\ Reads(text, k, v.text, l)
    BY <1>0, <2>1, ReadsParts
  <2>3. Clear(text, l)
    BY <1>3, <2>1, ClearWhite
  <2>4. Passes(text, i, open, k, open, {}) /\ Passes(text, l, open, j, open, {})
    BY <1>0, <2>1, <2>2 DEF QuietFound
  <2>5. Passes(text, k, open, l, open, v.repeated)
    BY <2>2, <2>3 DEF ValueFound
  <2>6. Passes(text, i, open, l, open, {} \cup v.repeated)
    BY <2>4, <2>5, PassesOn
  <2>7. Passes(text, i, open, j, open, ({} \cup v.repeated) \cup {})
    BY <2>4, <2>6, PassesOn
  <2> QED BY <1>0, <2>7
<1>4. ValueFound(p)
  BY <1>2, <1>3 DEF ValueFound
<1> QED BY <1>2, <1>4 DEF Found, p

LEMMA SingleFound ==
  ASSUME NEW v \in JsonShapes, ValueFound(v)
  PROVE  Single(v) \in Found
<1>1. v.text \in Seq(JsonCharacters) /\ v.repeated \in SUBSET Seq(Spelt)
  BY DEF JsonShapes
<1>2. /\ Single(v) \in JsonShapes /\ Single(v).kind = "elements"
      /\ Single(v).text = v.text /\ Single(v).repeated = v.repeated
  BY <1>1, JsonFields DEF Single
<1>3. ValueFound(Single(v))
  BY <1>2 DEF ValueFound
<1> QED BY <1>2, <1>3 DEF Found

\* A comma between two texts: what is before it has no colon behind it.
LEMMA CommaBetween ==
  ASSUME NEW u \in Seq(JsonCharacters), NEW w \in Seq(JsonCharacters),
         NEW text \in Seq(JsonCharacters), NEW i, NEW j,
         Reads(text, i, u \o <<"comma">> \o w, j)
  PROVE  \E k : /\ Reads(text, i, u, k) /\ Clear(text, k) /\ Reads(text, k + 1, w, j)
                /\ \A open \in Seq(Containers) : Passes(text, k, open, k + 1, open, {})
<1>1. /\ <<"comma">> \in Seq(JsonCharacters) /\ "comma" \in JsonCharacters
      /\ u \o <<"comma">> \in Seq(JsonCharacters)
  BY OneCharacter, StructureIsText, ConcatProperties
<1>2. PICK l : Reads(text, i, u \o <<"comma">>, l) /\ Reads(text, l, w, j)
  BY <1>1, ReadsParts
<1>3. PICK k : Reads(text, i, u, k) /\ Reads(text, k, <<"comma">>, l)
  BY <1>1, <1>2, ReadsParts
<1>4. k \in 1 .. Len(text) /\ l = k + 1 /\ Character(text, k) = "comma"
  BY <1>1, <1>3, ReadsOne
<1>5. Clear(text, k)
  <2>1. k \in 1 .. Len(text) + 1
    BY <1>4, LenProperties
  <2> QED BY <1>4, <2>1, ClearNext
<1>6. \A open \in Seq(Containers) : Passes(text, k, open, k + 1, open, {})
  BY <1>4, OtherPasses DEF Busy
<1> QED BY <1>2, <1>3, <1>4, <1>5, <1>6

LEMMA SeveralFound ==
  ASSUME NEW v \in JsonShapes, ValueFound(v), NEW l \in JsonShapes, ValueFound(l)
  PROVE  Several(v, l) \in Found
<1> DEFINE p == Several(v, l)
<1>0. /\ v.text \in Seq(JsonCharacters) /\ v.repeated \in SUBSET Seq(Spelt)
      /\ l.text \in Seq(JsonCharacters) /\ l.repeated \in SUBSET Seq(Spelt)
  BY DEF JsonShapes
<1>1. v.text \o <<"comma">> \o l.text \in Seq(JsonCharacters)
  BY <1>0, OneCharacter, StructureIsText, ConcatProperties
<1>2. /\ p \in JsonShapes /\ p.kind = "elements"
      /\ p.text = v.text \o <<"comma">> \o l.text /\ p.repeated = (v.repeated \cup l.repeated)
  <2>1. PICK w \in Seq(JsonCharacters) : w = v.text \o <<"comma">> \o l.text
    BY <1>1
  <2>2. PICK r \in SUBSET Seq(Spelt) : r = v.repeated \cup l.repeated
    BY <1>0
  <2>3. p = Json("elements", w, {}, r)
    BY <2>1, <2>2 DEF Several
  <2> HIDE DEF p
  <2>4. p \in JsonShapes /\ p.kind = "elements" /\ p.text = w /\ p.repeated = r
    BY <2>3, JsonFields
  <2> QED BY <2>1, <2>2, <2>4
<1> HIDE DEF p
<1>3. ASSUME NEW text \in Seq(JsonCharacters), NEW open \in Seq(Containers), NEW i, NEW j,
             Reads(text, i, v.text \o <<"comma">> \o l.text, j), Clear(text, j)
      PROVE  Passes(text, i, open, j, open, v.repeated \cup l.repeated)
  <2>1. PICK k : /\ Reads(text, i, v.text, k) /\ Clear(text, k)
                 /\ Reads(text, k + 1, l.text, j)
                 /\ Passes(text, k, open, k + 1, open, {})
    BY <1>0, <1>3, CommaBetween
  <2>2. Passes(text, i, open, k, open, v.repeated)
    BY <2>1 DEF ValueFound
  <2>3. Passes(text, k + 1, open, j, open, l.repeated)
    BY <1>3, <2>1 DEF ValueFound
  <2>4. Passes(text, i, open, k + 1, open, v.repeated \cup {})
    BY <2>1, <2>2, PassesOn
  <2>5. Passes(text, i, open, j, open, (v.repeated \cup {}) \cup l.repeated)
    BY <2>3, <2>4, PassesOn
  <2> QED BY <1>0, <2>5
<1>4. ValueFound(p)
  BY <1>2, <1>3 DEF ValueFound
<1> QED BY <1>2, <1>4 DEF Found, p

LEMMA ArrayFound ==
  ASSUME NEW l \in JsonShapes, ValueFound(l)
  PROVE  Array(l) \in Found
<1> DEFINE v == Array(l)
<1>0. /\ l.text \in Seq(JsonCharacters) /\ l.repeated \in SUBSET Seq(Spelt)
      /\ "lbracket" \in Opening /\ "rbracket" \in Closing
      /\ "lbracket" \in JsonCharacters /\ "rbracket" \in JsonCharacters
  BY StructureIsText DEF JsonShapes, Opening, Closing
<1>1. Enclosed("lbracket", l.text, "rbracket") \in Seq(JsonCharacters)
  BY <1>0, EnclosedIsText
<1>2. /\ v \in JsonShapes /\ v.kind = "value" /\ v.repeated = l.repeated
      /\ v.text = Enclosed("lbracket", l.text, "rbracket")
  BY <1>0, <1>1, JsonFields DEF Array
<1> HIDE DEF v
<1>3. ASSUME NEW text \in Seq(JsonCharacters), NEW open \in Seq(Containers), NEW i, NEW j,
             Reads(text, i, Enclosed("lbracket", l.text, "rbracket"), j)
      PROVE  Passes(text, i, open, j, open, l.repeated)
  <2> DEFINE x == Opened("lbracket")
  <2>1. x \in Containers /\ Append(open, x) \in Seq(Containers)
    BY AppendProperties DEF Opened, Containers
  <2>2. PassesOver(text, l.text, Append(open, x), Append(open, x), l.repeated)
    <3> HIDE DEF x
    <3> QED BY <2>1 DEF ValueFound, PassesOver
  <2> QED BY <1>0, <1>3, <2>1, <2>2, EnclosedPasses
<1>4. ValueFound(v)
  BY <1>2, <1>3 DEF ValueFound
<1> QED BY <1>2, <1>4 DEF Found, v

LEMMA ObjectFound ==
  ASSUME NEW l \in JsonShapes, MembersFound(l)
  PROVE  Object(l) \in Found
<1> DEFINE v == Object(l)
<1>0. /\ l.text \in Seq(JsonCharacters) /\ l.repeated \in SUBSET Seq(Spelt)
      /\ l.names \in SUBSET Seq(Spelt)
      /\ "lbrace" \in Opening /\ "rbrace" \in Closing
      /\ "lbrace" \in JsonCharacters /\ "rbrace" \in JsonCharacters
  BY StructureIsText DEF JsonShapes, Opening, Closing
<1>1. Enclosed("lbrace", l.text, "rbrace") \in Seq(JsonCharacters)
  BY <1>0, EnclosedIsText
<1>2. /\ v \in JsonShapes /\ v.kind = "value" /\ v.repeated = l.repeated
      /\ v.text = Enclosed("lbrace", l.text, "rbrace")
  BY <1>0, <1>1, JsonFields DEF Object
<1> HIDE DEF v
<1>3. ASSUME NEW text \in Seq(JsonCharacters), NEW open \in Seq(Containers), NEW i, NEW j,
             Reads(text, i, Enclosed("lbrace", l.text, "rbrace"), j)
      PROVE  Passes(text, i, open, j, open, l.repeated)
  <2>1. Opened("lbrace") = Having({}) /\ Having(l.names) \in Containers
    BY <1>0 DEF Opened, Having, Containers
  <2>2. {} \cup l.names = l.names /\ l.repeated \cup ({} \cap l.names) = l.repeated
        /\ {} \in SUBSET Seq(Spelt)
    OBVIOUS
  <2>3. ASSUME NEW k, NEW n, Reads(text, k, l.text, n), Clear(text, n)
        PROVE  Passes(text, k, Append(open, Opened("lbrace")), n,
                      Append(open, Having(l.names)), l.repeated)
    <3>1. Passes(text, k, Append(open, Having({})), n,
                 Append(open, Having({} \cup l.names)),
                 l.repeated \cup ({} \cap l.names))
      BY <2>2, <2>3 DEF MembersFound
    <3> QED BY <2>1, <2>2, <3>1
  <2>4. PassesOver(text, l.text, Append(open, Opened("lbrace")),
                   Append(open, Having(l.names)), l.repeated)
    BY <2>3 DEF PassesOver
  <2> QED BY <1>0, <1>3, <2>1, <2>4, EnclosedPasses
<1>4. ValueFound(v)
  BY <1>2, <1>3 DEF ValueFound
<1> QED BY <1>2, <1>4 DEF Found, v

LEMMA MembersAreFound ==
  ASSUME NEW m \in JsonShapes, MembersFound(m), NEW l \in JsonShapes, MembersFound(l)
  PROVE  Members(m, l) \in Found
<1> DEFINE p == Members(m, l)
<1>0. /\ m.text \in Seq(JsonCharacters) /\ m.repeated \in SUBSET Seq(Spelt)
      /\ l.text \in Seq(JsonCharacters) /\ l.repeated \in SUBSET Seq(Spelt)
      /\ m.names \in SUBSET Seq(Spelt) /\ l.names \in SUBSET Seq(Spelt)
  BY DEF JsonShapes
<1>1. m.text \o <<"comma">> \o l.text \in Seq(JsonCharacters)
  BY <1>0, OneCharacter, StructureIsText, ConcatProperties
<1>2. /\ p \in JsonShapes /\ p.kind = "members"
      /\ p.text = m.text \o <<"comma">> \o l.text /\ p.names = m.names \cup l.names
      /\ p.repeated = m.repeated \cup l.repeated \cup (m.names \cap l.names)
  <2>1. PICK w \in Seq(JsonCharacters) : w = m.text \o <<"comma">> \o l.text
    BY <1>1
  <2>2. PICK r \in SUBSET Seq(Spelt) :
          r = m.repeated \cup l.repeated \cup (m.names \cap l.names)
    BY <1>0
  <2>3. PICK n \in SUBSET Seq(Spelt) : n = m.names \cup l.names
    BY <1>0
  <2>4. p = Json("members", w, n, r)
    BY <2>1, <2>2, <2>3 DEF Members
  <2> HIDE DEF p
  <2>5. p \in JsonShapes /\ p.kind = "members" /\ p.text = w /\ p.names = n /\ p.repeated = r
    BY <2>4, JsonFields
  <2> QED BY <2>1, <2>2, <2>3, <2>5
<1> HIDE DEF p
<1>3. ASSUME NEW text \in Seq(JsonCharacters), NEW open \in Seq(Containers), NEW i, NEW j,
             NEW N \in SUBSET Seq(Spelt),
             Reads(text, i, m.text \o <<"comma">> \o l.text, j), Clear(text, j)
      PROVE  Passes(text, i, Append(open, Having(N)), j,
                    Append(open, Having(N \cup p.names)),
                    p.repeated \cup (N \cap p.names))
  <2> DEFINE M == N \cup m.names
             before == Append(open, Having(N))
             between == Append(open, Having(M))
             after == Append(open, Having(M \cup l.names))
  <2>0. M \in SUBSET Seq(Spelt) /\ M \cup l.names = N \cup p.names
    BY <1>0, <1>2
  <2>1. between \in Seq(Containers)
    <3>1. Having(M) \in Containers
      BY <2>0 DEF Having, Containers
    <3> QED BY <3>1, AppendProperties
  <2>2. PICK k : /\ Reads(text, i, m.text, k) /\ Clear(text, k)
                 /\ Reads(text, k + 1, l.text, j)
                 /\ Passes(text, k, between, k + 1, between, {})
    <3> HIDE DEF between
    <3> QED BY <1>0, <1>3, <2>1, CommaBetween
  <2>3. Passes(text, i, before, k, between, m.repeated \cup (N \cap m.names))
    BY <2>2 DEF MembersFound
  <2>4. Passes(text, k + 1, between, j, after, l.repeated \cup (M \cap l.names))
    <3> HIDE DEF M
    <3> QED BY <1>3, <2>0, <2>2 DEF MembersFound
  <2> HIDE DEF before, between, after
  <2>5. Passes(text, i, before, k + 1, between, (m.repeated \cup (N \cap m.names)) \cup {})
    BY <2>2, <2>3, PassesOn
  <2>6. Passes(text, i, before, j, after,
               ((m.repeated \cup (N \cap m.names)) \cup {})
                 \cup (l.repeated \cup (M \cap l.names)))
    BY <2>4, <2>5, PassesOn
  <2>7. ((m.repeated \cup (N \cap m.names)) \cup {})
           \cup (l.repeated \cup (M \cap l.names))
        = p.repeated \cup (N \cap p.names)
    BY <1>2
  <2> QED BY <2>0, <2>6, <2>7 DEF before, after
<1>4. MembersFound(p)
  BY <1>2, <1>3 DEF MembersFound
<1> QED BY <1>2, <1>4 DEF Found, p

LEMMA MemberFound ==
  ASSUME NEW v \in JsonShapes, ValueFound(v), NEW a \in White, NEW b \in White,
         NEW name \in StringBodies
  PROVE  Member(a, name, b, v) \in Found
<1> DEFINE p == Member(a, name, b, v)
           q == Quoted(name)
<1>0. /\ v.text \in Seq(JsonCharacters) /\ v.repeated \in SUBSET Seq(Spelt)
      /\ a \in Seq(JsonCharacters) /\ QuietFound(a)
      /\ b \in Seq(JsonCharacters) /\ QuietFound(b)
      /\ name.text \in Seq(JsonCharacters) /\ name.is \in Seq(Spelt)
      /\ "colon" \in JsonCharacters
  BY WhitePasses, StructureIsText DEF JsonShapes, StringBodies
<1>1. /\ q \in Seq(JsonCharacters) /\ <<"colon">> \in Seq(JsonCharacters)
      /\ a \o q \in Seq(JsonCharacters) /\ a \o q \o b \in Seq(JsonCharacters)
      /\ a \o q \o b \o <<"colon">> \in Seq(JsonCharacters)
      /\ a \o q \o b \o <<"colon">> \o v.text \in Seq(JsonCharacters)
  <2>1. q \in Seq(JsonCharacters)
    BY <1>0, EnclosedIsText, StructureIsText DEF Quoted
  <2> HIDE DEF q
  <2>2. <<"colon">> \in Seq(JsonCharacters)
    BY <1>0, OneCharacter
  <2>3. a \o q \in Seq(JsonCharacters)
    BY <1>0, <2>1, ConcatProperties
  <2>4. a \o q \o b \in Seq(JsonCharacters)
    BY <1>0, <2>3, ConcatProperties
  <2>5. a \o q \o b \o <<"colon">> \in Seq(JsonCharacters)
    BY <2>2, <2>4, ConcatProperties
  <2>6. a \o q \o b \o <<"colon">> \o v.text \in Seq(JsonCharacters)
    BY <1>0, <2>5, ConcatProperties
  <2> QED BY <2>1, <2>2, <2>3, <2>4, <2>5, <2>6
<1>2. /\ p \in JsonShapes /\ p.kind = "members"
      /\ p.text = a \o q \o b \o <<"colon">> \o v.text /\ p.names = {name.is}
      /\ p.repeated = v.repeated
  <2>1. PICK w \in Seq(JsonCharacters) : w = a \o q \o b \o <<"colon">> \o v.text
    BY <1>1
  <2>2. PICK n \in SUBSET Seq(Spelt) : n = {name.is}
    BY <1>0
  <2>3. p = Json("members", w, n, v.repeated)
    BY <2>1, <2>2 DEF Member
  <2> HIDE DEF p, q
  <2>4. v.repeated \in SUBSET Seq(Spelt)
    BY <1>0
  <2>5. /\ p \in JsonShapes /\ p.kind = "members" /\ p.text = w /\ p.names = n
        /\ p.repeated = v.repeated
    BY <2>3, <2>4, JsonFields
  <2> QED BY <2>1, <2>2, <2>5
<1> HIDE DEF p
<1>3. ASSUME NEW text \in Seq(JsonCharacters), NEW open \in Seq(Containers), NEW i, NEW j,
             NEW N \in SUBSET Seq(Spelt),
             Reads(text, i, a \o q \o b \o <<"colon">> \o v.text, j), Clear(text, j)
      PROVE  Passes(text, i, Append(open, Having(N)), j,
                    Append(open, Having(N \cup {name.is})),
                    v.repeated \cup (N \cap {name.is}))
  <2> DEFINE before == Append(open, Having(N))
             after == Append(open, Having(N \cup {name.is}))
  <2>0. before \in Seq(Containers) /\ after \in Seq(Containers)
    <3>1. Having(N) \in Containers /\ Having(N \cup {name.is}) \in Containers
      BY <1>0 DEF Having, Containers
    <3> QED BY <3>1, AppendProperties
  <2>1. PICK i4, i3, i2, i1 :
          /\ Reads(text, i, a, i1) /\ Reads(text, i1, q, i2) /\ Reads(text, i2, b, i3)
          /\ Reads(text, i3, <<"colon">>, i4) /\ Reads(text, i4, v.text, j)
    <3> HIDE DEF q
    <3>1. PICK i4 : /\ Reads(text, i, a \o q \o b \o <<"colon">>, i4)
                    /\ Reads(text, i4, v.text, j)
      BY <1>0, <1>1, <1>3, ReadsParts
    <3>2. PICK i3 : Reads(text, i, a \o q \o b, i3) /\ Reads(text, i3, <<"colon">>, i4)
      BY <1>0, <1>1, <3>1, ReadsParts
    <3>3. PICK i2 : Reads(text, i, a \o q, i2) /\ Reads(text, i2, b, i3)
      BY <1>0, <1>1, <3>2, ReadsParts
    <3>4. PICK i1 : Reads(text, i, a, i1) /\ Reads(text, i1, q, i2)
      BY <1>0, <1>1, <3>3, ReadsParts
    <3> QED BY <3>1, <3>2, <3>3, <3>4
  <2>2. i3 \in 1 .. Len(text) /\ i4 = i3 + 1 /\ Character(text, i3) = "colon"
    BY <1>0, <2>1, ReadsOne
  <2>3. ~ Clear(text, i2)
    <3>1. i3 \in 1 .. Len(text) + 1
      BY <2>2, LenProperties
    <3>2. Behind(text, i3 - 1) = i3
      BY <2>2, <3>1, BehindNext
    <3>3. Behind(text, i2 - 1) = Behind(text, i3 - 1)
      BY <2>1, BehindWhite
    <3> QED BY <2>2, <3>2, <3>3 DEF Clear
  <2>4. Passes(text, i1, before, i2, after, {name.is} \cap N)
    BY <2>1, <2>3, NamePasses
  <2> HIDE DEF before, after, q
  <2>5. Passes(text, i, before, i1, before, {}) /\ Passes(text, i2, after, i3, after, {})
    BY <1>0, <2>0, <2>1 DEF QuietFound
  <2>6. Passes(text, i3, after, i4, after, {})
    BY <2>0, <2>2, OtherPasses DEF Busy
  <2>7. Passes(text, i4, after, j, after, v.repeated)
    BY <1>3, <2>0, <2>1 DEF ValueFound
  <2>8. Passes(text, i, before, i2, after, {} \cup ({name.is} \cap N))
    BY <2>4, <2>5, PassesOn
  <2>9. Passes(text, i, before, i3, after, ({} \cup ({name.is} \cap N)) \cup {})
    BY <2>5, <2>8, PassesOn
  <2>10. Passes(text, i, before, i4, after, (({} \cup ({name.is} \cap N)) \cup {}) \cup {})
    BY <2>6, <2>9, PassesOn
  <2>11. Passes(text, i, before, j, after,
                ((({} \cup ({name.is} \cap N)) \cup {}) \cup {}) \cup v.repeated)
    BY <2>7, <2>10, PassesOn
  <2>12. ((({} \cup ({name.is} \cap N)) \cup {}) \cup {}) \cup v.repeated
         = v.repeated \cup (N \cap {name.is})
    OBVIOUS
  <2> QED BY <2>11, <2>12 DEF before, after
<1>4. MembersFound(p)
  <2> HIDE DEF q
  <2> QED BY <1>2, <1>3 DEF MembersFound
<1> QED BY <1>2, <1>4 DEF Found, p

\* So it is with every text of a JSON value.
LEMMA PartsFound == JsonParts \subseteq Found
<1>1. \A text \in Seq(Letters) : Word(text) \in Found
  BY WordFound
<1>2. \A body \in StringBodies : String(body) \in Found
  BY StringFound
<1>3. ASSUME NEW a \in White
      PROVE  /\ Empty("lbracket", a, "rbracket") \in Found
             /\ Empty("lbrace", a, "rbrace") \in Found
  <2>1. /\ "lbracket" \in Opening /\ "rbracket" \in Closing
        /\ "lbrace" \in Opening /\ "rbrace" \in Closing
    BY DEF Opening, Closing
  <2> QED BY <2>1, StructureIsText, EmptyFound
<1>4. ASSUME NEW v \in Found PROVE v \in JsonShapes
  BY DEF Found
<1>5. ASSUME NEW v \in Found, v.kind \in {"value", "elements"} PROVE ValueFound(v)
  BY <1>5 DEF Found
<1>6. ASSUME NEW v \in Found, v.kind = "members" PROVE MembersFound(v)
  BY <1>6 DEF Found
<1>7. ASSUME NEW v \in Found, v.kind = "value"
      PROVE  /\ \A a, b \in White : Padded(a, v, b) \in Found
             /\ Single(v) \in Found
             /\ \A l \in Found : l.kind = "elements" => Several(v, l) \in Found
             /\ \A a, b \in White, name \in StringBodies : Member(a, name, b, v) \in Found
  <2>1. v \in JsonShapes /\ ValueFound(v)
    BY <1>4, <1>5, <1>7
  <2>2. \A a, b \in White : Padded(a, v, b) \in Found
    BY <2>1, PaddedFound
  <2>3. Single(v) \in Found
    BY <2>1, SingleFound
  <2>4. ASSUME NEW l \in Found, l.kind = "elements" PROVE Several(v, l) \in Found
    BY <1>4, <1>5, <2>1, <2>4, SeveralFound
  <2>5. \A a, b \in White, name \in StringBodies : Member(a, name, b, v) \in Found
    BY <2>1, MemberFound
  <2> QED BY <2>2, <2>3, <2>4, <2>5
<1>8. ASSUME NEW l \in Found, l.kind = "elements" PROVE Array(l) \in Found
  BY <1>4, <1>5, <1>8, ArrayFound
<1>9. ASSUME NEW l \in Found, l.kind = "members"
      PROVE  /\ Object(l) \in Found
             /\ \A m \in Found : m.kind = "members" => Members(m, l) \in Found
  <2>1. l \in JsonShapes /\ MembersFound(l)
    BY <1>4, <1>6, <1>9
  <2>2. Object(l) \in Found
    BY <2>1, ObjectFound
  <2>3. ASSUME NEW m \in Found, m.kind = "members" PROVE Members(m, l) \in Found
    BY <1>4, <1>6, <2>1, <2>3, MembersAreFound
  <2> QED BY <2>2, <2>3
<1>10. HasTexts(Found)
  BY <1>1, <1>2, <1>3, <1>7, <1>8, <1>9 DEF HasTexts
<1> QED BY <1>10 DEF JsonParts

-----------------------------------------------------------------------------
(* The scan itself.                                                        *)

\* As long as it goes on, the scan is at a place from which it comes to a name for
\* the second time if there is one, and to the end otherwise.
ScanInv ==
  /\ source \in Sources
  /\ index \in 1 .. Len(source.text) + 1
  /\ verdict \in {"scanning", "accepted", "duplicate"}
  /\ verdict = "scanning" =>
       <<index, containers>> \in Leads(source.text, source.repeated)
  /\ verdict = "accepted" => containers = <<>> /\ source.repeated = {}
  /\ verdict = "duplicate" => source.repeated # {}

\* There is one way to go on,
LEMMA GoesOneWay ==
  ASSUME NEW text \in Seq(JsonCharacters), NEW i, NEW open, NEW j, NEW after,
         NEW k, NEW other, Goes(text, i, open, j, after), Goes(text, i, open, k, other)
  PROVE  k = j /\ other = after
BY DEF Goes

\* and only where the scan neither ends nor finds a name again.
LEMMA GoesAlone ==
  ASSUME NEW text \in Seq(JsonCharacters), NEW i, NEW open, NEW j, NEW after,
         Goes(text, i, open, j, after)
  PROVE  Character(text, i) # "none" /\ ~ Repeats(text, i, open)
BY DEF Goes, Repeats

\* The scan stays at such places.
LEMMA LeadsOnward ==
  ASSUME NEW text \in Seq(JsonCharacters), NEW repeated, NEW i, NEW open,
         <<i, open>> \in Leads(text, repeated), NEW j, NEW after,
         Goes(text, i, open, j, after)
  PROVE  /\ <<j, after>> \in Leads(text, repeated)
         /\ j \in 1 .. Len(text) + 1
<1>1. i # Len(text) + 1
  <2>1. Character(text, Len(text) + 1) = "none"
    <3>1. Len(text) \in Nat
      BY LenProperties
    <3>2. Len(text) + 1 \in Nat /\ Len(text) + 1 \notin 1 .. Len(text)
      BY <3>1
    <3> QED BY <3>2, CharacterType
  <2> QED BY <2>1, GoesAlone
<1>2. ~ Repeats(text, i, open)
  BY GoesAlone
<1>3. PICK k, other : Goes(text, i, open, k, other) /\ <<k, other>> \in Leads(text, repeated)
  BY <1>1, <1>2, LeadsOn
<1>4. k = j /\ other = after
  BY <1>3, GoesOneWay
<1>5. <<j, after>> \in Leads(text, repeated)
  BY <1>3, <1>4
<1> QED BY <1>5 DEF Leads, Places

LEMMA ScanStarts ==
  ASSUME Sources \subseteq JsonValues, ScanInit
  PROVE  ScanInv
<1> DEFINE text == source.text
<1>0. source \in Sources /\ source \in Found /\ source.kind = "value"
  BY PartsFound DEF ScanInit, JsonValues
<1>1. text \in Seq(JsonCharacters) /\ ValueFound(source)
  BY <1>0 DEF Found, JsonShapes
<1>2. Len(text) \in Nat /\ Len(text) + 1 \in 1 .. Len(text) + 1
  BY <1>1, LenProperties
<1>3. Reads(text, 1, text, Len(text) + 1)
  <2>1. ASSUME NEW k \in 1 .. Len(text) PROVE Character(text, 1 + k - 1) = text[k]
    <3>1. 1 + k - 1 = k
      BY <1>2
    <3>2. k \in DOMAIN text
      BY <1>1, LenProperties
    <3> HIDE DEF text
    <3> QED BY <3>1, <3>2 DEF Character
  <2> HIDE DEF text
  <2> QED BY <1>2, <2>1 DEF Reads
<1>4. Clear(text, Len(text) + 1)
  <2>1. Character(text, Len(text) + 1) = "none"
    BY <1>1, <1>2, CharacterType
  <2> HIDE DEF text
  <2> QED BY <1>1, <1>2, <2>1, ClearNext
<1>5. <<>> \in Seq(Containers)
  BY EmptySeq
<1>6. Passes(text, 1, <<>>, Len(text) + 1, <<>>, source.repeated)
  BY <1>1, <1>3, <1>4, <1>5 DEF ValueFound
<1>7. source.repeated = {} => <<Len(text) + 1, <<>>>> \in Leads(text, source.repeated)
  BY <1>1, LeadsBackwards DEF Backwards
<1>8. <<1, <<>>>> \in Leads(text, source.repeated)
  BY <1>6, <1>7 DEF Passes
<1>9. index = 1 /\ containers = <<>> /\ verdict = "scanning" /\ 1 \in 1 .. Len(text) + 1
  BY <1>2 DEF ScanInit
<1> QED BY <1>0, <1>8, <1>9 DEF ScanInv

LEMMA ScanGoesOn ==
  ASSUME Sources \subseteq JsonValues, ScanInv, verdict = "scanning",
         Goes(source.text, index, containers, index', containers'),
         verdict' = "scanning", source' = source
  PROVE  ScanInv'
<1>1. source.text \in Seq(JsonCharacters)
  BY DEF ScanInv, JsonValues, JsonParts, JsonShapes
<1>2. <<index, containers>> \in Leads(source.text, source.repeated)
  BY DEF ScanInv
<1>3. /\ <<index', containers'>> \in Leads(source.text, source.repeated)
      /\ index' \in 1 .. Len(source.text) + 1
  BY <1>1, <1>2, LeadsOnward
<1> QED BY <1>3 DEF ScanInv

LEMMA ScanContinues ==
  ASSUME Sources \subseteq JsonValues, ScanInv, [ScanNext]_scanVars
  PROVE  ScanInv'
<1>0. ASSUME verdict = "scanning"
      PROVE  /\ source.text \in Seq(JsonCharacters)
             /\ <<index, containers>> \in Leads(source.text, source.repeated)
  BY <1>0 DEF ScanInv, JsonValues, JsonParts, JsonShapes
<1>1. ASSUME OpenBracket PROVE ScanInv'
  <2>1. Goes(source.text, index, containers, index', containers')
    BY <1>1 DEF OpenBracket, Goes, At
  <2> QED BY <1>1, <2>1, ScanGoesOn DEF OpenBracket
<1>2. ASSUME CloseBracket PROVE ScanInv'
  <2>1. Goes(source.text, index, containers, index', containers')
    BY <1>2 DEF CloseBracket, Goes, At
  <2> QED BY <1>2, <2>1, ScanGoesOn DEF CloseBracket
<1>3. ASSUME OtherCharacter PROVE ScanInv'
  <2>1. Goes(source.text, index, containers, index', containers')
    BY <1>3 DEF OtherCharacter, Goes, At
  <2> QED BY <1>3, <2>1, ScanGoesOn DEF OtherCharacter
<1>4. ASSUME StringValue PROVE ScanInv'
  <2>1. Goes(source.text, index, containers, index', containers')
    BY <1>4 DEF StringValue, Goes, At
  <2> QED BY <1>4, <2>1, ScanGoesOn DEF StringValue
<1>5. ASSUME StringName PROVE ScanInv'
  <2> DEFINE text == source.text
             end == EndOfString(text, index)
             key == Name(text, index, end)
  <2>0. /\ verdict = "scanning" /\ Character(text, index) = "quote"
        /\ IsName(text, end, containers) /\ index' = end + 1 /\ source' = source
    BY <1>5 DEF StringName, At
  <2>1. CASE key \in Last(containers).names
    <3>1. verdict' = "duplicate" /\ containers' = containers
      BY <1>5, <2>1 DEF StringName
    <3>2. ~ \E j, after : Goes(text, index, containers, j, after)
      BY <2>0, <2>1 DEF Goes
    <3>3. /\ text \in Seq(JsonCharacters)
          /\ <<index, containers>> \in Leads(text, source.repeated)
      BY <1>0, <2>0
    <3>4. index # Len(text) + 1
      <4>1. Character(text, Len(text) + 1) = "none"
        <5>1. Len(text) \in Nat
          BY <3>3, LenProperties
        <5>2. Len(text) + 1 \in Nat /\ Len(text) + 1 \notin 1 .. Len(text)
          BY <5>1
        <5> QED BY <3>3, <5>2, CharacterType
      <4> QED BY <2>0, <4>1
    <3>5. source.repeated # {} /\ Repeats(text, index, containers)
      <4> HIDE DEF text
      <4> QED BY <3>2, <3>3, <3>4, LeadsOn
    <3>6. index' \in 1 .. Len(text) + 1
      BY <2>0, <3>5 DEF Repeats
    <3> QED BY <2>0, <3>1, <3>5, <3>6 DEF ScanInv
  <2>2. CASE key \notin Last(containers).names
    <3>1. verdict' = verdict /\ containers' = WithKey(containers, key)
      BY <1>5, <2>2 DEF StringName
    <3>2. Goes(text, index, containers, index', containers')
      BY <2>0, <2>2, <3>1 DEF Goes
    <3> QED BY <2>0, <3>1, <3>2, ScanGoesOn
  <2> QED BY <2>1, <2>2
<1>6. ASSUME AcceptText PROVE ScanInv'
  <2>1. /\ verdict = "scanning" /\ Character(source.text, index) = "none"
        /\ verdict' = "accepted" /\ UNCHANGED <<source, index, containers>>
    BY <1>6 DEF AcceptText, At
  <2>2. /\ source.text \in Seq(JsonCharacters)
        /\ <<index, containers>> \in Leads(source.text, source.repeated)
    BY <1>0, <2>1
  <2>3. ~ Repeats(source.text, index, containers)
    BY <2>1 DEF Repeats
  <2>4. source.repeated = {} /\ containers = <<>>
    BY <2>1, <2>2, <2>3, LeadsOn, GoesAlone
  <2> QED BY <2>1, <2>4 DEF ScanInv
<1>7. CASE UNCHANGED scanVars
  BY <1>7 DEF scanVars, ScanInv
<1> QED BY <1>1, <1>2, <1>3, <1>4, <1>5, <1>6, <1>7 DEF ScanNext

\* The scan refuses exactly the texts of JSON values in which an object names two of
\* its members alike, of any depth and length and over any characters.
THEOREM ScanExact ==
  ASSUME Sources \subseteq JsonValues
  PROVE  ScanSpec => []ScanIsExact
<1>1. ScanInit => ScanInv
  BY ScanStarts
<1>2. ScanInv /\ [ScanNext]_scanVars => ScanInv'
  BY ScanContinues
<1>3. ScanInv => ScanIsExact
  BY DEF ScanInv, ScanIsExact, ScanTypeOK
<1> QED BY <1>1, <1>2, <1>3, PTL DEF ScanSpec

-----------------------------------------------------------------------------
(* What all texts of JSON values are said to be.                           *)

LEMMA ShortTexts ==
  ASSUME NEW c \in JsonCharacters
  PROVE  /\ <<c>> \in Seq(JsonCharacters) /\ <<"escape", c>> \in Seq(JsonCharacters)
         /\ <<c>> \in Seq(Spelt) /\ <<Unescaped(c)>> \in Seq(Spelt)
<1>1. "escape" \in JsonCharacters /\ c \in Spelt /\ Unescaped(c) \in Spelt
  BY DEF JsonCharacters, Structure, Spelt
<1>2. PICK u \in Spelt : u = Unescaped(c)
  BY <1>1
<1> QED BY <1>1, <1>2

\* The least sets that StringBodies and JsonParts are have themselves what is
\* asked of them: every text that the grammar builds is among the texts.
LEMMA BodiesBuilt == HasBodies(StringBodies)
<1>1. NoBody \in StringBodies
  BY EmptySeq DEF NoBody, StringBodies, HasBodies
<1>2. ASSUME NEW c \in JsonCharacters, NEW body \in StringBodies, c \notin {"quote", "escape"}
      PROVE  Plainly(c, body) \in StringBodies
  <2>1. Plainly(c, body) \in [text : Seq(JsonCharacters), is : Seq(Spelt)]
    <3>1. body.text \in Seq(JsonCharacters) /\ body.is \in Seq(Spelt)
      BY DEF StringBodies
    <3>2. <<c>> \o body.text \in Seq(JsonCharacters) /\ <<c>> \o body.is \in Seq(Spelt)
      BY <3>1, ShortTexts, ConcatProperties
    <3> QED BY <3>2 DEF Plainly
  <2>2. ASSUME NEW K, HasBodies(K) PROVE Plainly(c, body) \in K
    BY <1>2, <2>2 DEF StringBodies, HasBodies
  <2> QED BY <2>1, <2>2 DEF StringBodies
<1>3. ASSUME NEW c \in JsonCharacters, NEW body \in StringBodies
      PROVE  Escaped(c, body) \in StringBodies
  <2>1. Escaped(c, body) \in [text : Seq(JsonCharacters), is : Seq(Spelt)]
    <3>1. body.text \in Seq(JsonCharacters) /\ body.is \in Seq(Spelt)
      BY DEF StringBodies
    <3>2. /\ <<"escape", c>> \o body.text \in Seq(JsonCharacters)
          /\ <<Unescaped(c)>> \o body.is \in Seq(Spelt)
      BY <3>1, ShortTexts, ConcatProperties
    <3> QED BY <3>2 DEF Escaped
  <2>2. ASSUME NEW K, HasBodies(K) PROVE Escaped(c, body) \in K
    BY <2>2 DEF StringBodies, HasBodies
  <2> QED BY <2>1, <2>2 DEF StringBodies
<1> QED BY <1>1, <1>2, <1>3 DEF HasBodies

LEMMA PartsBuilt == HasTexts(JsonParts)
<1>0. ASSUME NEW p \in Found, \A K : HasTexts(K) => p \in K
      PROVE  p \in JsonParts
  BY <1>0 DEF Found, JsonParts
<1>1. ASSUME NEW p \in JsonParts
      PROVE  /\ p \in JsonShapes
             /\ p.kind = "members" => MembersFound(p)
             /\ p.kind # "members" => ValueFound(p)
             /\ \A K : HasTexts(K) => p \in K
  BY PartsFound DEF Found, JsonParts
<1>2. \A text \in Seq(Letters) : Word(text) \in JsonParts
  BY <1>0, WordFound DEF HasTexts
<1>3. \A body \in StringBodies : String(body) \in JsonParts
  BY <1>0, StringFound DEF HasTexts
<1>4. ASSUME NEW a \in White
      PROVE  Empty("lbracket", a, "rbracket") \in JsonParts /\ Empty("lbrace", a, "rbrace") \in JsonParts
  <2>1. /\ "lbracket" \in Opening /\ "lbrace" \in Opening
        /\ "rbracket" \in Closing /\ "rbrace" \in Closing
    BY DEF Opening, Closing
  <2>2. Empty("lbracket", a, "rbracket") \in Found /\ Empty("lbrace", a, "rbrace") \in Found
    BY <2>1, EmptyFound, StructureIsText
  <2> QED BY <1>0, <2>2 DEF HasTexts
<1>5. ASSUME NEW v \in JsonParts, v.kind = "value"
      PROVE  /\ \A a, b \in White : Padded(a, v, b) \in JsonParts
             /\ Single(v) \in JsonParts
             /\ \A l \in JsonParts : l.kind = "elements" => Several(v, l) \in JsonParts
             /\ \A a, b \in White, name \in StringBodies : Member(a, name, b, v) \in JsonParts
  <2>1. v \in JsonShapes /\ ValueFound(v) /\ \A K : HasTexts(K) => v \in K
    BY <1>1, <1>5
  <2>2. ASSUME NEW a \in White, NEW b \in White PROVE Padded(a, v, b) \in JsonParts
    <3>1. Padded(a, v, b) \in Found
      BY <2>1, PaddedFound
    <3> QED BY <1>0, <1>5, <2>1, <3>1 DEF HasTexts
  <2>3. Single(v) \in JsonParts
    <3>1. Single(v) \in Found
      BY <2>1, SingleFound
    <3> QED BY <1>0, <1>5, <2>1, <3>1 DEF HasTexts
  <2>4. ASSUME NEW l \in JsonParts, l.kind = "elements" PROVE Several(v, l) \in JsonParts
    <3>1. l \in JsonShapes /\ ValueFound(l) /\ \A K : HasTexts(K) => l \in K
      BY <1>1, <2>4
    <3>2. Several(v, l) \in Found
      BY <2>1, <3>1, SeveralFound
    <3> QED BY <1>0, <1>5, <2>1, <2>4, <3>1, <3>2 DEF HasTexts
  <2>5. ASSUME NEW a \in White, NEW b \in White, NEW name \in StringBodies
        PROVE  Member(a, name, b, v) \in JsonParts
    <3>1. Member(a, name, b, v) \in Found
      BY <2>1, MemberFound
    <3> QED BY <1>0, <1>5, <2>1, <3>1 DEF HasTexts
  <2> QED BY <2>2, <2>3, <2>4, <2>5
<1>6. ASSUME NEW l \in JsonParts, l.kind = "elements"
      PROVE  Array(l) \in JsonParts
  <2>1. l \in JsonShapes /\ ValueFound(l) /\ \A K : HasTexts(K) => l \in K
    BY <1>1, <1>6
  <2>2. Array(l) \in Found
    BY <2>1, ArrayFound
  <2> QED BY <1>0, <1>6, <2>1, <2>2 DEF HasTexts
<1>7. ASSUME NEW l \in JsonParts, l.kind = "members"
      PROVE  /\ Object(l) \in JsonParts
             /\ \A m \in JsonParts : m.kind = "members" => Members(m, l) \in JsonParts
  <2>1. l \in JsonShapes /\ MembersFound(l) /\ \A K : HasTexts(K) => l \in K
    BY <1>1, <1>7
  <2>2. Object(l) \in JsonParts
    <3>1. Object(l) \in Found
      BY <2>1, ObjectFound
    <3> QED BY <1>0, <1>7, <2>1, <3>1 DEF HasTexts
  <2>3. ASSUME NEW m \in JsonParts, m.kind = "members" PROVE Members(m, l) \in JsonParts
    <3>1. m \in JsonShapes /\ MembersFound(m) /\ \A K : HasTexts(K) => m \in K
      BY <1>1, <2>3
    <3>2. Members(m, l) \in Found
      BY <2>1, <3>1, MembersAreFound
    <3> QED BY <1>0, <1>7, <2>1, <2>3, <3>1, <3>2 DEF HasTexts
  <2> QED BY <2>2, <2>3
<1> QED BY <1>2, <1>3, <1>4, <1>5, <1>6, <1>7 DEF HasTexts

-----------------------------------------------------------------------------
(* The texts TLC scans are texts of JSON values.                           *)

\* A function on the numbers may be defined by its first value and by what each
\* makes of the next.
Maps(R) == [R -> R]

LEMMA NatRecursion ==
  ASSUME NEW R, NEW a \in R, NEW H \in Maps(R)
  PROVE  \E f \in [Nat -> R] : f[0] = a /\ \A n \in Nat : f[n + 1] = H[f[n]]
<1> DEFINE zeros(n) == [i \in 1 .. n |-> 0]
<1>1. PICK G \in Steps(R, {0}) : \A r \in R, e \in {0} : G[<<r, e>>] = H[r]
  <2>1. [p \in R \X {0} |-> H[p[1]]] \in [R \X {0} -> R]
    BY DEF Maps
  <2> QED BY <2>1 DEF Steps
<1>2. PICK F \in [Seq({0}) -> R] : ComputedBy(F, {0}, a, G)
  BY Recursion
<1>3. ASSUME NEW n \in Nat
      PROVE  zeros(n) \in Seq({0}) /\ zeros(n + 1) = Append(zeros(n), 0)
  <2>1. zeros(n) \in Seq({0}) /\ Len(zeros(n)) = n
    OBVIOUS
  <2>2. /\ Append(zeros(n), 0) \in Seq({0}) /\ Len(Append(zeros(n), 0)) = n + 1
        /\ \A i \in 1 .. n + 1 : Append(zeros(n), 0)[i] = 0
    BY <2>1, AppendProperties
  <2>3. zeros(n + 1) \in Seq({0}) /\ Len(zeros(n + 1)) = n + 1
        /\ \A i \in 1 .. n + 1 : zeros(n + 1)[i] = 0
    OBVIOUS
  <2> HIDE DEF zeros
  <2> QED BY <2>1, <2>2, <2>3, SeqEqual
<1>4. zeros(0) = <<>>
  OBVIOUS
<1> DEFINE f == [n \in Nat |-> F[zeros(n)]]
<1> HIDE DEF zeros
<1>5. f \in [Nat -> R]
  BY <1>2, <1>3
<1>6. f[0] = a
  BY <1>2, <1>4 DEF ComputedBy
<1>7. ASSUME NEW n \in Nat PROVE f[n + 1] = H[f[n]]
  <2>1. f[n + 1] = G[<<f[n], 0>>]
    <3>1. F[Append(zeros(n), 0)] = G[<<F[zeros(n)], 0>>]
      BY <1>2, <1>3 DEF ComputedBy
    <3>2. n + 1 \in Nat /\ f[n + 1] = F[zeros(n + 1)] /\ f[n] = F[zeros(n)]
      OBVIOUS
    <3> QED BY <1>3, <3>1, <3>2
  <2>2. f[n] \in R
    BY <1>5
  <2> QED BY <1>1, <2>1, <2>2
<1> QED BY <1>5, <1>6, <1>7

LEMMA BodiesAreBodies ==
  ASSUME {"a", "u", "1"} \subseteq Letters, NEW m \in Nat
  PROVE  Bodies[m] \subseteq StringBodies
<1> DEFINE More(X) ==
             {NoBody}
               \cup {Plainly(c, body) : c \in {"a", "lbrace", "colon"}, body \in X}
               \cup {Escaped(c, body) : c \in {"u", "quote", "escape"}, body \in X}
           R == SUBSET StringBodies
           Step(f) == [n \in Nat |-> IF n = 0 THEN {NoBody} ELSE More(f[n - 1])]
           bodies == CHOOSE f : f = Step(f)
<1>1. {NoBody} \in R
  BY BodiesBuilt DEF HasBodies
<1>2. ASSUME NEW X \in R PROVE More(X) \in R
  <2>1. /\ {"a", "lbrace", "colon", "u", "quote", "escape"} \subseteq JsonCharacters
        /\ {"a", "lbrace", "colon"} \cap {"quote", "escape"} = {}
    BY DEF JsonCharacters, Structure
  <2>2. \A c \in {"a", "lbrace", "colon"}, body \in X : Plainly(c, body) \in StringBodies
    BY <2>1, BodiesBuilt DEF HasBodies
  <2>3. \A c \in {"u", "quote", "escape"}, body \in X : Escaped(c, body) \in StringBodies
    BY <2>1, BodiesBuilt DEF HasBodies
  <2> QED BY <1>1, <2>2, <2>3
<1> HIDE DEF More
<1>3. PICK H \in Maps(R) : \A X \in R : H[X] = More(X)
  <2>1. [X \in R |-> More(X)] \in Maps(R)
    BY <1>2 DEF Maps
  <2> QED BY <2>1
<1>4. PICK f \in [Nat -> R] : f[0] = {NoBody} /\ \A n \in Nat : f[n + 1] = H[f[n]]
  <2> HIDE DEF R
  <2> QED BY <1>1, NatRecursion
<1>5. f = Step(f)
  <2>1. ASSUME NEW n \in Nat PROVE f[n] = Step(f)[n]
    <3>1. CASE n = 0
      BY <1>4, <3>1
    <3>2. CASE n # 0
      <4>1. n - 1 \in Nat /\ (n - 1) + 1 = n
        BY <3>2
      <4>2. f[n] = H[f[n - 1]] /\ f[n - 1] \in R
        BY <1>4, <4>1
      <4> QED BY <1>3, <3>2, <4>2
    <3> QED BY <3>1, <3>2
  <2> QED BY <2>1
<1>6. bodies = Step(bodies)
  <2> HIDE DEF Step
  <2> QED BY <1>5
<1>7. Bodies = bodies
  BY DEF Bodies, More
<1> HIDE DEF bodies
<1> DEFINE T == {n \in Nat : bodies[n] \in R}
<1>8. 0 \in T
  BY <1>1, <1>6
<1>9. ASSUME NEW n \in Nat, n \in T PROVE n + 1 \in T
  <2>1. bodies[n + 1] = More(bodies[n])
    <3>1. n + 1 \in Nat /\ n + 1 # 0 /\ (n + 1) - 1 = n
      OBVIOUS
    <3> QED BY <1>6, <3>1
  <2> QED BY <1>2, <1>9, <2>1
<1>10. m \in T
  <2> HIDE DEF T
  <2> QED BY <1>8, <1>9, Induction
<1> QED BY <1>7, <1>10

MemberLists == {l \in JsonParts : l.kind = "members"}

LEMMA EmptyWhite == <<>> \in White
BY EmptySeq DEF White

LEMMA SpacesAreWhite == Spaces \subseteq White
BY DEF Spaces, White

LEMMA OneIsValue ==
  ASSUME {"a", "u", "1"} \subseteq Letters
  PROVE  One \in JsonValues
<1>1. <<"1">> \in Seq(Letters)
  OBVIOUS
<1>2. One \in JsonParts
  BY <1>1, PartsBuilt DEF HasTexts, One
<1> QED BY <1>2 DEF JsonValues, One, Word, Json

LEMMA StringIsValue ==
  ASSUME NEW body \in StringBodies
  PROVE  String(body) \in JsonValues
<1>1. String(body) \in JsonParts
  BY PartsBuilt DEF HasTexts
<1> QED BY <1>1 DEF JsonValues, String, Json

LEMMA EmptyIsValue == Empty("lbracket", <<>>, "rbracket") \in JsonValues
<1>1. Empty("lbracket", <<>>, "rbracket") \in JsonParts
  BY EmptyWhite, PartsBuilt DEF HasTexts
<1> QED BY <1>1 DEF JsonValues, Empty, Json

LEMMA ArrayIsValue ==
  ASSUME NEW v \in JsonValues
  PROVE  Array(Single(v)) \in JsonValues
<1>1. Single(v) \in JsonParts
  BY PartsBuilt DEF HasTexts, JsonValues
<1>2. Single(v).kind = "elements"
  BY DEF Single, Json
<1>3. Array(Single(v)) \in JsonParts
  BY <1>1, <1>2, PartsBuilt DEF HasTexts
<1> QED BY <1>3 DEF JsonValues, Array, Json

LEMMA MemberIsMember ==
  ASSUME NEW a \in White, NEW name \in StringBodies, NEW b \in White, NEW v \in JsonValues
  PROVE  Member(a, name, b, v) \in MemberLists
<1>1. Member(a, name, b, v) \in JsonParts
  BY PartsBuilt DEF HasTexts, JsonValues
<1> QED BY <1>1 DEF MemberLists, Member, Json

LEMMA MembersAreMembers ==
  ASSUME NEW m \in MemberLists, NEW l \in MemberLists
  PROVE  Members(m, l) \in MemberLists
<1>1. Members(m, l) \in JsonParts
  BY PartsBuilt DEF HasTexts, MemberLists
<1> QED BY <1>1 DEF MemberLists, Members, Json

LEMMA ObjectIsValue ==
  ASSUME NEW l \in MemberLists
  PROVE  Object(l) \in JsonValues
<1>1. Object(l) \in JsonParts
  BY PartsBuilt DEF HasTexts, MemberLists
<1> QED BY <1>1 DEF JsonValues, Object, Json

LEMMA NamedIsMember ==
  ASSUME {"a", "u", "1"} \subseteq Letters, NEW n \in Short
  PROVE  Named(n, One) \in MemberLists
<1>1. n \in StringBodies
  BY BodiesAreBodies DEF Short
<1> QED BY <1>1, EmptyWhite, OneIsValue, MemberIsMember DEF Named

LEMMA RowsAreMembers ==
  ASSUME {"a", "u", "1"} \subseteq Letters, NEW m \in Nat
  PROVE  Rows[m] \subseteq MemberLists
<1> DEFINE Base == {Named(n, One) : n \in Short}
           More(X) == {Members(Named(n, One), row) : n \in Short, row \in X}
           R == SUBSET MemberLists
           Step(f) == [k \in Nat |-> IF k <= 1 THEN Base ELSE More(f[k - 1])]
           rows == CHOOSE f : f = Step(f)
<1>1. Base \in R
  BY NamedIsMember
<1>2. ASSUME NEW X \in R PROVE More(X) \in R
  <2>1. ASSUME NEW n \in Short, NEW row \in X
        PROVE  Members(Named(n, One), row) \in MemberLists
    <3>1. Named(n, One) \in MemberLists /\ row \in MemberLists
      BY NamedIsMember
    <3> QED BY <3>1, MembersAreMembers
  <2> QED BY <2>1
<1> HIDE DEF Base, More
<1>3. PICK H \in Maps(R) : \A X \in R : H[X] = More(X)
  <2>1. [X \in R |-> More(X)] \in Maps(R)
    BY <1>2 DEF Maps
  <2> QED BY <2>1
<1>4. PICK f \in [Nat -> R] : f[0] = Base /\ \A n \in Nat : f[n + 1] = H[f[n]]
  <2> HIDE DEF R
  <2> QED BY <1>1, NatRecursion
<1> DEFINE g == [k \in Nat |-> IF k <= 1 THEN Base ELSE f[k - 1]]
<1>5. g = Step(g)
  <2>1. ASSUME NEW k \in Nat PROVE g[k] = Step(g)[k]
    <3>1. CASE k <= 1
      BY <3>1
    <3>2. CASE ~ (k <= 1)
      <4>1. k - 2 \in Nat /\ k - 1 \in Nat /\ (k - 2) + 1 = k - 1
        BY <3>2
      <4>2. f[k - 1] = H[f[k - 2]] /\ f[k - 2] \in R
        BY <1>4, <4>1
      <4>3. g[k - 1] = f[k - 2]
        BY <1>4, <3>2, <4>1
      <4> QED BY <1>3, <3>2, <4>2, <4>3
    <3> QED BY <3>1, <3>2
  <2> QED BY <2>1
<1>6. rows = Step(rows)
  <2> HIDE DEF Step
  <2> QED BY <1>5
<1>7. Rows = rows
  BY DEF Rows, More, Base
<1> HIDE DEF rows
<1> DEFINE T == {n \in Nat : rows[n] \in R}
<1>8. 0 \in T
  BY <1>1, <1>6
<1>9. ASSUME NEW n \in Nat, n \in T PROVE n + 1 \in T
  <2>0. n + 1 \in Nat /\ (n + 1) - 1 = n
    OBVIOUS
  <2>1. rows[n + 1] \in {Base, More(rows[n])}
    BY <1>6, <2>0
  <2> QED BY <1>1, <1>2, <1>9, <2>0, <2>1
<1>10. m \in T
  <2> HIDE DEF T
  <2> QED BY <1>8, <1>9, Induction
<1> QED BY <1>7, <1>10

\* With a few letters the texts TLC scans are among those ScanExact is about.
THEOREM TextsAreJson ==
  ASSUME {"a", "u", "1"} \subseteq Letters, MaxPieces \in Nat, MaxMembers \in Nat
  PROVE  Texts \subseteq JsonValues
<1>1. JsonValues = {v \in JsonParts : v.kind = "value"}
  BY DEF JsonValues
<1>2. Short \subseteq StringBodies /\ Bodies[MaxPieces] \subseteq StringBodies
  BY BodiesAreBodies DEF Short
<1>3. Spaces \subseteq White
  BY SpacesAreWhite
<1>4. One \in JsonValues
  BY OneIsValue
<1>5. Scalars \subseteq JsonValues
  BY <1>2, <1>4, StringIsValue DEF Scalars
<1>6. Flat \subseteq JsonValues
  <2>1. ASSUME NEW n \in Short, NEW m \in Short
        PROVE  Object(Members(Named(n, One), Named(m, One))) \in JsonValues
    BY <1>2, <1>4, NamedIsMember, MembersAreMembers, ObjectIsValue DEF MemberLists
  <2> QED BY <1>5, <2>1 DEF Flat
<1>7. Arrays \subseteq JsonValues
  BY <1>3, <1>6, EmptyIsValue, ArrayIsValue DEF Arrays, Spaces
<1>8. Boxed \subseteq JsonValues
  <2>1. ASSUME NEW n \in Short, NEW v \in Flat, NEW space \in Spaces
        PROVE  Object(Member(<<>>, n, space, Array(Single(v)))) \in JsonValues
    BY <1>2, <1>3, <1>6, ArrayIsValue, MemberIsMember, ObjectIsValue, EmptyWhite
  <2> QED BY <2>1 DEF Boxed
<1>9. Pairs \subseteq JsonValues
  <2>1. ASSUME NEW n \in Bodies[MaxPieces], NEW m \in Bodies[MaxPieces],
               NEW space \in Spaces
        PROVE  Object(Members(Member(<<>>, n, space, One), Member(space, m, space, One)))
                 \in JsonValues
    BY <1>2, <1>3, <1>4, MemberIsMember, MembersAreMembers, ObjectIsValue, EmptyWhite
  <2> QED BY <2>1 DEF Pairs
<1>10. Valued \subseteq JsonValues
  <2>1. ASSUME NEW n \in Short, NEW m \in Short, NEW v \in Scalars
        PROVE  Object(Members(Named(n, v), Named(m, One))) \in JsonValues
    BY <1>2, <1>4, <1>5, MemberIsMember, MembersAreMembers, ObjectIsValue, EmptyWhite
       DEF Named
  <2> QED BY <2>1 DEF Valued
<1>11. Deep \subseteq JsonValues
  <2>1. UNION {Rows[k] : k \in 1 .. MaxMembers - 1} \subseteq MemberLists
    <3>1. ASSUME NEW k \in 1 .. MaxMembers - 1 PROVE Rows[k] \subseteq MemberLists
      BY RowsAreMembers
    <3> QED BY <3>1
  <2>2. ASSUME NEW n \in Short, NEW v \in Flat, NEW row \in MemberLists
        PROVE  Object(Members(Named(n, v), row)) \in JsonValues
    BY <1>2, <1>6, MemberIsMember, MembersAreMembers, ObjectIsValue, EmptyWhite DEF Named
  <2> QED BY <2>1, <2>2 DEF Deep
<1> QED BY <1>6, <1>7, <1>8, <1>9, <1>10, <1>11 DEF Texts
=============================================================================
