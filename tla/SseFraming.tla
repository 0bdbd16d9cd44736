----------------------------- MODULE SseFraming -----------------------------
(***************************************************************************)
(* How a provider stream becomes the frames StreamGate begins with: push,  *)
(* finish and #consume of node/state-store.mjs.                            *)
(*                                                                         *)
(* The bytes arrive in chunks cut anywhere.  A character is a UTF-16 code  *)
(* unit, which is what length counts: CR, LF, a blank (any other that      *)
(* trim() strips) or x, all the rest.  What UTF-8 decoding does with a cut *)
(* within a character is left to the decoder of the platform.              *)
(***************************************************************************)
EXTENDS Naturals, SequencesExt

CONSTANTS
  Maximum,   \* maxFrameCharacters
  MaxStream  \* bound: characters of a provider stream

ASSUME FramingAssumption == Maximum \in Nat /\ MaxStream \in Nat

Characters == {"x", "blank", "CR", "LF"}
Blank == {"blank", "CR", "LF"}

VARIABLES
  arrived,  \* history: the stream so far, chunk after chunk
  buffer,   \* this.buffer
  frames,   \* the frames given to #accept that are not too large
  state     \* "streaming", "refused" or "finished"

framingVars == <<arrived, buffer, frames, state>>

-----------------------------------------------------------------------------

\* buffer.replaceAll("\r\n", "\n"), one pass: a LF takes the place of the CR
\* before it.
Replace(s, c) ==
  IF c = "LF" /\ s # <<>> /\ Last(s) = "CR" THEN Append(Front(s), c)
  ELSE Append(s, c)

Normalised[s \in Seq(Characters)] ==
  IF s = <<>> THEN <<>> ELSE Replace(Normalised[Front(s)], Last(s))

Boundaries(s) ==
  {i \in DOMAIN s : i < Len(s) /\ s[i] = "LF" /\ s[i + 1] = "LF"}

\* The loop of #consume: the frames that end in s, and what is left
Cut[s \in Seq(Characters)] ==
  IF Boundaries(s) = {} THEN [frames |-> <<>>, rest |-> s]
  ELSE LET at == Min(Boundaries(s))
           tail == Cut[SubSeq(s, at + 2, Len(s))]
       IN [frames |-> <<SubSeq(s, 1, at - 1)>> \o tail.frames,
           rest |-> tail.rest]

TooLarge(s) == Len(s) > Maximum

\* buffer.trim() is empty.
OnlyBlanks(s) == \A i \in DOMAIN s : s[i] \in Blank

\* #accept of each of fs in turn: the first that is too large raises.
AcceptFrames(fs, rest) ==
  LET large == {i \in DOMAIN fs : TooLarge(fs[i])}
  IN IF large # {}
     THEN /\ frames' = frames \o SubSeq(fs, 1, Min(large) - 1)
          /\ state' = "refused"
     ELSE /\ frames' = frames \o fs
          /\ state' = rest

\* Mutant: every chunk is normalised by itself, before it joins the buffer.
PushNormalisedAlone(chunk) ==
  LET cut == Cut[buffer \o Normalised[chunk]]
  IN /\ state = "streaming"
     /\ arrived' = arrived \o chunk
     /\ buffer' = cut.rest
     /\ AcceptFrames(cut.frames, IF TooLarge(cut.rest) THEN "refused" ELSE "streaming")

\* push(chunk)
Push(chunk) ==
  LET cut == Cut[Normalised[buffer \o chunk]]
  IN /\ state = "streaming"
     /\ arrived' = arrived \o chunk
     /\ buffer' = cut.rest
     /\ AcceptFrames(cut.frames, IF TooLarge(cut.rest) THEN "refused" ELSE "streaming")

\* finish(): one more #consume, in which a frame the end of the stream has
\* cut off counts as one.  Nothing changes the buffer of an earlier push but
\* the normalisation of what an earlier one left of CR CR LF.
FinishFraming ==
  LET cut == Cut[Normalised[buffer]]
      last == IF OnlyBlanks(cut.rest) THEN <<>> ELSE <<cut.rest>>
  IN /\ state = "streaming"
     /\ IF TooLarge(cut.rest)
        THEN /\ AcceptFrames(cut.frames, "refused")
             /\ buffer' = cut.rest
        ELSE /\ AcceptFrames(cut.frames \o last, "finished")
             /\ buffer' = <<>>
     /\ arrived' = arrived

FramingInit ==
  /\ arrived = <<>>
  /\ buffer = <<>>
  /\ frames = <<>>
  /\ state = "streaming"

Chunks(n) == UNION {[1 .. k -> Characters] : k \in 1 .. n}

FramingNext ==
  \/ \E chunk \in Chunks(MaxStream - Len(arrived)) : Push(chunk)
  \/ FinishFraming

FramingSpec == FramingInit /\ [][FramingNext]_framingVars

-----------------------------------------------------------------------------
(* Reference: a reader that is given the whole stream, a character at a    *)
(* time.                                                                   *)

Read(reader, c) ==
  IF c = "LF" /\ reader.open # <<>> /\ Last(reader.open) = "LF"
  THEN [frames |-> Append(reader.frames, Front(reader.open)), open |-> <<>>]
  ELSE [frames |-> reader.frames, open |-> Append(reader.open, c)]

ReadAll[s \in Seq(Characters)] ==
  IF s = <<>> THEN [frames |-> <<>>, open |-> <<>>]
  ELSE Read(ReadAll[Front(s)], Last(s))

ReadWhole(s) == ReadAll[Normalised[s]]

\* CR CR LF: one CR of it is a character of its line, and which one depends
\* on how often the buffer has been normalised.
Ambiguous(s) ==
  \E i \in DOMAIN s :
     /\ i + 2 \in DOMAIN s
     /\ s[i] = "CR" /\ s[i + 1] = "CR" /\ s[i + 2] = "LF"

FramingTypeOK ==
  /\ arrived \in Seq(Characters)
  /\ buffer \in Seq(Characters)
  /\ frames \in Seq(Seq(Characters))
  /\ state \in {"streaming", "refused", "finished"}
  /\ \A i \in DOMAIN frames : Len(frames[i]) <= Maximum
  /\ state # "refused" => Len(buffer) <= Maximum

\* Where the chunks are cut decides nothing: the gate is given the frames of
\* the stream, a last one that is cut off included, and holds what is behind
\* them.
FramesOfTheStream ==
  (~ Ambiguous(arrived) /\ state # "refused") =>
    LET whole == ReadWhole(arrived)
        last == IF OnlyBlanks(whole.open) THEN <<>> ELSE <<whole.open>>
    IN IF state = "finished" THEN frames = whole.frames \o last
       ELSE frames = whole.frames /\ buffer = whole.open

\* A stream is refused for its size only if one of its frames is longer than
\* the maximum, or what stands behind them is, half a blank line included: it
\* depends on the chunks whether the buffer is looked at in the middle of one.
RefusedForItsSize ==
  (~ Ambiguous(arrived) /\ state = "refused") =>
    LET whole == ReadWhole(arrived)
    IN \/ \E i \in DOMAIN whole.frames : Len(whole.frames[i]) > Maximum
       \/ Len(whole.open) > Maximum

\* What the gate is given of a stream, and whether the stream is refused for its
\* size, is a matter of the stream and not of where its chunks are cut.
FramingIsExact ==
  FramingTypeOK /\ FramesOfTheStream /\ RefusedForItsSize
=============================================================================
