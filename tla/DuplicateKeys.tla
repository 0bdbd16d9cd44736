--------------------------- MODULE DuplicateKeys ---------------------------
(***************************************************************************)
(* assertNoDuplicateJsonObjectKeys of node/state-store.mjs: JSON.parse     *)
(* keeps the last of several members of one name, so the data of a frame   *)
(* is scanned by hand before it is parsed.  The scan never parses the      *)
(* text; it follows brackets and strings and takes a string for the name   *)
(* of a member when a colon comes behind it.                               *)
(*                                                                         *)
(* The texts scanned are those of JSON values: whatever else there is      *)
(* JSON.parse refuses afterwards.                                          *)
(***************************************************************************)
EXTENDS JsonTexts

CONSTANTS
  Sources  \* texts of JSON values, with the names that two members of an object
           \* in them have

VARIABLES
  source,      \* the text, with what the reference knows of it
  index,       \* the character the loop is at
  containers,  \* for every open bracket: the names so far, or that it is an array
  verdict      \* "scanning", "accepted" or "duplicate"

scanVars == <<source, index, containers, verdict>>

-----------------------------------------------------------------------------
(* What the loop reads of a text.                                          *)

Character(text, i) == IF i \in DOMAIN text THEN text[i] ELSE "none"

\* The inner loop: a backslash takes the character behind it along.
EndOfString(text, start) ==
  LET end[i \in Nat] ==
        IF Character(text, i) = "escape" THEN end[i + 2]
        ELSE IF Character(text, i) \in {"quote", "none"} THEN i
        ELSE end[i + 1]
  IN end[start + 1]

\* The first character behind the string that is no white space
Behind(text, end) ==
  Min({i \in end + 1 .. end + 1 + Len(text) : Character(text, i) # "blank"})

\* Mutant: names are compared as they are spelt.
Spelling(text, start, end) == SubSeq(text, start, end)

\* JSON.parse of the name: an escape gives its character.
Name(text, start, end) ==
  LET decoded[i \in Nat] ==
        IF i >= end THEN <<>>
        ELSE IF Character(text, i) = "escape"
             THEN <<Unescaped(Character(text, i + 1))>> \o decoded[i + 2]
             ELSE <<Character(text, i)>> \o decoded[i + 1]
  IN decoded[start + 1]

Opened(c) == [kind |-> IF c = "lbrace" THEN "object" ELSE "array", names |-> {}]

\* A string that is the name of a member
IsName(text, end, open) ==
  /\ Character(text, Behind(text, end)) = "colon"
  /\ open # <<>> /\ Last(open).kind = "object"

\* keys.add(key)
WithKey(open, key) ==
  Append(Front(open),
         [kind |-> Last(open).kind, names |-> Last(open).names \cup {key}])

-----------------------------------------------------------------------------

At == Character(source.text, index)

OpenBracket ==
  /\ verdict = "scanning" /\ At \in {"lbrace", "lbracket"}
  /\ containers' = Append(containers, Opened(At))
  /\ index' = index + 1
  /\ UNCHANGED <<source, verdict>>

CloseBracket ==
  /\ verdict = "scanning" /\ At \in {"rbrace", "rbracket"}
  /\ containers' = Front(containers)
  /\ index' = index + 1
  /\ UNCHANGED <<source, verdict>>

OtherCharacter ==
  /\ verdict = "scanning"
  /\ At \notin {"lbrace", "lbracket", "rbrace", "rbracket", "quote", "none"}
  /\ index' = index + 1
  /\ UNCHANGED <<source, containers, verdict>>

StringValue ==
  /\ verdict = "scanning" /\ At = "quote"
  /\ LET end == EndOfString(source.text, index)
     IN ~ IsName(source.text, end, containers) /\ index' = end + 1
  /\ UNCHANGED <<source, containers, verdict>>

StringName ==
  /\ verdict = "scanning" /\ At = "quote"
  /\ LET end == EndOfString(source.text, index)
         key == Name(source.text, index, end)
     IN /\ IsName(source.text, end, containers)
        /\ index' = end + 1
        /\ IF key \in Last(containers).names
           THEN verdict' = "duplicate" /\ UNCHANGED containers
           ELSE containers' = WithKey(containers, key) /\ UNCHANGED verdict
  /\ UNCHANGED source

AcceptText ==
  /\ verdict = "scanning" /\ At = "none"
  /\ verdict' = "accepted"
  /\ UNCHANGED <<source, index, containers>>

ScanInit ==
  /\ source \in Sources
  /\ index = 1
  /\ containers = <<>>
  /\ verdict = "scanning"

ScanNext ==
  \/ OpenBracket
  \/ CloseBracket
  \/ OtherCharacter
  \/ StringValue
  \/ StringName
  \/ AcceptText

ScanSpec == ScanInit /\ [][ScanNext]_scanVars

\* The scan never leaves the text, and has no bracket open when it ends.
ScanTypeOK ==
  /\ index \in 1 .. Len(source.text) + 1
  /\ verdict \in {"scanning", "accepted", "duplicate"}
  /\ verdict = "accepted" => containers = <<>>

\* The scan refuses exactly the texts in which an object names two of its
\* members alike, however the names are spelt and whatever the strings hold
\* (assertNoDuplicateJsonObjectKeys).
ScanIsExact ==
  /\ ScanTypeOK
  /\ verdict = "accepted" => source.repeated = {}
  /\ verdict = "duplicate" => source.repeated # {}
=============================================================================
