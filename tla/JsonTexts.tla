----------------------------- MODULE JsonTexts -----------------------------
(***************************************************************************)
(* The texts DuplicateKeys scans are those of JSON values.  A text is      *)
(* built together with what its strings spell, so that it is known which   *)
(* objects name two members alike.                                         *)
(*                                                                         *)
(* A backslash ("escape") and what follows it are two characters; "escape" *)
(* "u" stands for a \u escape of the letter a, "blank" for any white space *)
(* between values.                                                         *)
(***************************************************************************)
EXTENDS Naturals, SequencesExt

CONSTANTS
  Letters,    \* the characters with no part in the structure of a text
  MaxPieces,  \* bound: characters, or escapes, of a name
  MaxMembers  \* bound: members of an object

Structure ==
  {"lbrace", "rbrace", "lbracket", "rbracket", "comma", "colon", "blank",
   "quote", "escape"}

\* "none" is what the scan finds behind a text.
ASSUME LettersAssumption == Letters \cap (Structure \cup {"none"}) = {}

JsonCharacters == Structure \cup Letters

-----------------------------------------------------------------------------
(* What stands between the quotes of a string, and what it spells.         *)

NoBody == [text |-> <<>>, is |-> <<>>]

Plainly(c, body) == [text |-> <<c>> \o body.text, is |-> <<c>> \o body.is]

Controls ==
  [b |-> "backspace", f |-> "formfeed", n |-> "newline", r |-> "return",
   t |-> "tab"]

Unescaped(c) ==
  IF c = "u" THEN "a" ELSE IF c \in DOMAIN Controls THEN Controls[c] ELSE c

Escaped(c, body) ==
  [text |-> <<"escape", c>> \o body.text, is |-> <<Unescaped(c)>> \o body.is]

Enclosed(open, text, close) == <<open>> \o text \o <<close>>

Quoted(body) == Enclosed("quote", body.text, "quote")

-----------------------------------------------------------------------------
(* A value, the values of an array, the members of an object.  names are   *)
(* those of the members, and repeated those that two members of an object, *)
(* or of one in it, have.                                                  *)

Json(kind, text, names, repeated) ==
  [kind |-> kind, text |-> text, names |-> names, repeated |-> repeated]

\* A number, true, false or null
Word(text) == Json("value", text, {}, {})

String(body) == Json("value", Quoted(body), {}, {})

\* White space on both sides of a value
Padded(a, v, b) == Json("value", a \o v.text \o b, {}, v.repeated)

\* Brackets with nothing but white space between them
Empty(open, a, close) == Json("value", Enclosed(open, a, close), {}, {})

Single(v) == Json("elements", v.text, {}, v.repeated)

Several(v, l) ==
  Json("elements", v.text \o <<"comma">> \o l.text, {},
       v.repeated \cup l.repeated)

Array(l) == Json("value", Enclosed("lbracket", l.text, "rbracket"), {}, l.repeated)

\* A member: its name with white space on both sides, and its value
Member(a, name, b, v) ==
  Json("members", a \o Quoted(name) \o b \o <<"colon">> \o v.text, {name.is},
       v.repeated)

Members(m, l) ==
  Json("members", m.text \o <<"comma">> \o l.text, m.names \cup l.names,
       m.repeated \cup l.repeated \cup (m.names \cap l.names))

Object(l) == Json("value", Enclosed("lbrace", l.text, "rbrace"), {}, l.repeated)

-----------------------------------------------------------------------------
(* All texts of JSON values: what is in every set that has the simple ones *)
(* and what can be built of its own.                                       *)

White == Seq({"blank"})

Spelt == JsonCharacters \cup {Unescaped(c) : c \in JsonCharacters}

HasBodies(K) ==
  /\ NoBody \in K
  /\ \A c \in JsonCharacters, body \in K :
       /\ c \notin {"quote", "escape"} => Plainly(c, body) \in K
       /\ Escaped(c, body) \in K

StringBodies ==
  {body \in [text : Seq(JsonCharacters), is : Seq(Spelt)] :
     \A K : HasBodies(K) => body \in K}

HasTexts(K) ==
  /\ \A text \in Seq(Letters) : Word(text) \in K
  /\ \A body \in StringBodies : String(body) \in K
  /\ \A a \in White : /\ Empty("lbracket", a, "rbracket") \in K
                      /\ Empty("lbrace", a, "rbrace") \in K
  /\ \A v \in K : v.kind = "value" =>
       /\ \A a, b \in White : Padded(a, v, b) \in K
       /\ Single(v) \in K
       /\ \A l \in K : l.kind = "elements" => Several(v, l) \in K
       /\ \A a, b \in White, name \in StringBodies : Member(a, name, b, v) \in K
  /\ \A l \in K : l.kind = "elements" => Array(l) \in K
  /\ \A l \in K : l.kind = "members" =>
       /\ Object(l) \in K
       /\ \A m \in K : m.kind = "members" => Members(m, l) \in K

JsonShapes ==
  [kind : {"value", "elements", "members"}, text : Seq(JsonCharacters),
   names : SUBSET Seq(Spelt), repeated : SUBSET Seq(Spelt)]

JsonParts == {v \in JsonShapes : \A K : HasTexts(K) => v \in K}

JsonValues == {v \in JsonParts : v.kind = "value"}

-----------------------------------------------------------------------------
(* Texts up to three levels deep, for TLC.                                 *)

\* Characters at which a careless scan goes wrong, and a plain one
Bodies[n \in Nat] ==
  IF n = 0 THEN {NoBody}
  ELSE {NoBody}
         \cup {Plainly(c, body) : c \in {"a", "lbrace", "colon"}, body \in Bodies[n - 1]}
         \cup {Escaped(c, body) : c \in {"u", "quote", "escape"}, body \in Bodies[n - 1]}

Short == {body \in Bodies[1] : body # NoBody}

One == Word(<<"1">>)

Scalars == {One} \cup {String(body) : body \in Short}

Named(name, v) == Member(<<>>, name, <<>>, v)

Flat ==
  Scalars \cup {Object(Members(Named(n, One), Named(m, One))) : n \in Short, m \in Short}

Arrays == {Empty("lbracket", <<>>, "rbracket")} \cup {Array(Single(v)) : v \in Flat}

Spaces == {<<>>, <<"blank">>}

Boxed ==
  {Object(Member(<<>>, n, space, Array(Single(v)))) :
     n \in Short, v \in Flat, space \in Spaces}

Pairs ==
  {Object(Members(Member(<<>>, n, space, One), Member(space, m, space, One))) :
     n \in Bodies[MaxPieces], m \in Bodies[MaxPieces], space \in Spaces}

Valued ==
  {Object(Members(Named(n, v), Named(m, One))) : n \in Short, m \in Short, v \in Scalars}

Rows[k \in Nat] ==
  IF k <= 1 THEN {Named(n, One) : n \in Short}
  ELSE {Members(Named(n, One), row) : n \in Short, row \in Rows[k - 1]}

\* Objects whose first value holds an object and whose later names follow it
Deep ==
  {Object(Members(Named(n, v), row)) :
     n \in Short, v \in Flat, row \in UNION {Rows[k] : k \in 1 .. MaxMembers - 1}}

Texts == UNION {Flat, Arrays, Boxed, Pairs, Valued, Deep}
=============================================================================
