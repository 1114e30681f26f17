------------------------------- MODULE Shortie -------------------------------
(***************************************************************************)
(* The one-line form of a configuration, `path=x list=[a b] sub={k=v}'     *)
(* (src/util/shortie.ts), read character by character. What is between a   *)
(* pair of braces or brackets is collected as text and read by a parser of *)
(* its own when the closing character is met.                              *)
(*                                                                         *)
(* Characters are strings of length one, texts sequences of them. Values   *)
(* are tagged: <<"text", chars>>, <<"scalar", chars>> (what YAML makes of  *)
(* a word that is not a text), <<"array", values>>, <<"object", function   *)
(* from keys to values>>; Undefined is no key, no token and no value.      *)
(***************************************************************************)
EXTENDS Integers, Sequences, SequencesExt

CONSTANTS Undefined,   \* not a sequence: JavaScript's undefined
          Scalars      \* the words YAML reads as a number, a boolean or null

Quotes == {"\"", "'"}
Escape == "\\"
Equality == "="
Separators == {" ", ","}
Closer == [c \in {"{", "["} |-> IF c = "{" THEN "}" ELSE "]"]

ASSUME UndefinedAssumption == Scalars \subseteq Seq(STRING)

(* A parser before its first character, in an array or in an object.       *)
NewParser(inArray) ==
  [inArray |-> inArray, key |-> Undefined, token |-> Undefined, inKey |-> ~inArray,
   quote |-> "", nested |-> "", escaped |-> FALSE, lastQuoted |-> FALSE, lastEnded |-> FALSE,
   out |-> <<>>, error |-> FALSE]

(* load(token) of an unquoted token, and the token itself of a quoted one. *)
ValueOf(p) ==
  IF p.token = Undefined THEN Undefined
  ELSE IF ~p.lastQuoted /\ p.token \in Scalars THEN <<"scalar", p.token>>
  ELSE IF ~p.lastQuoted /\ p.token = <<>> THEN Undefined
  ELSE <<"text", p.token>>

Grow(token, chars) == IF token = Undefined THEN chars ELSE token \o chars

Failed(p) == [p EXCEPT !.error = TRUE]

(* Every step forgets whether the character before it closed a quote or a  *)
(* nested value.                                                           *)
Passed(p) == [p EXCEPT !.lastQuoted = FALSE, !.lastEnded = FALSE]

(* yield [key, value], then reset().                                       *)
Yielded(p, value) ==
  [p EXCEPT !.out = Append(@, <<p.key, value>>), !.key = Undefined, !.token = Undefined,
            !.inKey = ~p.inArray]
Reset(p) == [p EXCEPT !.key = Undefined, !.token = Undefined, !.inKey = ~p.inArray]

ProcessEscapesNot(token, quote) == token
(* In a quoted text of double quotes an escape is dropped before an escape *)
(* or a double quote, from the left.                                       *)
ProcessEscapes(token, quote) ==
  LET Take(acc, c) ==
        IF acc.pending
        THEN [text |-> acc.text \o (IF c \in {Escape, "\""} THEN <<c>> ELSE <<Escape, c>>), pending |-> FALSE]
        ELSE IF c = Escape THEN [acc EXCEPT !.pending = TRUE] ELSE [acc EXCEPT !.text = Append(@, c)]
      end == FoldLeft(Take, [text |-> <<>>, pending |-> FALSE], token)
  IN  IF quote # "\"" THEN token ELSE end.text \o (IF end.pending THEN <<Escape>> ELSE <<>>)

(* The character is within a nested value: only its closer is looked for,  *)
(* quoted or not. An empty nested value is an object, of either kind.      *)
RECURSIVE ReadAll(_, _)
NestedValue(p) ==
  IF p.token = Undefined THEN <<"object", <<>> >> ELSE ReadAll(p.token, p.nested = "[")
ReadNested(p, c) ==
  IF c # Closer[p.nested] THEN [Passed(p) EXCEPT !.token = Grow(@, <<c>>)]
  ELSE LET value == NestedValue(p)
       IN  IF value = Undefined THEN Failed(p)
           ELSE [Yielded(Passed(p), value) EXCEPT !.nested = "", !.lastEnded = TRUE]

(* The character after an escape; in a quoted text both are kept for       *)
(* ProcessEscapes.                                                         *)
ReadEscaped(p, c) ==
  [Passed(p) EXCEPT !.token = Grow(@, IF p.quote # "" THEN <<Escape, c>> ELSE <<c>>), !.escaped = FALSE]

ReadQuoted(p, c) ==
  IF c = Escape /\ p.quote = "\"" THEN [Passed(p) EXCEPT !.escaped = TRUE]
  ELSE IF c # p.quote THEN [Passed(p) EXCEPT !.token = Grow(@, <<c>>)]
  ELSE [Passed(p) EXCEPT !.token = ProcessEscapes(@, p.quote), !.quote = "", !.lastQuoted = TRUE]

ReadEquality(p) ==
  IF p.inArray \/ ~p.inKey \/ p.token = Undefined THEN Failed(p)
  ELSE [Passed(p) EXCEPT !.inKey = FALSE, !.key = p.token, !.token = Undefined]

ReadPlain(p, c) ==
  CASE c = Escape -> [Passed(p) EXCEPT !.escaped = TRUE]
    [] c \in Quotes -> [Passed(p) EXCEPT !.quote = c, !.token = Grow(@, <<>>)]
    [] c = Equality -> ReadEquality(p)
    [] c \in DOMAIN Closer /\ p.token = Undefined ->
         IF p.inKey THEN Failed(p) ELSE [Passed(p) EXCEPT !.nested = c]
    [] c \in Separators -> IF p.lastEnded THEN Reset(Passed(p)) ELSE Yielded(Passed(p), ValueOf(p))
    [] OTHER -> [Passed(p) EXCEPT !.token = Grow(@, <<c>>)]

Read(p, c) ==
  IF p.error THEN p
  ELSE IF p.nested # "" THEN ReadNested(p, c)
  ELSE IF p.escaped THEN ReadEscaped(p, c)
  ELSE IF p.quote # "" THEN ReadQuoted(p, c)
  ELSE ReadPlain(p, c)

(* The end of the text. An array yields what is after its last separator,  *)
(* and after a nested value too.                                           *)
ReadEnd(p) ==
  IF p.error \/ p.quote # "" \/ p.escaped THEN Failed(p)
  ELSE IF p.inKey THEN (IF p.token = Undefined THEN p ELSE [p EXCEPT !.out = Append(@, <<p.token, Undefined>>)])
  ELSE IF p.nested # "" THEN Failed(p)
  ELSE [p EXCEPT !.out = Append(@, <<p.key, ValueOf(p)>>)]

(* Object.fromEntries: the last entry of a key counts, and no key is the   *)
(* key `undefined'.                                                        *)
KeyOf(entry) == IF entry[1] = Undefined THEN <<"undefined">> ELSE entry[1]
FromEntries(entries) ==
  [k \in {KeyOf(entries[i]) : i \in DOMAIN entries} |->
     entries[CHOOSE i \in DOMAIN entries :
               /\ KeyOf(entries[i]) = k
               /\ \A j \in DOMAIN entries : KeyOf(entries[j]) = k => j <= i][2]]

(* shortieToArray and shortieToObject of what a parser has put out.        *)
Result(p) ==
  LET q == ReadEnd(p) IN
  IF q.error THEN Undefined
  ELSE IF q.inArray THEN <<"array", [i \in DOMAIN q.out |-> q.out[i][2]]>>
  ELSE <<"object", FromEntries(q.out)>>

ReadAll(text, inArray) == Result(FoldLeft(Read, NewParser(inArray), text))
=============================================================================
