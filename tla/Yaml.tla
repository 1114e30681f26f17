--------------------------------- MODULE Yaml ---------------------------------
(***************************************************************************)
(* The tags of the program's YAML files (src/util/yaml.ts): what a file is *)
(* loaded as, and what the archive of it is written as, to be loaded on the*)
(* hosts (src/components/archive.ts).                                      *)
(*                                                                         *)
(* A file is a node: <<tag, text>>, or <<"array", nodes>> and <<"object",  *)
(* nodes by key>>; a script may hold functions, <<"js", text>>. A value    *)
(* is what the program makes of it: a "template" that renders to text, a   *)
(* "json" or an "eval" that renders to anything, a "regex", a Joi "schema",*)
(* a "date", a "function", an "error", a "shortie" (an object with a mark  *)
(* that only dumpYAML sees), or a value of Shortie.                        *)
(***************************************************************************)
EXTENDS Shortie

Characters(string) == <<string>>

(* `!var x' is short for a template of x.                                  *)
VarTemplate(text) == Characters("${{ ") \o text \o Characters(" | toJSON }}")

(* The tags that take any text, with their short forms.                    *)
TextTag ==
  [tag \in {"!tpl", "!t", "!json", "!j", "!eval", "!regex", "!re", "timestamp", "js", "text", "scalar"} |->
     CASE tag \in {"!tpl", "!t"} -> "template"
       [] tag \in {"!json", "!j"} -> "json"
       [] tag = "!eval" -> "eval"
       [] tag \in {"!regex", "!re"} -> "regex"
       [] tag = "timestamp" -> "date"
       [] tag = "js" -> "function"
       [] OTHER -> tag]

(* A text is never a date, a function or an error, which is what the tags  *)
(* `!date', `!fn' and `!error' ask for, and a shortie may not be one: then *)
(* the file is not loaded.                                                 *)
LoadShortie(text) ==
  LET value == ReadAll(text, FALSE) IN IF value = Undefined THEN Undefined ELSE <<"shortie", value[2]>>
LoadVar(text) == <<"json", VarTemplate(text)>>
(* JavaScript code, kept with the schema it makes, or its JSON description.*)
LoadSchema(text) == <<"schema", text>>

RECURSIVE Load(_)
LoadAll(nodes, kind) ==
  LET values == [i \in DOMAIN nodes |-> Load(nodes[i])] IN
  IF \E i \in DOMAIN nodes : values[i] = Undefined THEN Undefined ELSE <<kind, values>>
Load(node) ==
  CASE node[1] \in {"array", "object"} -> LoadAll(node[2], node[1])
    [] node[1] \in {"!var", "!v"} -> LoadVar(node[2])
    [] node[1] \in {"!shortie", "!s"} -> LoadShortie(node[2])
    [] node[1] = "!joi" -> LoadSchema(node[2])
    [] node[1] \in {"!date", "!fn", "!error"} -> Undefined
    [] OTHER -> <<TextTag[node[1]], node[2]>>

(* What is written for each kind of value: the first tag that knows it. A  *)
(* template is written by its source, an eval, which has no toString of its*)
(* own, by the name of its type, a regular expression with its slashes, a  *)
(* shortie as JSON, of which the brace is what the parser meets first. Js- *)
(* yaml writes a date itself.                                              *)
TypeName == Characters("[object Object]")
DumpTemplate(value) == <<IF value[1] = "template" THEN "!tpl" ELSE "!json", value[2]>>
DumpEval(value) == <<"!eval", TypeName>>
DumpRegex(value) == <<"!regex", <<"/">> \o value[2] \o <<"/">> >>
DumpSchema(value) == <<"!joi", value[2]>>
DumpShortie(value) == <<"!shortie", <<"{", "}">> >>
DumpOther(value) ==
  <<CASE value[1] = "date" -> "timestamp"
      [] value[1] = "function" -> "!fn"
      [] value[1] = "error" -> "!error"
      [] OTHER -> value[1], value[2]>>

RECURSIVE Dump(_)
Dump(value) ==
  CASE value[1] \in {"array", "object"} -> <<value[1], [i \in DOMAIN value[2] |-> Dump(value[2][i])]>>
    [] value[1] \in {"template", "json"} -> DumpTemplate(value)
    [] value[1] = "eval" -> DumpEval(value)
    [] value[1] = "regex" -> DumpRegex(value)
    [] value[1] = "schema" -> DumpSchema(value)
    [] value[1] = "shortie" -> DumpShortie(value)
    [] OTHER -> DumpOther(value)

(* What a host reads of a file that Archive.create wrote to an archive.    *)
Archived(value) == IF value = Undefined THEN Undefined ELSE Load(Dump(value))
=============================================================================
