--------------------------- MODULE MCConfiguration ---------------------------
(***************************************************************************)
(* Instances of Configuration for TLC: two registries, files of a          *)
(* directory that name each other, and configurations of every form.       *)
(***************************************************************************)
EXTENDS Configuration

CONSTANT undefined

S(defines, uses, names) == [defines |-> defines, uses |-> uses, externals |-> {}, names |-> names]
TaskFile == <<"components", "task">>
RecipeFile == <<"components", "recipe">>
HookFile == <<"hooks", "abstractHook">>
Mkdir == <<"modules", "mkdir">>
Switch == <<"modules", "switch">>
Debug == <<"modules", "debug">>
Web == <<"hooks", "web">>
mkdir == <<"m", "k">>
md == <<"m", "d">>
switch == <<"s", "w">>
debug == <<"d", "b">>
web == <<"w">>

MCFolderOrder == <<"hooks", "modules">>
MCMarkers == [f \in {"hooks", "modules"} |-> IF f = "hooks" THEN {"kiwiProvider"} ELSE {}]
MCDirectFiles == {TaskFile, RecipeFile, HookFile}
MCFileOrder == <<RecipeFile, TaskFile, HookFile, Web, Debug, Mkdir, Switch>>
MCSchemas ==
  (RecipeFile :> S({"Recipe"}, {"Task"}, <<>>)) @@ (TaskFile :> S({"Task"}, {}, <<>>))
    @@ (HookFile :> S({"Report"}, {"Recipe"}, <<>>))
    @@ (Web :> [S({"Web"}, {"Report", "Recipe"}, <<web>>) EXCEPT !.externals = {"Server"}])
    @@ (Mkdir :> S({"Mkdir"}, {}, <<mkdir, md>>))
    @@ (Switch :> S({"Switch", "Case"}, {"Case", "Task"}, <<switch>>))
MCSubs ==
  [f \in {"hooks", "modules"} |->
     {file[2] : file \in {g \in DOMAIN MCSchemas \ MCDirectFiles : g[1] = f}}
       \cup (IF f = "modules" THEN Hidden ELSE {})]
MCSources == {[subs |-> MCSubs, schemas |-> MCSchemas]}
Added(file, schema) == [kind |-> "add", file |-> file, schema |-> schema]
Removed(file, all) == [kind |-> "remove", file |-> file, all |-> all]
MCChanges ==
  {Added(Debug, S({"Debug"}, {"Mkdir"}, <<debug>>)), Removed(Mkdir, TRUE), Removed(Mkdir, FALSE),
   Removed(Web, TRUE), Removed(TaskFile, FALSE), Removed(HookFile, FALSE),
   [kind |-> "move", name |-> "Task", file |-> TaskFile, to |-> HookFile],
   [kind |-> "move", name |-> "Recipe", file |-> RecipeFile, to |-> TaskFile]}
MCPrograms == [kiwi |-> <<"all">>, kiwiProvider |-> <<"all", "kiwiProvider">>]

(* Joi schemas: any object, an object or a text, and cases of tasks.       *)
AnyObject == [Schema("object") EXCEPT !.patterns = <<Schema("any")>>]
Tasks == [Schema("alternatives") EXCEPT !.matches = <<AnyObject, [Schema("array") EXCEPT !.items = <<AnyObject>>]>>,
                                        !.delay = TRUE]
CaseSchema == [Schema("object") EXCEPT !.keys = (<<"i">> :> Schema("string")) @@ (<<"t">> :> Tasks)]
SwitchSchema ==
  [Schema("object") EXCEPT !.keys =
     (<<"v">> :> Schema("any")) @@ (<<"d">> :> Tasks)
       @@ (<<"c">> :> [Schema("alternatives") EXCEPT !.matches =
            <<[Schema("object") EXCEPT !.patterns = <<Tasks>>],
              [Schema("array") EXCEPT !.items = <<CaseSchema>>]>>])]
MCEntrySchema ==
  (Mkdir :> AnyObject) @@ (Switch :> SwitchSchema) @@ (Web :> AnyObject)
    @@ (Debug :> [Schema("alternatives") EXCEPT !.matches =
          <<[Schema("alternatives") EXCEPT !.matches = <<Schema("string")>>], AnyObject>>])
MCBaseKeys == [f \in {"hooks", "modules"} |-> IF f = "modules" THEN {<<"n">>, <<"i">>} ELSE {}]

(* Texts, and how one writes values as a shortie: a word as it is, another *)
(* text in quotes, nested values in braces and brackets.                   *)
Letters == {"x", " ", "=", "\"", "\\", "'", "{", ","}
Words == {<<"x">>, <<"y", "x">>}
Texts == {<<>>} \cup {<<a>> : a \in Letters} \cup {<<a, b>> : a \in Letters, b \in Letters}
Escaped(text) == FlattenSeq([i \in DOMAIN text |-> IF text[i] \in {"\\", "\""} THEN <<"\\", text[i]>> ELSE <<text[i]>>])
Quoted(text) == <<"\"">> \o Escaped(text) \o <<"\"">>
Text(t) == <<"text", t>>
One == <<"scalar", <<"1">> >>
Object(f) == <<"object", f>>

RECURSIVE Line(_)
Pair(k, v) == IF v = Undefined THEN k ELSE k \o <<"=">> \o Line(v)
Joined(lines) == FlattenSeq([i \in DOMAIN lines |-> IF i = 1 THEN lines[i] ELSE <<" ">> \o lines[i]])
Line(v) ==
  CASE v[1] = "text" -> IF v[2] \in Words THEN v[2] ELSE Quoted(v[2])
    [] v[1] = "scalar" -> v[2]
    [] v[1] = "array" -> <<"[">> \o Joined([i \in DOMAIN v[2] |-> Line(v[2][i])]) \o <<"]">>
    [] v[1] = "object" ->
         LET keys == SetToSeq({k \in DOMAIN v[2] : v[2][k] # Undefined})
                       \o SetToSeq({k \in DOMAIN v[2] : v[2][k] = Undefined})
         IN  <<"{">> \o Joined([i \in DOMAIN keys |-> Pair(keys[i], v[2][keys[i]])]) \o <<"}">>
WithoutBraces(line) == SubSeq(line, 2, Len(line) - 1)
(* An array does not end with a nested value: the parser would add an      *)
(* undefined item; and nested values hold no closer of their own kind.     *)
Few == {<<>>, <<" ", "x">>, <<"\\", "\"">>, <<"'", ",">>, <<"=", "{">>}
Objects ==
  {<<"p">> :> Text(t) : t \in Texts}
    \cup {(<<"p">> :> Text(t)) @@ (<<"q">> :> One) @@ (<<"f">> :> Undefined) : t \in Few}
    \cup {(<<"p">> :> <<"array", <<Text(t), One, Text(u)>> >>) @@ (<<"q">> :> Text(t)) : t \in Few, u \in Few}
    \cup {(<<"p">> :> Object((<<"a">> :> Text(t)) @@ (<<"b">> :> <<"array", <<One, Text(u)>> >>)))
            @@ (<<"q">> :> Text(u)) : t \in Few, u \in Few}
    \cup {<<"p">> :> <<"array", <<Object(<<"a">> :> Text(t)), Text(t)>> >> : t \in Few}
    \cup {<<"p">> :> Object(<<>>)}

Conf(folder, key, value, expected) ==
  [folder |-> folder, key |-> key, config |-> key :> value, archived |-> FALSE, expected |-> expected]
Tpl(t) == <<"template", <<t>> >>
Tag(tag, t) == <<tag, <<t>> >>
P(value) == Object(<<"p">> :> value)
Task == P(Tag("!t", "x"))
ReadTask == P(Tpl("x"))
Cases(v, c, d) == Object((<<"v">> :> v) @@ (<<"c">> :> c) @@ (<<"d">> :> d))
AsWritten ==
  {Conf("modules", mkdir, Text(WithoutBraces(Line(Object(o)))), Object(o)) : o \in Objects}
    \cup {Conf("modules", md, P(Tag("!tpl", "x")), P(Text(<<"x">>))),
          Conf("modules", debug, Text(<<"p", "=", "x">>), Text(<<"p", "=", "x">>)),
          Conf("modules", switch, Cases(Tag("!tpl", "x"), Object(<<"k">> :> Task), <<"array", <<Task, Task>> >>),
               Cases(Text(<<"x">>), Object(<<"k">> :> ReadTask), <<"array", <<ReadTask, ReadTask>> >>)),
          Conf("modules", switch, Cases(Tag("!t", "x"), <<"array", <<Object(<<"t">> :> Task), Object(<<"t">> :> Task)>> >>, Task),
               Cases(Text(<<"x">>), <<"array", <<Object(<<"t">> :> ReadTask), Object(<<"t">> :> ReadTask)>> >>, ReadTask)),
          Conf("modules", mkdir, P(Tag("!v", "x")), P(<<"scalar", VarTemplate(<<"x">>)>>)),
          Conf("modules", mkdir, P(Tag("!j", "x")), P(<<"scalar", <<"x">> >>)),
          Conf("hooks", web, Text(<<"p", "=", "1">>), Object(<<"p">> :> One)),
          [Conf("modules", mkdir, Object(<<>>), Undefined) EXCEPT
             !.config = (mkdir :> Object(<<>>)) @@ (switch :> Object(<<>>))],
          [Conf("modules", mkdir, Object(<<>>), Object(<<>>)) EXCEPT
             !.config = (mkdir :> Object(<<>>)) @@ (<<"n">> :> Text(<<"x">>))]}
InArchive(confs) == {[c EXCEPT !.archived = TRUE] : c \in {d \in confs : d.folder # "hooks"}}
Recipe(key, value, expected) == Conf("recipe", <<key>>, value, expected)
Recipes ==
  {Recipe("inputs", P(Tag("!joi", "x")), P(<<"schema", <<"x">> >>)),
   Recipe("vars", Tag("!t", "x"), Tpl("x")), Recipe("vars", Tag("!v", "x"), <<"json", VarTemplate(<<"x">>)>>),
   Recipe("vars", P(Text(<<"x", " ">>)), P(Text(<<"x", " ">>)))}
Shorty == <<"!s", <<"p", "=", "x">> >>
Alone ==
  {Conf("modules", mkdir, P(Tag("!eval", "x")), P(<<"scalar", <<"x">> >>)),
   Conf("modules", mkdir, P(<<"js", <<"x">> >>), P(<<"function", <<"x">> >>)),
   Recipe("vars", Tag("!eval", "x"), <<"eval", <<"x">> >>), Recipe("vars", Shorty, P(Text(<<"x">>)))}
(* What an archive does not bring, as it is now: evals, functions and      *)
(* shorties outside tasks. Dates, schemas and regular expressions are lost *)
(* to tasks and variables without an archive, and some tags are never      *)
(* loaded.                                                                 *)
Lost ==
  InArchive({Conf("modules", mkdir, P(Tag("!eval", "x")), P(<<"scalar", TypeName>>)),
             Conf("modules", mkdir, P(<<"js", <<"x">> >>), Undefined),
             Recipe("vars", Tag("!eval", "x"), <<"eval", TypeName>>), Recipe("vars", Shorty, Undefined)})
NeverRead ==
  {Conf("modules", mkdir, P(Tag(tag, "x")), P(Object(<<>>))) : tag \in {"!joi", "!re", "timestamp"}}
    \cup {Conf("modules", mkdir, P(Tag(tag, "x")), Undefined) : tag \in {"!date", "!fn", "!error"}}
    \cup {Recipe("vars", Tag(tag, "x"), Object(<<>>)) : tag \in {"!regex", "timestamp"}}
Everywhere ==
  AsWritten \cup NeverRead \cup Recipes \cup {Conf("modules", mkdir, Shorty, P(Text(<<"x">>)))}
MCConfigs == Everywhere \cup InArchive(Everywhere) \cup Alone \cup Lost
MCScalars == {<<"1">>}

=============================================================================
