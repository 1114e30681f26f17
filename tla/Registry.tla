------------------------------ MODULE Registry ------------------------------
(***************************************************************************)
(* The registries of a program and how a configuration finds the class it  *)
(* is for (src/util/registry.ts), with what is asked of Joi schemas on the *)
(* way (src/util/joi.ts).                                                  *)
(*                                                                         *)
(* A schema is the description of one: its type ("any", "string", "array", *)
(* "object" or "alternatives"), the schemas below it (keys by name, items, *)
(* patterns and matches as sequences) and `delay', the mark of what holds  *)
(* tasks. Paths are sequences of keys.                                     *)
(***************************************************************************)
EXTENDS Integers, Sequences, FiniteSets, SequencesExt, Functions, Yaml

Schema(type) == [type |-> type, keys |-> <<>>, items |-> <<>>, patterns |-> <<>>, matches |-> <<>>,
                 delay |-> FALSE]

RECURSIVE AcceptsString(_)
AcceptsString(schema) ==
  \/ schema.type \in {"any", "string"}
  \/ /\ schema.type = "alternatives"
     /\ \E i \in DOMAIN schema.matches : /\ schema.matches[i].type \in {"alternatives", "string"}
                                         /\ AcceptsString(schema.matches[i])

(* The paths of what is marked, in the object the schema describes: the    *)
(* alternatives and the patterns of an object add nothing to the path, the *)
(* items of an array the index of their schema.                            *)
RECURSIVE DelayedPaths(_, _)
DelayedPaths(schema, path) ==
  (IF schema.delay THEN {path} ELSE {})
    \cup UNION {DelayedPaths(schema.keys[k], Append(path, k)) : k \in DOMAIN schema.keys}
    \cup UNION {DelayedPaths(schema.items[i], Append(path, <<ToString(i - 1)>>)) : i \in DOMAIN schema.items}
    \cup UNION {DelayedPaths(s, path) : s \in ToSet(schema.patterns) \cup ToSet(schema.matches)}

(* Joi.attempt(value, schema.required()).                                  *)
RECURSIVE Fits(_, _)
Fits(value, schema) ==
  /\ value # Undefined
  /\ CASE schema.type = "any" -> TRUE
       [] schema.type = "string" -> value[1] \in {"text", "template"}
       [] schema.type = "array" ->
            /\ value[1] = "array"
            /\ \A i \in DOMAIN value[2] : \E s \in ToSet(schema.items) : Fits(value[2][i], s)
       [] schema.type = "alternatives" -> \E s \in ToSet(schema.matches) : Fits(value, s)
       [] schema.type = "object" ->
            /\ value[1] = "object"
            /\ \A k \in DOMAIN value[2] :
                 \E s \in IF k \in DOMAIN schema.keys THEN {schema.keys[k]} ELSE ToSet(schema.patterns) :
                   value[2][k] = Undefined \/ Fits(value[2][k], s)

(* new Task(extractAllTemplates(config)): what is no plain data is copied  *)
(* as if it was, and keeps nothing.                                        *)
RECURSIVE Extracted(_)
Extracted(value) ==
  CASE value[1] \in {"array", "object", "shortie"} ->
         <<IF value[1] = "array" THEN "array" ELSE "object",
           [k \in DOMAIN value[2] |-> IF value[2][k] = Undefined THEN Undefined ELSE Extracted(value[2][k])]>>
    [] value[1] \in {"regex", "schema", "date", "error"} -> <<"object", <<>> >>
    [] OTHER -> value

(* resolveTemplates, but for what is at a skipped path; what a "json" or an*)
(* "eval" renders to is named by its source.                               *)
RECURSIVE Rendered(_, _, _)
Rendered(value, path, skip) ==
  CASE value = Undefined \/ path \in skip -> value
    [] value # Undefined /\ path \notin skip ->
         CASE value[1] = "template" -> <<"text", value[2]>>
           [] value[1] \in {"json", "eval"} -> <<"scalar", value[2]>>
           [] value[1] = "array" ->
                <<"array", [i \in DOMAIN value[2] |-> Rendered(value[2][i], Append(path, <<ToString(i - 1)>>), skip)]>>
           [] value[1] = "object" ->
                <<"object", [k \in DOMAIN value[2] |-> Rendered(value[2][k], Append(path, k), skip)]>>
           [] OTHER -> value

(* Registry.register of every name of an entry; a name is taken once.      *)
Taken(registry, names) == \E n \in ToSet(names) : n \in DOMAIN registry
Register(registry, names, entry) ==
  [n \in DOMAIN registry \cup ToSet(names) |-> IF n \in DOMAIN registry THEN registry[n] ELSE entry]

(* findRegistryEntryFromIndexedConfig: the one key of the configuration    *)
(* that is not of the schema around it. With several the validation fails, *)
(* or this does where it is skipped.                                       *)
MustGet(registry, key) == IF key \in DOMAIN registry THEN registry[key] ELSE Undefined
NamesOneEntry(registry, config) == Cardinality(DOMAIN config \cap DOMAIN registry) = 1
KeysLeft(config, baseKeys) == DOMAIN config \ baseKeys
FindEntry(registry, config, baseKeys) ==
  LET left == KeysLeft(config, baseKeys) IN
  IF NamesOneEntry(registry, config) /\ Cardinality(left) = 1
  THEN MustGet(registry, CHOOSE k \in left : TRUE) ELSE Undefined

(* new registryEntry.clazz(config): a text is read as a shortie unless the *)
(* schema takes texts.                                                     *)
DisablesShortie(schema) == AcceptsString(schema)
IsShortie(value, schema) == value # Undefined /\ value[1] = "text" /\ ~DisablesShortie(schema)
ShortieIsArray(text) == text # <<>> /\ text[1] = "["
=============================================================================
