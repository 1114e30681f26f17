---------------------------- MODULE Configuration ----------------------------
(***************************************************************************)
(* From the sources of an entry to an object made of a configuration: what *)
(* `yarn gen:schema' writes (SchemaGen) is loaded by a program, which      *)
(* registers the entries it finds, and a configuration written for one of  *)
(* them, as an object or as a shortie, finds its class (Registry).         *)
(*                                                                         *)
(* A program is started on what a run that ended well has written, and     *)
(* reads one configuration; the sources do not change meanwhile, as all it *)
(* uses of them it loads when it starts.                                   *)
(***************************************************************************)
EXTENDS SchemaGen, Registry

CONSTANTS Programs,     \* for each program, the central files it imports: a sequence of groups
          EntrySchema,  \* the Joi schema of the entry a schema file is for
          BaseKeys,     \* for each folder, the keys around that of the entry
          Configs       \* configurations: [folder, key, config, archived, expected]

VARIABLES program,     \* [phase, groups, todo]: "off", "loading", "up", "read" or "failed"
          registries,  \* the entries by folder and key
          job,         \* the configuration that is read
          class,       \* the entry found for it
          reader,      \* the parser of its text
          rest,        \* what it has still to read
          instance     \* the object made of it
programVars == <<program, registries, job, class, reader, rest, instance>>
vars == <<genVars, programVars>>

Off == [phase |-> "off", groups |-> <<>>, todo |-> <<>>]
None == [folder |-> "", key |-> <<>>, config |-> <<>>, archived |-> FALSE, expected |-> Undefined]
NoEntries == [f \in Folders |-> <<>>]
NoClass == [file |-> <<>>]

Quiet ==
  /\ program = Off /\ registries = NoEntries /\ job = None /\ class = NoClass
  /\ reader = NewParser(FALSE) /\ rest = <<>> /\ instance = Undefined

(* The imports of the central files are followed in turn.                  *)
StartProgram(name) ==
  /\ program = Off /\ run = Idle /\ outcome = "done"
  /\ LET missing == {g \in ToSet(Programs[name]) : g \notin DOMAIN central} IN
     program' = IF missing # {} THEN [Off EXCEPT !.phase = "failed"]
                ELSE [phase |-> "loading", groups |-> Programs[name],
                      todo |-> FlattenSeq([i \in DOMAIN Programs[name] |->
                                 SetToSeq(central[Programs[name][i]])])]
  /\ UNCHANGED <<genVars, registries, job, class, reader, rest, instance>>

(* A loadAll file imports the folders of its entries, each of which        *)
(* registers its class under all its names.                                *)
Entry(file) == [file |-> file]
InOrder(files) == SelectSeq(FileOrder, LAMBDA file : file \in files)
LoadFolder ==
  /\ program.phase = "loading" /\ program.todo # <<>>
  /\ LET key == Head(program.todo)
         files == IF key \in DOMAIN loadAll THEN {<<key[1], sub>> : sub \in loadAll[key]} ELSE {}
         order == InOrder(files)
         Add(registry, file) ==
           IF registry = Undefined \/ Taken(registry, EntryNames(file)) THEN Undefined
           ELSE Register(registry, EntryNames(file), Entry(file))
         loaded == FoldLeft(Add, registries[key[1]], order)
     IN  IF key \notin DOMAIN loadAll \/ ~(files \subseteq DOMAIN schemas) \/ loaded = Undefined
         THEN program' = [Off EXCEPT !.phase = "failed"] /\ UNCHANGED registries
         ELSE /\ registries' = [registries EXCEPT ![key[1]] = loaded]
              /\ program' = [program EXCEPT !.todo = Tail(@)]
  /\ UNCHANGED <<genVars, job, class, reader, rest, instance>>

Loaded ==
  /\ program.phase = "loading" /\ program.todo = <<>>
  /\ program' = [program EXCEPT !.phase = "up"]
  /\ UNCHANGED <<genVars, registries, job, class, reader, rest, instance>>

(* The constructor of AbstractRegistryEntry ends with the validation.      *)
Construct(value, schema) == instance' = IF Fits(value, schema) THEN value ELSE Undefined

(* The tasks of an archive are those of the recipe, as it was made of its  *)
(* file, and the rest is as it was in the file.                            *)
TaskConfig(c) ==
  LET value == Load(<<"object", c.config>>)
      task == IF value = Undefined THEN Undefined ELSE Extracted(value)
      read == IF c.archived THEN Archived(task) ELSE task
  IN  IF read = Undefined THEN <<>> ELSE Extracted(read)[2]
RecipeConfig(c) ==
  LET value == Load(<<"object", c.config>>)
      read == IF c.archived THEN Archived(value) ELSE value
  IN  IF read = Undefined THEN Undefined
      ELSE IF c.key = <<"vars">> THEN Extracted(read[2][c.key]) ELSE read[2][c.key]

(* What a recipe holds besides its tasks: variables, which may be templates*)
(* and its inputs, which may be schemas.                                   *)
ReadRecipe(c) ==
  /\ program.phase = "up" /\ c.folder = "recipe"
  /\ job' = c
  /\ instance' = RecipeConfig(c)
  /\ program' = [program EXCEPT !.phase = "read"]
  /\ UNCHANGED <<genVars, registries, class, reader, rest>>

(* A task of a file, or of the archive that was made of the file, finds its*)
(* module, resolves the templates of its configuration but for the marked  *)
(* paths, and makes the module of what that gives.                         *)
Written(folder, key) ==
  \E g \in ToSet(program.groups) \cap GroupsOf(folder) :
    \E sub \in Entries(folder) : key \in ToSet(schemas[<<folder, sub>>].names)
Configure(c) ==
  /\ program.phase = "up" /\ c.folder # "recipe" /\ Written(c.folder, c.key)
  /\ job' = c
  /\ LET config == TaskConfig(c)
         found == FindEntry(registries[c.folder], config, BaseKeys[c.folder])
     IN
     IF found = Undefined
     THEN program' = [program EXCEPT !.phase = "read"] /\ UNCHANGED <<class, reader, rest, instance>>
     ELSE LET schema == EntrySchema[found.file]
              value == Rendered(config[c.key], <<>>, DelayedPaths(schema, <<>>))
          IN  /\ class' = found
              /\ IF IsShortie(value, schema)
                 THEN /\ reader' = NewParser(ShortieIsArray(value[2])) /\ rest' = value[2]
                      /\ program' = [program EXCEPT !.phase = "reading"] /\ UNCHANGED instance
                 ELSE /\ Construct(value, schema)
                      /\ program' = [program EXCEPT !.phase = "read"] /\ UNCHANGED <<reader, rest>>
  /\ UNCHANGED <<genVars, registries>>

ReadCharacter ==
  /\ program.phase = "reading" /\ rest # <<>>
  /\ reader' = Read(reader, Head(rest)) /\ rest' = Tail(rest)
  /\ UNCHANGED <<genVars, program, registries, job, class, instance>>
ReadText ==
  /\ program.phase = "reading" /\ rest = <<>>
  /\ Construct(Result(reader), EntrySchema[class.file])
  /\ program' = [program EXCEPT !.phase = "read"]
  /\ UNCHANGED <<genVars, registries, job, class, reader, rest>>

StopProgram ==
  /\ program.phase \in {"read", "failed"}
  /\ program' = Off /\ registries' = NoEntries /\ job' = None /\ class' = NoClass
  /\ reader' = NewParser(FALSE) /\ rest' = <<>> /\ instance' = Undefined
  /\ UNCHANGED genVars

Develop == program = Off /\ GenNext /\ UNCHANGED programVars

Next ==
  \/ Develop
  \/ \E name \in DOMAIN Programs : StartProgram(name)
  \/ LoadFolder \/ Loaded
  \/ \E c \in Configs : ReadRecipe(c) \/ Configure(c)
  \/ ReadCharacter \/ ReadText \/ StopProgram

Init == GenInit /\ Quiet
Spec == Init /\ [][Next]_vars

(***************************************************************************)
(* Properties                                                              *)
(***************************************************************************)

(* After a generation that ended well every program starts, and what is    *)
(* written for an entry of the sources makes an object of that entry, of   *)
(* the configuration as it was written: texts come back from a shortie     *)
(* with every space, quote and escape, the templates of nested tasks are   *)
(* still templates, and an archive changes none of this. A configuration   *)
(* for two entries makes none (registry.ts:13-30, 167-205, yaml.ts:294-310)*)
ConfigAsWritten ==
  /\ program.phase # "failed"
  /\ program.phase = "read" =>
       /\ instance = job.expected
       /\ class # NoClass /\ instance # Undefined =>
            job.key \in ToSet(schemas[class.file].names)
                                  /\ class.file[1] = job.folder
=============================================================================
