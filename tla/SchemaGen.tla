------------------------------ MODULE SchemaGen ------------------------------
(***************************************************************************)
(* `yarn gen:schema' (src/cmd/ci/ciSchemaGen.ts) in a repository that      *)
(* changes between its runs: for every folder that holds a registry it     *)
(* writes the files that load the entries (loadAll*.gen.ts) and the pages  *)
(* of the docs, then the interfaces of every schema, `*schema.gen.ts', and  *)
(* then completes those with imports and links. Each write is seen by the  *)
(* ones after it and by the next run; a run may be killed anywhere.        *)
(*                                                                         *)
(* A schema file is named <<folder, name>>. An entry of a registry has a   *)
(* folder of its own, <<folder, entry>>; the files of DirectFiles lie in   *)
(* the folder itself. A schema file is a record:                           *)
(*   defines, uses   the interfaces that are made of it, and named by them *)
(*   externals       classes its schemas take instances of                 *)
(*   names           the keys of the entry, its aliases after its own      *)
(***************************************************************************)
EXTENDS Integers, Sequences, FiniteSets, SequencesExt, Functions

CONSTANTS Sources,      \* what a repository may start with: [subs, schemas]
          Changes,      \* what developers do to it
          FolderOrder,  \* the folders with a registry, in the order they are found in
          Markers,      \* for each folder, its marker files ".loadAll...": a set
          DirectFiles,  \* the schema files that lie in a folder with others
          FileOrder,    \* all names of schema files, in the order they are found in
          MaxKills,     \* how often a run is killed
          MaxEdits      \* how often the sources change

VARIABLES subs,      \* for each folder with a registry, the folders in it
          schemas,   \* the schema files, by name
          loadAll,   \* the loadAll files, by folder and group: the folders they import
          central,   \* the central loadAll files, by group: the loadAll files they import
          nav,       \* the pages of the docs, by folder
          gens,      \* the generated interface files, by name
          run,       \* where the run is: a step and what is left of it
          cache,     \* the contents fixGenImports works on, by name
          defs,      \* where it found each interface
          groups,    \* the loadAll files written, by group
          outcome,   \* how the last run ended, "" after a change of the sources
          kills, edits

repoVars == <<subs, schemas>>
diskVars == <<loadAll, central, nav, gens>>
workVars == <<cache, defs, groups>>
genVars == <<repoVars, diskVars, workVars, run, outcome, kills, edits>>

Folders == ToSet(FolderOrder)
Files == ToSet(FileOrder)
ASSUME RepoAssumption ==
  /\ FolderOrder \in Seq(Folders) /\ FileOrder \in Seq(Files)
  /\ \A s \in Sources : DOMAIN s.schemas \subseteq Files
  /\ \A c \in Changes : c.kind \in {"add", "remove", "move"} /\ (c.kind = "add" => c.file \in Files)

Groups == {"all"} \cup UNION {Markers[f] : f \in Folders}
Hidden == {"_shared"}
Directory(file) == IF file \in DirectFiles THEN <<file[1]>> ELSE file
Idle == [step |-> "idle", todo |-> {}]
At(step, todo) == [step |-> step, todo |-> todo]

(* Folders and files are gone through in the order they are found in.      *)
Precedes(x, y, order) ==
  \E i, j \in DOMAIN order : i <= j /\ order[i] = x /\ order[j] = y
First(set, order) == CHOOSE x \in set : \A y \in set : Precedes(x, y, order)
LastFile(files) == CHOOSE x \in files : \A y \in files : Precedes(y, x, FileOrder)
Folder == First(run.todo, FolderOrder)
File == First(run.todo, FileOrder)

(* What the generator reads of a schema it imports: the names its meta     *)
(* gives the entry, and the classes marked in the objects and arrays of    *)
(* its description. Of a file that has no entry there are no names.        *)
EntryNames(file) == schemas[file].names
RegistryExports(file) == ToSet(EntryNames(file))
ExternalImports(file) == schemas[file].externals

(* A generated file as joi-to-typescript writes it: it knows of the        *)
(* interfaces of the files of the same directory only.                     *)
Converted(file) ==
  LET s == schemas[file]
      near == {other \in DOMAIN schemas : other # file /\ Directory(other) = Directory(file)}
  IN  [defines |-> s.defines, uses |-> s.uses, externals |-> {}, names |-> <<>>, links |-> {},
       imports |-> {<<t[1], t[2], "converter">> :
                      t \in {u \in (s.uses \ s.defines) \X near : u[1] \in schemas[u[2]].defines}}]

(* genRegistriesEntries, one folder after the other.                       *)
Generate ==
  /\ run = Idle
  /\ run' = At("folder", Folders)
  /\ groups' = [g \in {"all"} |-> {}]
  /\ outcome' = ""
  /\ UNCHANGED <<repoVars, diskVars, cache, defs, kills, edits>>

Fails ==
  /\ run' = Idle /\ outcome' = "threw"
  /\ UNCHANGED <<repoVars, diskVars, workVars, kills, edits>>

(* Its generated files are removed, of whatever group, one by one.         *)
StaleIn(folder) ==
  {<<"loadAll", key>> : key \in {k \in DOMAIN loadAll : k[1] = folder}}
    \cup {<<"gen", file>> : file \in {f \in DOMAIN gens : Directory(f) = <<folder>>}}
RemoveGenFiles ==
  /\ run.step = "folder" /\ run.todo # {}
  /\ LET stale == StaleIn(Folder)
         file == CHOOSE s \in stale : TRUE
     IN  /\ run' = IF stale = {} THEN At("loadAll", run.todo) ELSE run
         /\ loadAll' = IF stale # {} /\ file[1] = "loadAll"
                       THEN Restrict(loadAll, DOMAIN loadAll \ {file[2]}) ELSE loadAll
         /\ gens' = IF stale # {} /\ file[1] = "gen"
                    THEN Restrict(gens, DOMAIN gens \ {file[2]}) ELSE gens
  /\ UNCHANGED <<repoVars, central, nav, workVars, outcome, kills, edits>>

GroupsOf(folder) == IF Markers[folder] = {} THEN {"all"} ELSE Markers[folder]
EntriesAll(folder) == subs[folder]
Entries(folder) == subs[folder] \ Hidden

WriteLoadAll ==
  /\ run.step = "loadAll"
  /\ LET folder == Folder
         written == {<<folder, g>> : g \in GroupsOf(folder)}
     IN  /\ loadAll' = [key \in DOMAIN loadAll \cup written |->
                          IF key \in written THEN Entries(folder) ELSE loadAll[key]]
         /\ groups' = [g \in DOMAIN groups \cup GroupsOf(folder) |->
                         (IF g \in DOMAIN groups THEN groups[g] ELSE {})
                           \cup (IF g \in GroupsOf(folder) THEN {<<folder, g>>} ELSE {})]
  /\ run' = At("nav", run.todo)
  /\ UNCHANGED <<repoVars, central, nav, gens, cache, defs, outcome, kills, edits>>

GenerateDocsNav ==
  /\ run.step = "nav"
  /\ nav' = [f \in DOMAIN nav \cup {Folder} |-> IF f = Folder THEN Entries(f) ELSE nav[f]]
  /\ run' = At("exports", run.todo)
  /\ UNCHANGED <<repoVars, loadAll, central, gens, workVars, outcome, kills, edits>>

(* The schemas of the entries are imported, and throw when missing.        *)
ReadExports ==
  /\ run.step = "exports"
  /\ IF \E sub \in Entries(Folder) : <<Folder, sub>> \notin DOMAIN schemas THEN Fails
     ELSE /\ run' = At("folder", run.todo \ {Folder})
          /\ UNCHANGED <<repoVars, diskVars, workVars, outcome, kills, edits>>

(* The central files, when there is no folder left.                        *)
BeginCentral ==
  /\ run.step = "folder" /\ run.todo = {}
  /\ run' = At("central", DOMAIN groups)
  /\ UNCHANGED <<repoVars, diskVars, workVars, outcome, kills, edits>>

WriteCentral ==
  /\ run.step = "central"
  /\ LET g == CHOOSE h \in run.todo : TRUE IN
     IF run.todo = {} THEN run' = At("convert", DOMAIN schemas) /\ UNCHANGED central
     ELSE /\ central' = [h \in DOMAIN central \cup {g} |-> IF h = g THEN groups[g] ELSE central[h]]
          /\ run' = At("central", run.todo \ {g})
  /\ UNCHANGED <<repoVars, loadAll, nav, gens, workVars, outcome, kills, edits>>

(* genSchemaFolder: the schemas of one directory are converted.            *)
ConvertFolder ==
  /\ run.step = "convert"
  /\ IF run.todo = {}
     THEN run' = At("imports", {}) /\ UNCHANGED gens
     ELSE LET directory == Directory(File)
              files == {f \in DOMAIN schemas : Directory(f) = directory}
          IN  /\ gens' = [f \in DOMAIN gens \cup files |-> IF f \in files THEN Converted(f) ELSE gens[f]]
              /\ run' = At("convert", run.todo \ files)
  /\ UNCHANGED <<repoVars, loadAll, central, nav, workVars, outcome, kills, edits>>

(* fixGenImports up to its first await: all generated files are read, the  *)
(* last file that defines an interface is where it is imported from.       *)
Definitions ==
  [n \in UNION {gens[f].defines : f \in DOMAIN gens} |->
     LastFile({f \in DOMAIN gens : n \in gens[f].defines})]
MissingAgain(content, file, where) ==
  {n \in content.uses : ~(n \in DOMAIN where /\ where[n] = file)}
Missing(content, file, where) ==
  {n \in content.uses : (\A i \in content.imports : i[1] # n) /\ ~(n \in DOMAIN where /\ where[n] = file)}
WithImports(content, file, where) ==
  [content EXCEPT !.imports = @ \cup {<<n, where[n], "fix">> : n \in Missing(content, file, where)}]
FixImports ==
  /\ run.step = "imports"
  /\ IF \E f \in DOMAIN gens : ~(Missing(gens[f], f, Definitions) \subseteq DOMAIN Definitions) THEN Fails
     ELSE /\ defs' = Definitions
          /\ cache' = [f \in DOMAIN gens |-> WithImports(gens[f], f, Definitions)]
          /\ run' = At("externals", DOMAIN gens)
          /\ UNCHANGED <<repoVars, diskVars, groups, outcome, kills, edits>>

(* What the schema of a file exports is imported: the classes it needs and *)
(* the keys of the entry.                                                  *)
FixExternals ==
  /\ run.step = "externals"
  /\ IF run.todo # {} /\ File \notin DOMAIN schemas THEN Fails
     ELSE /\ IF run.todo = {} THEN run' = At("links", DOMAIN cache) /\ UNCHANGED cache
             ELSE /\ cache' = [cache EXCEPT ![File].externals = ExternalImports(File),
                                            ![File].names = EntryNames(File)]
                  /\ run' = At("externals", run.todo \ {File})
          /\ UNCHANGED <<repoVars, diskVars, defs, groups, outcome, kills, edits>>

(* Every use is followed by a link to the definition, and by whether the   *)
(* schema there is that of an entry.                                       *)
Unlinked(uses) == {n \in uses : n \notin DOMAIN defs \/ defs[n] \notin DOMAIN schemas}
FixLinks ==
  /\ run.step = "links"
  /\ IF run.todo # {} /\ Unlinked(cache[File].uses) # {} THEN Fails
     ELSE /\ IF run.todo = {} THEN run' = At("write", DOMAIN cache) /\ UNCHANGED cache
             ELSE /\ cache' = [cache EXCEPT ![File].links =
                        {<<n, defs[n], RegistryExports(defs[n]) # {}>> : n \in cache[File].uses}]
                  /\ run' = At("links", run.todo \ {File})
          /\ UNCHANGED <<repoVars, diskVars, defs, groups, outcome, kills, edits>>

(* Only files that changed are written, at the very end.                   *)
WriteChanged ==
  /\ run.step = "write"
  /\ IF run.todo = {} THEN run' = Idle /\ outcome' = "done" /\ UNCHANGED gens
     ELSE /\ gens' = [gens EXCEPT ![File] = cache[File]]
          /\ run' = At("write", run.todo \ {File})
          /\ UNCHANGED outcome
  /\ UNCHANGED <<repoVars, loadAll, central, nav, workVars, kills, edits>>

(* The run is killed, or the code it writes is refused by the linter.      *)
Kill ==
  /\ run # Idle /\ kills < MaxKills
  /\ run' = Idle /\ kills' = kills + 1
  /\ UNCHANGED <<repoVars, diskVars, workVars, outcome, edits>>

GenStep ==
  \/ Generate \/ RemoveGenFiles \/ WriteLoadAll \/ GenerateDocsNav \/ ReadExports \/ BeginCentral
  \/ WriteCentral \/ ConvertFolder \/ FixImports \/ FixExternals \/ FixLinks \/ WriteChanged \/ Kill

(* What a developer does between two runs: a schema is written, in a folder *)
(* of its own or in one with others; one is removed, its generated file    *)
(* left behind or not; a definition moves from one file to another.   *)
Edited ==
  /\ run = Idle /\ edits < MaxEdits
  /\ outcome' = "" /\ edits' = edits + 1
  /\ UNCHANGED <<loadAll, central, nav, workVars, run, kills>>
AddSchema(file, schema) ==
  /\ Edited /\ file \notin DOMAIN schemas
  /\ subs' = IF file \in DirectFiles THEN subs ELSE [subs EXCEPT ![file[1]] = @ \cup {file[2]}]
  /\ schemas' = [f \in DOMAIN schemas \cup {file} |-> IF f = file THEN schema ELSE schemas[f]]
  /\ UNCHANGED gens
RemoveSchema(file, all) ==
  /\ Edited /\ file \in DOMAIN schemas
  /\ subs' = IF all /\ file \notin DirectFiles THEN [subs EXCEPT ![file[1]] = @ \ {file[2]}] ELSE subs
  /\ schemas' = Restrict(schemas, DOMAIN schemas \ {file})
  /\ gens' = IF all THEN Restrict(gens, DOMAIN gens \ {file}) ELSE gens
MoveDefinition(name, from, to) ==
  /\ Edited /\ {from, to} \subseteq DOMAIN schemas /\ name \in schemas[from].defines
  /\ schemas' = [schemas EXCEPT ![from].defines = @ \ {name}, ![to].defines = @ \cup {name}]
  /\ UNCHANGED <<subs, gens>>
Change ==
  \E c \in Changes :
    CASE c.kind = "add" -> AddSchema(c.file, c.schema)
      [] c.kind = "remove" -> RemoveSchema(c.file, c.all)
      [] c.kind = "move" -> MoveDefinition(c.name, c.file, c.to)

(* A repository as it was cloned: nothing has been generated.              *)
GenInit ==
  /\ \E s \in Sources : subs = s.subs /\ schemas = s.schemas
  /\ loadAll = <<>> /\ central = <<>> /\ nav = <<>> /\ gens = <<>>
  /\ run = Idle /\ cache = <<>> /\ defs = <<>> /\ groups = <<>>
  /\ outcome = "" /\ kills = 0 /\ edits = 0

GenNext == GenStep \/ Change
GenSpec == GenInit /\ [][GenNext]_genVars

(***************************************************************************)
(* Properties                                                              *)
(***************************************************************************)

Visible(f) == subs[f] \ Hidden

MadeOnce(n) == \A f, g \in DOMAIN schemas : n \in schemas[f].defines \cap schemas[g].defines => f = g

(* After a run that ended well everything generated is that of the sources *)
(* as they are, whatever earlier runs left: the groups load the entries    *)
(* that exist, and every interface a file names is its own or imported,    *)
(* from the file whose schema makes it, once where that is one file        *)
(* (ciSchemaGen.ts:124-572).                                               *)
GeneratedAfresh ==
  outcome = "done" =>
    /\ \A g \in DOMAIN central :
         /\ {key[1] : key \in central[g]} = {f \in Folders : g \in GroupsOf(f)}
         /\ \A key \in central[g] : key \in DOMAIN loadAll /\ loadAll[key] = Visible(key[1])
    /\ UNION {GroupsOf(f) : f \in Folders} \subseteq DOMAIN central
    /\ \A f \in Folders : nav[f] = Visible(f)
    /\ DOMAIN gens = DOMAIN schemas
    /\ \A f \in DOMAIN gens :
         /\ gens[f].names = schemas[f].names /\ gens[f].externals = schemas[f].externals
         /\ \A n \in schemas[f].uses \ schemas[f].defines :
              LET of == {i \in gens[f].imports : i[1] = n} IN
              /\ of # {} /\ \A i \in of : i[2] \in DOMAIN schemas /\ n \in schemas[i[2]].defines
              /\ MadeOnce(n) => Cardinality(of) = 1

(* A run throws for what is wrong with the sources: an entry without a     *)
(* schema, a generated file whose schema is gone, an interface nobody      *)
(* makes; never for what a run before it, killed anywhere, left.           *)
ThrowsForCause ==
  outcome = "threw" =>
    \/ \E f \in Folders : \E sub \in Visible(f) : <<f, sub>> \notin DOMAIN schemas
    \/ DOMAIN gens \ DOMAIN schemas # {}
    \/ \E f \in DOMAIN schemas :
         ~(schemas[f].uses \subseteq UNION {schemas[g].defines : g \in DOMAIN schemas})
=============================================================================
