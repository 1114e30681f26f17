------------------------------ MODULE VarsSources ------------------------------
(***************************************************************************)
(* Where variables come from: the data sources (`file', `fileRaw', `http', *)
(* `glob', `httpList'), what a `varsSources' entry makes of what they load,*)
(* and the sources of hosts. A source is a record with a `kind'; what it   *)
(* may load is the set of the possible results, empty when it must fail.   *)
(***************************************************************************)
EXTENDS Naturals, Objects

CONSTANTS
  Disk,      \* the files: [raw, parsed] of each path, <<name, extension>>
  Remote,    \* the answers of an HTTP server, by URL
  FileOrder  \* the files in natural order of their names

(* What is listed is finite.                                               *)
ASSUME ListsAssumption ==
  /\ FileOrder \in Seq(ToSet(FileOrder))
  /\ \A url \in DOMAIN Remote : "ids" \in DOMAIN Remote[url] => IsFiniteSet(Remote[url].ids)

(* A value is [text |-> t], or [vars |-> f] for a function f from names to *)
(* values: an object.                                                      *)
IsObject(value) == "vars" \in DOMAIN value
Object(f) == [vars |-> f]
(* Object.assign(f, ...objects).                                           *)
Giving(objects, n) == {i \in DOMAIN objects : n \in DOMAIN objects[i]}
IsLast(i, set) == i \in set /\ \A k \in set : k <= i
Assigned(f, objects) ==
  [n \in DOMAIN f \cup UNION {DOMAIN objects[i] : i \in DOMAIN objects} |->
     IF Giving(objects, n) = {} THEN f[n]
     ELSE objects[CHOOSE i \in DOMAIN objects : IsLast(i, Giving(objects, n))][n]]

Extensions == <<".yaml", ".yml", ".json", ".js", ".ts">>

-----------------------------------------------------------------------------
(* Data sources of one value.                                              *)

(* The path as it is or, for a parsed file, with an extension: the first.  *)
FilePaths(s) ==
  IF s.kind = "fileRaw" THEN <<s.path>>
  ELSE <<s.path>> \o [i \in DOMAIN Extensions |-> <<s.path[1], s.path[2] \o Extensions[i]>>]

FoundFiles(s) == SelectSeq(FilePaths(s), LAMBDA p : p \in DOMAIN Disk)

LoadFile(s) ==
  IF FoundFiles(s) = <<>> THEN {}
  ELSE LET p == Head(FoundFiles(s))
       IN IF s.kind = "fileRaw" THEN {Disk[p].raw}
          ELSE IF p[2] \in ToSet(Extensions) THEN {Disk[p].parsed} ELSE {}

(* The body of the answer, or the part a JSON path selects.                *)
LoadHttp(s) ==
  IF s.url \notin DOMAIN Remote THEN {}
  ELSE IF s.select = "all" THEN {Remote[s.url]} ELSE {Remote[s.url].vars[s.select]}

-----------------------------------------------------------------------------
(* Data sources of many values.                                            *)

GlobFiles(s) == SelectSeq(FileOrder, LAMBDA p : p \in s.matches)
LoadGlobEntry(path) == LoadFile([kind |-> "file", path |-> path])

(* The list is of ids, which are then asked for one by one, or the entries *)
(* themselves under their ids.                                             *)
IsListed(s) == s.url \in DOMAIN Remote /\ "ids" \in DOMAIN Remote[s.url]
ListedIds(s) == IF IsListed(s) THEN Remote[s.url].ids ELSE {}
LoadListEntry(s, id) ==
  IF s.each THEN LoadHttp([url |-> Append(s.url, id), select |-> "all"])
  ELSE {Remote[s.url].entries[id]}

EntryIds(s) == IF s.kind = "glob" THEN ToSet(FileOrder) \cap s.matches ELSE ListedIds(s)
LoadEntry(s, id) == IF s.kind = "glob" THEN LoadGlobEntry(id) ELSE LoadListEntry(s, id)
EntryName(s, id) == IF s.kind = "glob" THEN id[1] \o id[2] ELSE id

(* All entries are loaded at once and kept in the order they arrive in; one*)
(* that fails fails the source.                                            *)
LoadAllEntries(s) ==
  IF (s.kind = "httpList" /\ ~IsListed(s)) \/ \E id \in EntryIds(s) : LoadEntry(s, id) = {} THEN {}
  ELSE {[i \in DOMAIN order |->
           [name |-> EntryName(s, order[i]),
            value |-> CHOOSE v \in LoadEntry(s, order[i]) : TRUE]] : order \in SetToSeqs(EntryIds(s))}

-----------------------------------------------------------------------------
(* An entry of `varsSources' or of the module `load'.                      *)

Processed(value) == IF IsObject(value) THEN value.vars ELSE Sole("content", value)

FromMany(s, entries) ==
  IF s.flatten THEN Assigned(Nothing, [i \in DOMAIN entries |-> Processed(entries[i].value)])
  ELSE [n \in {e.name : e \in ToSet(entries)} |->
          Object(Processed((CHOOSE e \in ToSet(entries) : e.name = n).value))]

(* `flatten' of a single value wraps each of its variables, where that of  *)
(* many values unwraps them.                                               *)
FromOne(s, value) ==
  IF s.flatten THEN [n \in DOMAIN value.vars |-> Object(Processed(value.vars[n]))]
  ELSE Processed(value)

SourceVars(s) ==
  IF s.kind \in {"glob", "httpList"}
  THEN {FromMany(s, entries) : entries \in LoadAllEntries(s)}
  ELSE {FromOne(s, value) : value \in IF s.kind = "http" THEN LoadHttp(s) ELSE LoadFile(s)}

-----------------------------------------------------------------------------
(* Host sources: the names they list, and the variables of a host they are *)
(* asked for when it is needed.                                            *)

FileHosts(s) == IF FoundFiles(s) = <<>> THEN {} ELSE {Head(FoundFiles(s))[1]}
GlobHosts(s) == {p[1] : p \in ToSet(GlobFiles(s))}

HostNames(s) ==
  CASE s.kind = "raw" -> DOMAIN s.hosts
    [] s.kind = "file" -> FileHosts(s)
    [] s.kind = "glob" -> GlobHosts(s)
    [] OTHER -> ListedIds(s)

CanList(s) ==
  CASE s.kind = "file" -> FoundFiles(s) # <<>> [] s.kind = "httpList" -> IsListed(s) [] OTHER -> TRUE

(* Of two files for one host, the stub remembers the last.                 *)
GlobFileOf(s, h) == Last(SelectSeq(GlobFiles(s), LAMBDA p : p[1] = h))

HostSourceVars(s, h) ==
  CASE s.kind = "raw" -> {s.hosts[h]}
    [] s.kind = "file" -> LoadFile(s)
    [] s.kind = "glob" -> LoadGlobEntry(GlobFileOf(s, h))
    [] OTHER -> LoadListEntry(s, h)

(* The variables of a host have to be an object.                           *)
HostVarsLoaded(s, h) == {v.vars : v \in {w \in HostSourceVars(s, h) : IsObject(w)}}
=============================================================================
