---------------------------- MODULE RerunProofs ----------------------------
(***************************************************************************)
(* Programs that write files and may be killed at any point: the generator *)
(* of sources (SchemaGen) and the recipes that change a host (FileTasks).  *)
(* What both promise is of the run that ends well, whatever the runs before*)
(* it left behind.                                                         *)
(*                                                                         *)
(* A generator's disk may hold anything an earlier run left, so the        *)
(* invariant says nothing of it but through the run that is under way:     *)
(* which folders, groups and files are done, and that what is done is that *)
(* of the sources as they are. As the sources change only between runs,    *)
(* this adds up to everything when the run ends.                           *)
(*                                                                         *)
(* A recipe's operations are read from their end: the last one that touches*)
(* a path decides what is there. Each module's list of operations brings   *)
(* about what its task wants (Planned), and each operation that is done    *)
(* leaves a shorter list that still does (NextOperation).                  *)
(***************************************************************************)
EXTENDS SchemaGen, FileTasks, FiniteSetTheorems, NaturalsInduction, WellFoundedInduction, TLAPS


Made == DOMAIN schemas
FolderSteps == {"folder", "loadAll", "nav", "exports"}
FixSteps == {"externals", "links", "write"}
LateSteps == FixSteps \cup {"convert", "imports"}
Steps == FolderSteps \cup LateSteps \cup {"idle", "central"}

TypeInv ==
  /\ Made \subseteq Files /\ DOMAIN gens \subseteq Files /\ DOMAIN central \subseteq Groups
  /\ run = At(run.step, run.todo) /\ run.step \in Steps
  /\ run.step = "idle" => run.todo = {}
  /\ outcome # "" => run.step = "idle"

(* What is written of a folder and of a group.                             *)
LoadAllOf(f) == \A g \in GroupsOf(f) : <<f, g>> \in DOMAIN loadAll /\ loadAll[<<f, g>>] = Visible(f)
NavOf(f) == f \in DOMAIN nav /\ nav[f] = Visible(f)
LoadsOf(g, folders) == {<<f, g>> : f \in {e \in folders : g \in GroupsOf(e)}}
CentralOf(g) == g \in DOMAIN central /\ central[g] = LoadsOf(g, Folders)
Collected(folders) ==
  /\ DOMAIN groups = {"all"} \cup UNION {GroupsOf(f) : f \in folders}
  /\ \A g \in DOMAIN groups : groups[g] = LoadsOf(g, folders)
FoldersWritten(folders) == \A f \in folders : LoadAllOf(f) /\ NavOf(f)
RegistriesWritten == FoldersWritten(Folders) /\ \A g \in Groups : CentralOf(g)

(* The folder a run is at, once it is among those that are collected.      *)
Under == IF run.step \in {"nav", "exports"} THEN {Folder} ELSE {}
FoldersInv ==
  run.step \in FolderSteps =>
    /\ run.todo \subseteq Folders
    /\ run.step # "folder" => run.todo # {}
    /\ FoldersWritten(Folders \ run.todo)
    /\ Collected((Folders \ run.todo) \cup Under)
    /\ \A f \in Under : LoadAllOf(f) /\ (run.step = "exports" => NavOf(f))
CentralInv ==
  run.step = "central" =>
    /\ run.todo \subseteq Groups
    /\ FoldersWritten(Folders) /\ Collected(Folders)
    /\ \A g \in Groups \ run.todo : CentralOf(g)
RegistriesInv == run.step \in LateSteps \/ outcome = "done" => RegistriesWritten

ConvertedFrom(f) == f \in DOMAIN gens /\ gens[f] = Converted(f)
ConvertInv ==
  /\ run.step = "convert" =>
       /\ run.todo \subseteq Made
       /\ \A f \in Made \ run.todo : ConvertedFrom(f)
  /\ run.step = "imports" => \A f \in Made : ConvertedFrom(f)

(* The imports that give a file what it does not make. Whether the file    *)
(* imported from still has a schema shows only at the next step.           *)
Fields == {"defines", "uses", "externals", "names", "links", "imports"}
ImportsOf(n, imports) == {i \in imports : i[1] = n}
Served(f, imports) ==
  \A n \in schemas[f].uses \ schemas[f].defines :
    /\ ImportsOf(n, imports) # {}
    /\ \A i \in ImportsOf(n, imports) :
         i[2] \in DOMAIN gens /\ (i[2] \in Made => n \in schemas[i[2]].defines)
    /\ MadeOnce(n) => Cardinality(ImportsOf(n, imports)) = 1
Described(f, content) == content.names = schemas[f].names /\ content.externals = schemas[f].externals
FixInv ==
  run.step \in FixSteps =>
    /\ DOMAIN cache = DOMAIN gens /\ Made \subseteq DOMAIN gens /\ run.todo \subseteq DOMAIN gens
    /\ \A f \in Made : /\ DOMAIN cache[f] = Fields
                       /\ cache[f].uses \subseteq DOMAIN defs
                       /\ Served(f, cache[f].imports)
    /\ \A n \in DOMAIN defs : defs[n] \in DOMAIN gens
    /\ \A f \in DOMAIN gens :
         run.step # "externals" \/ f \notin run.todo => f \in Made /\ Described(f, cache[f])
    /\ run.step = "write" => \A f \in DOMAIN gens \ run.todo : gens[f] = cache[f]
DoneInv ==
  outcome = "done" =>
    /\ DOMAIN gens = Made
    /\ \A f \in Made : Described(f, gens[f]) /\ Served(f, gens[f].imports)

Inv ==
  /\ TypeInv /\ FoldersInv /\ CentralInv /\ RegistriesInv /\ ConvertInv
  /\ FixInv /\ DoneInv /\ ThrowsForCause

-----------------------------------------------------------------------------
(* Files and folders are taken in the order they are found in.             *)

(* A set of numbers that is not empty has a least element.                 *)
LEMMA LeastNumber ==
  ASSUME NEW T, T \subseteq Nat, T # {}
  PROVE  \E n \in T : \A m \in T : n <= m
<1>1. IsWellFoundedOn({p \in Nat \X Nat : p[1] < p[2]}, Nat)
  BY NatLessThanWellFounded DEF OpToRel
<1>2. PICK n \in T : \A m \in T : ~ (<<m, n>> \in {p \in Nat \X Nat : p[1] < p[2]})
  BY <1>1, WFMin
<1>3. ASSUME NEW m \in T PROVE n <= m
  <2>1. m \in Nat /\ n \in Nat
    OBVIOUS
  <2>2. <<m, n>> \in Nat \X Nat /\ <<m, n>>[1] = m /\ <<m, n>>[2] = n
    BY <2>1
  <2>3. ~ (m < n)
    <3> SUFFICES ASSUME m < n PROVE <<m, n>> \in {p \in Nat \X Nat : p[1] < p[2]}
      BY <1>2
    <3> QED
      BY <2>2
  <2> QED
    BY <2>1, <2>3
<1> QED
  BY <1>3

(* The first and the last of what is in a list.                            *)
LEMMA FirstOfSet ==
  ASSUME NEW S, NEW order \in Seq(S), NEW set, set \subseteq ToSet(order), set # {}
  PROVE  First(set, order) \in set
<1> DEFINE At_(T) == {i \in DOMAIN order : order[i] \in T}
<1>1. DOMAIN order \subseteq Nat
  OBVIOUS
<1>2. At_(set) \subseteq Nat /\ At_(set) # {}
  BY <1>1 DEF ToSet
<1>3. PICK i \in At_(set) : \A j \in At_(set) : i <= j
  BY <1>2, LeastNumber
<1>4. order[i] \in set /\ \A y \in set : Precedes(order[i], y, order)
  BY <1>3 DEF ToSet, Precedes
<1> QED
  BY <1>4 DEF First

LEMMA LastOfFiles ==
  ASSUME NEW files, files \subseteq Files, files # {}
  PROVE  LastFile(files) \in files
<1> DEFINE N == Len(FileOrder)
           Places == {k \in Nat : \E i \in DOMAIN FileOrder : FileOrder[i] \in files /\ k = N - i}
<1>1. N \in Nat /\ DOMAIN FileOrder = 1 .. N
  BY RepoAssumption
<1>2. Places \subseteq Nat /\ Places # {}
  <2>1. PICK i \in DOMAIN FileOrder : FileOrder[i] \in files
    BY DEF Files, ToSet
  <2>2. N - i \in Nat
    BY <1>1, <2>1
  <2> QED
    BY <2>1, <2>2
<1> HIDE DEF N
<1>3. PICK k \in Places : \A m \in Places : k <= m
  BY <1>2, LeastNumber
<1>4. PICK i \in DOMAIN FileOrder : FileOrder[i] \in files /\ k = N - i
  BY <1>3
<1>5. ASSUME NEW y \in files PROVE Precedes(y, FileOrder[i], FileOrder)
  <2>1. PICK j \in DOMAIN FileOrder : FileOrder[j] = y
    BY <1>5 DEF Files, ToSet
  <2>2. N - j \in Nat
    BY <1>1, <2>1
  <2>3. N - i <= N - j
    BY <1>3, <1>4, <2>1, <2>2
  <2>4. j <= i
    BY <1>1, <2>3, <2>1
  <2> QED
    BY <2>1, <2>4 DEF Precedes
<1> QED
  BY <1>4, <1>5 DEF LastFile

LEMMA FolderOfTodo ==
  ASSUME run.todo \subseteq Folders, run.todo # {}
  PROVE  Folder \in run.todo
BY FirstOfSet, RepoAssumption DEF Folder, Folders

LEMMA FileOfTodo ==
  ASSUME run.todo \subseteq Files, run.todo # {}
  PROVE  File \in run.todo
BY FirstOfSet, RepoAssumption DEF File, Files

-----------------------------------------------------------------------------
(* The steps of a run keep the invariant.                                  *)

LEMMA InitInv ==
  ASSUME GenInit
  PROVE  Inv
<1>1. run.step = "idle" /\ run.todo = {} /\ run = At(run.step, run.todo)
  BY DEF GenInit, Idle, At
<1>2. DOMAIN gens = {} /\ DOMAIN central = {} /\ Made \subseteq Files
  <2>1. gens = <<>> /\ central = <<>> /\ \E s \in Sources : schemas = s.schemas
    BY DEF GenInit
  <2> QED
    BY <2>1, RepoAssumption DEF Made
<1>3. outcome = ""
  BY DEF GenInit
<1>4. TypeInv
  BY <1>1, <1>2, <1>3 DEF TypeInv, Steps
<1>5. FoldersInv /\ CentralInv /\ RegistriesInv /\ ConvertInv /\ FixInv
  BY <1>1, <1>3 DEF FoldersInv, FolderSteps, CentralInv, RegistriesInv, LateSteps, ConvertInv, FixInv, FixSteps
<1> QED
  BY <1>3, <1>4, <1>5 DEF Inv, DoneInv, ThrowsForCause

(* A run that is idle owes only what its outcome says.                     *)
LEMMA IdleInv ==
  ASSUME TypeInv', run'.step = "idle", RegistriesInv', DoneInv', ThrowsForCause'
  PROVE  Inv'
BY DEF Inv, FoldersInv, FolderSteps, CentralInv, ConvertInv, FixInv, FixSteps

LEMMA GenerateInv ==
  ASSUME Inv, Generate
  PROVE  Inv'
<1>1. run'.step = "folder" /\ run'.todo = Folders /\ run' = At(run'.step, run'.todo)
  BY DEF Generate, At
<1>2. outcome' = ""
  BY DEF Generate
<1>3. TypeInv'
  BY <1>1, <1>2 DEF Inv, TypeInv, Generate, repoVars, diskVars, Made, Steps, FolderSteps
<1>4. FoldersInv'
  <2>1. Under' = {}
    BY <1>1 DEF Under
  <2>2. Collected({})'
    BY DEF Collected, Generate, LoadsOf
  <2>3. ((Folders \ run.todo) \cup Under)' = {} /\ (Folders \ run.todo)' = {}
    BY <1>1, <2>1
  <2> QED
    BY <1>1, <2>1, <2>2, <2>3 DEF FoldersInv, FoldersWritten
<1>5. CentralInv' /\ RegistriesInv' /\ ConvertInv' /\ FixInv'
  BY <1>1, <1>2 DEF CentralInv, RegistriesInv, LateSteps, ConvertInv, FixInv, FixSteps
<1> QED
  BY <1>2, <1>3, <1>4, <1>5 DEF Inv, DoneInv, ThrowsForCause

(* What a step other than the end of a run, in a folder, has to show.      *)
LEMMA FolderStepInv ==
  ASSUME TypeInv', FoldersInv', run'.step \in FolderSteps
  PROVE  Inv'
<1>1. outcome' = ""
  BY DEF TypeInv, FolderSteps
<1>2. CentralInv' /\ RegistriesInv' /\ ConvertInv' /\ FixInv'
  BY <1>1 DEF CentralInv, RegistriesInv, LateSteps, ConvertInv, FixInv, FixSteps, FolderSteps
<1> QED
  BY <1>1, <1>2 DEF Inv, DoneInv, ThrowsForCause

LEMMA RemoveGenFilesInv ==
  ASSUME Inv, RemoveGenFiles
  PROVE  Inv'
<1> USE DEF repoVars, workVars
<1> DEFINE stale == StaleIn(Folder)
           file == CHOOSE s \in stale : TRUE
<1>1. /\ run.step = "folder" /\ run.todo # {}
      /\ run' = IF stale = {} THEN At("loadAll", run.todo) ELSE run
      /\ loadAll' = IF stale # {} /\ file[1] = "loadAll"
                    THEN Restrict(loadAll, DOMAIN loadAll \ {file[2]}) ELSE loadAll
      /\ gens' = IF stale # {} /\ file[1] = "gen"
                 THEN Restrict(gens, DOMAIN gens \ {file[2]}) ELSE gens
      /\ UNCHANGED <<subs, schemas, central, nav, groups, outcome>>
  BY DEF RemoveGenFiles
<1>2. run.todo \subseteq Folders /\ Folder \in run.todo
  BY <1>1, FolderOfTodo DEF Inv, FoldersInv, FolderSteps
<1>3. /\ run'.step \in {"folder", "loadAll"} /\ run'.todo = run.todo
      /\ run' = At(run'.step, run'.todo)
  BY <1>1 DEF Inv, TypeInv, At
<1>4. stale # {} => file \in stale
  OBVIOUS
<1>5. ASSUME NEW k \in DOMAIN loadAll, k[1] # Folder
      PROVE  k \in DOMAIN loadAll' /\ loadAll'[k] = loadAll[k]
  <2>1. CASE stale # {} /\ file[1] = "loadAll"
    <3>1. file[2][1] = Folder
      BY <1>4, <2>1 DEF StaleIn
    <3> QED
      BY <1>1, <1>5, <2>1, <3>1 DEF Restrict
  <2>2. CASE ~(stale # {} /\ file[1] = "loadAll")
    BY <1>1, <2>2
  <2> QED
    BY <2>1, <2>2
<1>6. DOMAIN gens' \subseteq DOMAIN gens
  BY <1>1 DEF Restrict
<1>7. TypeInv'
  BY <1>1, <1>3, <1>6 DEF Inv, TypeInv, Made, Steps, FolderSteps
<1>8. ASSUME NEW f \in Folders \ run.todo PROVE LoadAllOf(f)' /\ NavOf(f)'
  <2>1. LoadAllOf(f) /\ NavOf(f)
    BY <1>1, <1>8 DEF Inv, FoldersInv, FolderSteps, FoldersWritten
  <2>2. f # Folder
    BY <1>2, <1>8
  <2>3. NavOf(f)'
    BY <1>1, <2>1 DEF NavOf, Visible
  <2>4. ASSUME NEW g \in GroupsOf(f)
        PROVE  <<f, g>> \in DOMAIN loadAll' /\ loadAll'[<<f, g>>] = Visible(f)'
    <3>1. <<f, g>> \in DOMAIN loadAll /\ loadAll[<<f, g>>] = Visible(f) /\ <<f, g>>[1] = f
      BY <2>1, <2>4 DEF LoadAllOf
    <3> QED
      BY <1>1, <1>5, <2>2, <3>1 DEF Visible
  <2> QED
    BY <2>3, <2>4 DEF LoadAllOf
<1>9. Under = {} /\ Under' = {}
  BY <1>1, <1>3 DEF Under
<1>10. Collected((Folders \ run.todo) \cup Under)
  BY <1>1 DEF Inv, FoldersInv, FolderSteps
<1>11. Collected((Folders \ run.todo) \cup Under)'
  BY <1>1, <1>3, <1>9, <1>10 DEF Collected, LoadsOf
<1>12. FoldersWritten(Folders \ run.todo)'
  BY <1>3, <1>8 DEF FoldersWritten
<1>13. FoldersInv'
  BY <1>1, <1>2, <1>3, <1>9, <1>11, <1>12 DEF FoldersInv
<1>14. run'.step \in FolderSteps
  BY <1>3 DEF FolderSteps
<1> QED
  BY <1>7, <1>13, <1>14, FolderStepInv

(* One more folder among those that load a group.                          *)
LEMMA LoadsOfMore ==
  ASSUME NEW g, NEW folders, NEW folder
  PROVE  LoadsOf(g, folders \cup {folder})
           = LoadsOf(g, folders) \cup (IF g \in GroupsOf(folder) THEN {<<folder, g>>} ELSE {})
BY DEF LoadsOf

LEMMA LoadsOfNone ==
  ASSUME NEW g, NEW folders, \A f \in folders : g \notin GroupsOf(f)
  PROVE  LoadsOf(g, folders) = {}
BY DEF LoadsOf

LEMMA WriteLoadAllInv ==
  ASSUME Inv, WriteLoadAll
  PROVE  Inv'
<1> DEFINE folder == Folder
           written == {<<folder, g>> : g \in GroupsOf(folder)}
           done == Folders \ run.todo
<1>1. /\ run.step = "loadAll" /\ run' = At("nav", run.todo)
      /\ loadAll' = [key \in DOMAIN loadAll \cup written |->
                       IF key \in written THEN Entries(folder) ELSE loadAll[key]]
      /\ groups' = [g \in DOMAIN groups \cup GroupsOf(folder) |->
                      (IF g \in DOMAIN groups THEN groups[g] ELSE {})
                        \cup (IF g \in GroupsOf(folder) THEN {<<folder, g>>} ELSE {})]
      /\ UNCHANGED <<subs, schemas, central, nav, gens, outcome>>
  BY DEF WriteLoadAll, repoVars
<1>2. run.todo \subseteq Folders /\ folder \in run.todo
  BY <1>1, FolderOfTodo DEF Inv, FoldersInv, FolderSteps
<1>3. /\ run'.step = "nav" /\ run'.todo = run.todo /\ run' = At(run'.step, run'.todo)
      /\ Folder' = folder
  BY <1>1 DEF At, Folder
<1>4. TypeInv'
  BY <1>1, <1>3 DEF Inv, TypeInv, Made, Steps, FolderSteps
<1>5. Under = {} /\ Under' = {folder}
  BY <1>1, <1>3 DEF Under
<1>6. FoldersWritten(done) /\ Collected(done)
  BY <1>1, <1>5 DEF Inv, FoldersInv, FolderSteps
<1>7. LoadAllOf(folder)'
  BY <1>1, <1>3 DEF LoadAllOf, Visible, Entries
<1>8. ASSUME NEW f \in done PROVE LoadAllOf(f)' /\ NavOf(f)'
  <2>1. LoadAllOf(f) /\ NavOf(f) /\ f # folder
    BY <1>2, <1>6 DEF FoldersWritten
  <2>2. NavOf(f)'
    BY <1>1, <2>1 DEF NavOf, Visible
  <2>3. ASSUME NEW g \in GroupsOf(f)
        PROVE  <<f, g>> \in DOMAIN loadAll' /\ loadAll'[<<f, g>>] = Visible(f)'
    <3>1. <<f, g>> \in DOMAIN loadAll /\ loadAll[<<f, g>>] = Visible(f) /\ <<f, g>> \notin written
      BY <2>1, <2>3 DEF LoadAllOf
    <3> QED
      BY <1>1, <3>1 DEF Visible
  <2> QED
    BY <2>2, <2>3 DEF LoadAllOf
<1>9. Collected(done \cup {folder})'
  <2>1. DOMAIN groups' = {"all"} \cup UNION {GroupsOf(f) : f \in done \cup {folder}}
    BY <1>1, <1>6 DEF Collected
  <2>2. ASSUME NEW g \in DOMAIN groups' PROVE groups'[g] = LoadsOf(g, done \cup {folder})
    <3>1. (IF g \in DOMAIN groups THEN groups[g] ELSE {}) = LoadsOf(g, done)
      BY <1>6, LoadsOfNone DEF Collected
    <3>2. groups'[g] = (IF g \in DOMAIN groups THEN groups[g] ELSE {})
                         \cup (IF g \in GroupsOf(folder) THEN {<<folder, g>>} ELSE {})
      BY <1>1, <2>2
    <3>3. LoadsOf(g, done \cup {folder})
            = LoadsOf(g, done) \cup (IF g \in GroupsOf(folder) THEN {<<folder, g>>} ELSE {})
      BY LoadsOfMore
    <3> QED
      BY <3>1, <3>2, <3>3
  <2>3. (done \cup {folder})' = done \cup {folder}
    BY <1>3
  <2> QED
    BY <2>1, <2>2, <2>3 DEF Collected
<1>10. Collected((Folders \ run.todo) \cup Under)'
  BY <1>3, <1>5, <1>9
<1>11. FoldersWritten(Folders \ run.todo)'
  BY <1>3, <1>8 DEF FoldersWritten
<1>12. FoldersInv'
  BY <1>2, <1>3, <1>5, <1>7, <1>10, <1>11 DEF FoldersInv
<1> QED
  BY <1>3, <1>4, <1>12, FolderStepInv DEF FolderSteps

LEMMA GenerateDocsNavInv ==
  ASSUME Inv, GenerateDocsNav
  PROVE  Inv'
<1> DEFINE folder == Folder
           done == Folders \ run.todo
<1>1. /\ run.step = "nav" /\ run' = At("exports", run.todo)
      /\ nav' = [f \in DOMAIN nav \cup {folder} |-> IF f = folder THEN Entries(f) ELSE nav[f]]
      /\ UNCHANGED <<subs, schemas, loadAll, central, gens, groups, outcome>>
  BY DEF GenerateDocsNav, repoVars, workVars
<1>2. run.todo \subseteq Folders /\ folder \in run.todo
  BY <1>1, FolderOfTodo DEF Inv, FoldersInv, FolderSteps
<1>3. /\ run'.step = "exports" /\ run'.todo = run.todo /\ run' = At(run'.step, run'.todo)
      /\ Folder' = folder
  BY <1>1 DEF At, Folder
<1>4. TypeInv'
  BY <1>1, <1>3 DEF Inv, TypeInv, Made, Steps, FolderSteps
<1>5. Under = {folder} /\ Under' = {folder}
  BY <1>1, <1>3 DEF Under
<1>6. FoldersWritten(done) /\ Collected(done \cup {folder}) /\ LoadAllOf(folder)
  BY <1>1, <1>5 DEF Inv, FoldersInv, FolderSteps
<1>7. LoadAllOf(folder)' /\ NavOf(folder)'
  <2>1. NavOf(folder)'
    BY <1>1, <1>3 DEF NavOf, Visible, Entries
  <2>2. LoadAllOf(folder)'
    BY <1>1, <1>3, <1>6 DEF LoadAllOf, Visible
  <2> QED
    BY <2>1, <2>2
<1>8. ASSUME NEW f \in done PROVE LoadAllOf(f)' /\ NavOf(f)'
  <2>1. LoadAllOf(f) /\ NavOf(f) /\ f # folder
    BY <1>2, <1>6 DEF FoldersWritten
  <2> QED
    BY <1>1, <2>1 DEF NavOf, Visible, LoadAllOf
<1>9. Collected(done \cup {folder})'
  BY <1>1, <1>3, <1>6 DEF Collected, LoadsOf
<1>10. Collected((Folders \ run.todo) \cup Under)'
  BY <1>3, <1>5, <1>9
<1>11. FoldersWritten(Folders \ run.todo)'
  BY <1>3, <1>8 DEF FoldersWritten
<1>12. FoldersInv'
  BY <1>2, <1>3, <1>5, <1>7, <1>10, <1>11 DEF FoldersInv
<1> QED
  BY <1>3, <1>4, <1>12, FolderStepInv DEF FolderSteps

(* A run that throws has a cause to show.                                  *)
LEMMA FailsInv ==
  ASSUME Inv, Fails, ThrowsForCause'
  PROVE  Inv'
<1>1. /\ run' = Idle /\ outcome' = "threw"
      /\ UNCHANGED <<schemas, gens, central>>
  BY DEF Fails, repoVars, diskVars
<1>2. run'.step = "idle" /\ run'.todo = {} /\ run' = At(run'.step, run'.todo)
  BY <1>1 DEF Idle, At
<1>3. TypeInv'
  BY <1>1, <1>2 DEF Inv, TypeInv, Made, Steps
<1>4. RegistriesInv' /\ DoneInv'
  BY <1>1, <1>2 DEF RegistriesInv, LateSteps, FixSteps, DoneInv
<1> QED
  BY <1>2, <1>3, <1>4, IdleInv

LEMMA ReadExportsInv ==
  ASSUME Inv, ReadExports
  PROVE  Inv'
<1> DEFINE folder == Folder
           done == Folders \ run.todo
<1>1. run.step = "exports"
  BY DEF ReadExports
<1>2. run.todo \subseteq Folders /\ folder \in run.todo
  BY <1>1, FolderOfTodo DEF Inv, FoldersInv, FolderSteps
<1>3. CASE \E sub \in Entries(folder) : <<folder, sub>> \notin DOMAIN schemas
  <2>1. Fails
    BY <1>3 DEF ReadExports
  <2>2. UNCHANGED <<subs, schemas>>
    BY <2>1 DEF Fails, repoVars
  <2>3. \E f \in Folders : \E sub \in Visible(f) : <<f, sub>> \notin DOMAIN schemas
    BY <1>2, <1>3 DEF Entries, Visible
  <2>4. ThrowsForCause'
    BY <2>2, <2>3 DEF ThrowsForCause, Visible
  <2> QED
    BY <2>1, <2>4, FailsInv
<1>4. CASE ~ \E sub \in Entries(folder) : <<folder, sub>> \notin DOMAIN schemas
  <2>1. /\ run' = At("folder", run.todo \ {folder})
        /\ UNCHANGED <<subs, schemas, loadAll, central, nav, gens, groups, outcome>>
    BY <1>4 DEF ReadExports, repoVars, diskVars, workVars
  <2>2. run'.step = "folder" /\ run'.todo = run.todo \ {folder} /\ run' = At(run'.step, run'.todo)
    BY <2>1 DEF At
  <2>3. TypeInv'
    BY <1>1, <2>1, <2>2 DEF Inv, TypeInv, Made, Steps, FolderSteps
  <2>4. Under = {folder} /\ Under' = {}
    BY <1>1, <2>2 DEF Under
  <2>5. FoldersWritten(done) /\ Collected(done \cup {folder}) /\ LoadAllOf(folder) /\ NavOf(folder)
    BY <1>1, <2>4 DEF Inv, FoldersInv, FolderSteps
  <2>6. (Folders \ run.todo)' = done \cup {folder}
    BY <1>2, <2>2
  <2>7. ASSUME NEW f \in done \cup {folder} PROVE LoadAllOf(f)' /\ NavOf(f)'
    <3>1. LoadAllOf(f) /\ NavOf(f)
      BY <2>5 DEF FoldersWritten
    <3> QED
      BY <2>1, <3>1 DEF NavOf, Visible, LoadAllOf
  <2>8. FoldersWritten(Folders \ run.todo)'
    BY <2>6, <2>7 DEF FoldersWritten
  <2>9. Collected((Folders \ run.todo) \cup Under)'
    <3>1. ((Folders \ run.todo) \cup Under)' = done \cup {folder}
      BY <2>4, <2>6
    <3> QED
      BY <2>1, <2>5, <3>1 DEF Collected, LoadsOf
  <2>10. FoldersInv'
    BY <1>2, <2>2, <2>4, <2>8, <2>9 DEF FoldersInv
  <2> QED
    BY <2>2, <2>3, <2>10, FolderStepInv DEF FolderSteps
<1> QED
  BY <1>3, <1>4

(* The groups of all folders are all groups.                               *)
LEMMA GroupsCollected ==
  ASSUME Collected(Folders)
  PROVE  DOMAIN groups = Groups /\ \A g \in Groups : groups[g] = LoadsOf(g, Folders)
<1>1. {"all"} \cup UNION {GroupsOf(f) : f \in Folders} = Groups
  <2>1. ASSUME NEW g, g \in UNION {GroupsOf(f) : f \in Folders} PROVE g \in Groups
    BY <2>1 DEF Groups, GroupsOf
  <2>2. ASSUME NEW g, g \in Groups, g # "all" PROVE g \in UNION {GroupsOf(f) : f \in Folders}
    <3>1. PICK f \in Folders : g \in Markers[f]
      BY <2>2 DEF Groups
    <3>2. g \in GroupsOf(f)
      BY <3>1 DEF GroupsOf
    <3> QED
      BY <3>2
  <2>3. "all" \in Groups
    BY DEF Groups
  <2> QED
    BY <2>1, <2>2, <2>3
<1> QED
  BY <1>1 DEF Collected

LEMMA BeginCentralInv ==
  ASSUME Inv, BeginCentral
  PROVE  Inv'
<1>1. /\ run.step = "folder" /\ run.todo = {} /\ run' = At("central", DOMAIN groups)
      /\ UNCHANGED <<subs, schemas, loadAll, central, nav, gens, groups, outcome>>
  BY DEF BeginCentral, repoVars, diskVars, workVars
<1>2. run'.step = "central" /\ run'.todo = DOMAIN groups /\ run' = At(run'.step, run'.todo)
  BY <1>1 DEF At
<1>3. TypeInv'
  BY <1>1, <1>2 DEF Inv, TypeInv, Made, Steps, FolderSteps
<1>4. FoldersWritten(Folders) /\ Collected(Folders)
  <2>1. (Folders \ run.todo) \cup Under = Folders /\ Folders \ run.todo = Folders
    BY <1>1 DEF Under
  <2> QED
    BY <1>1, <2>1 DEF Inv, FoldersInv, FolderSteps
<1>5. FoldersWritten(Folders)' /\ Collected(Folders)'
  BY <1>1, <1>4 DEF FoldersWritten, LoadAllOf, NavOf, Visible, Collected, LoadsOf
<1>6. run'.todo = Groups
  BY <1>2, <1>4, GroupsCollected
<1>7. CentralInv'
  BY <1>5, <1>6 DEF CentralInv
<1>8. outcome' = ""
  BY <1>1 DEF Inv, TypeInv
<1>9. FoldersInv' /\ RegistriesInv' /\ ConvertInv' /\ FixInv'
  BY <1>2, <1>8 DEF FoldersInv, FolderSteps, RegistriesInv, LateSteps, ConvertInv, FixInv, FixSteps
<1> QED
  BY <1>3, <1>7, <1>8, <1>9 DEF Inv, DoneInv, ThrowsForCause

LEMMA WriteCentralInv ==
  ASSUME Inv, WriteCentral
  PROVE  Inv'
<1> DEFINE g == CHOOSE h \in run.todo : TRUE
<1>1. /\ run.step = "central"
      /\ IF run.todo = {} THEN run' = At("convert", DOMAIN schemas) /\ UNCHANGED central
         ELSE /\ central' = [h \in DOMAIN central \cup {g} |-> IF h = g THEN groups[g] ELSE central[h]]
              /\ run' = At("central", run.todo \ {g})
      /\ UNCHANGED <<subs, schemas, loadAll, nav, gens, groups, outcome>>
  BY DEF WriteCentral, repoVars, workVars
<1>2. /\ run.todo \subseteq Groups /\ FoldersWritten(Folders) /\ Collected(Folders)
      /\ \A h \in Groups \ run.todo : CentralOf(h)
  BY <1>1 DEF Inv, CentralInv
<1>3. FoldersWritten(Folders)' /\ Collected(Folders)'
  BY <1>1, <1>2 DEF FoldersWritten, LoadAllOf, NavOf, Visible, Collected, LoadsOf
<1>4. outcome = "" /\ outcome' = ""
  BY <1>1 DEF Inv, TypeInv
<1>5. CASE run.todo = {}
  <2>1. run'.step = "convert" /\ run'.todo = Made /\ run' = At(run'.step, run'.todo)
    BY <1>1, <1>5 DEF At, Made
  <2>2. TypeInv'
    BY <1>1, <1>4, <1>5, <2>1 DEF Inv, TypeInv, Made, Steps, LateSteps
  <2>3. RegistriesInv'
    BY <1>1, <1>2, <1>3, <1>5 DEF RegistriesInv, RegistriesWritten, CentralOf
  <2>4. ConvertInv'
    BY <1>1, <2>1 DEF ConvertInv, Made
  <2>5. FoldersInv' /\ CentralInv' /\ FixInv'
    BY <2>1 DEF FoldersInv, FolderSteps, CentralInv, FixInv, FixSteps
  <2> QED
    BY <1>4, <2>2, <2>3, <2>4, <2>5 DEF Inv, DoneInv, ThrowsForCause
<1>6. CASE run.todo # {}
  <2>1. run'.step = "central" /\ run'.todo = run.todo \ {g} /\ run' = At(run'.step, run'.todo)
    BY <1>1, <1>6 DEF At
  <2>2. g \in run.todo /\ g \in Groups
    BY <1>2, <1>6
  <2> HIDE DEF g
  <2>3. central' = [h \in DOMAIN central \cup {g} |-> IF h = g THEN groups[g] ELSE central[h]]
    BY <1>1, <1>6
  <2>4. TypeInv'
    <3>1. DOMAIN central' \subseteq Groups
      BY <2>2, <2>3 DEF Inv, TypeInv
    <3>2. UNCHANGED <<schemas, gens>>
      BY <1>1
    <3> QED
      BY <1>4, <2>1, <3>1, <3>2 DEF Inv, TypeInv, Made, Steps
  <2>5. ASSUME NEW h \in Groups \ run'.todo PROVE CentralOf(h)'
    <3>1. CASE h = g
      BY <1>2, <2>2, <2>3, <3>1, GroupsCollected DEF CentralOf
    <3>2. CASE h # g
      <4>1. CentralOf(h)
        BY <1>2, <2>1, <2>5, <3>2
      <4> QED
        BY <2>3, <3>2, <4>1 DEF CentralOf
    <3> QED
      BY <3>1, <3>2
  <2>6. CentralInv'
    BY <1>2, <1>3, <2>1, <2>5 DEF CentralInv
  <2>7. FoldersInv' /\ RegistriesInv' /\ ConvertInv' /\ FixInv'
    BY <1>4, <2>1 DEF FoldersInv, FolderSteps, RegistriesInv, LateSteps, ConvertInv, FixInv, FixSteps
  <2> QED
    BY <1>4, <2>4, <2>6, <2>7 DEF Inv, DoneInv, ThrowsForCause
<1> QED
  BY <1>5, <1>6

(* What the steps after the registries share.                              *)
LEMMA LateStepInv ==
  ASSUME TypeInv', RegistriesWritten, run'.step \in LateSteps, ConvertInv', FixInv',
         UNCHANGED <<subs, schemas, loadAll, central, nav>>
  PROVE  Inv'
<1>1. outcome' = ""
  BY DEF TypeInv, LateSteps, FixSteps
<1>2. RegistriesInv'
  BY DEF RegistriesInv, RegistriesWritten, FoldersWritten, LoadAllOf, NavOf, Visible, CentralOf
<1>3. FoldersInv' /\ CentralInv'
  BY DEF FoldersInv, CentralInv, FolderSteps, LateSteps, FixSteps
<1> QED
  BY <1>1, <1>2, <1>3 DEF Inv, DoneInv, ThrowsForCause

LEMMA ConvertedSame ==
  ASSUME schemas' = schemas, NEW f
  PROVE  Converted(f)' = Converted(f)
BY DEF Converted

LEMMA ConvertFolderInv ==
  ASSUME Inv, ConvertFolder
  PROVE  Inv'
<1> DEFINE files == {f \in DOMAIN schemas : Directory(f) = Directory(File)}
<1>1. /\ run.step = "convert"
      /\ IF run.todo = {} THEN run' = At("imports", {}) /\ UNCHANGED gens
         ELSE /\ gens' = [f \in DOMAIN gens \cup files |-> IF f \in files THEN Converted(f) ELSE gens[f]]
              /\ run' = At("convert", run.todo \ files)
      /\ UNCHANGED <<subs, schemas, loadAll, central, nav, outcome>>
  BY DEF ConvertFolder, repoVars
<1>2. run.todo \subseteq Made /\ \A f \in Made \ run.todo : ConvertedFrom(f)
  BY <1>1 DEF Inv, ConvertInv
<1>3. RegistriesWritten
  BY <1>1 DEF Inv, RegistriesInv, LateSteps
<1>4. outcome = "" /\ outcome' = "" /\ Made' = Made
  BY <1>1 DEF Inv, TypeInv, Made
<1>5. CASE run.todo = {}
  <2>1. /\ run'.step = "imports" /\ run'.todo = {} /\ run' = At(run'.step, run'.todo)
        /\ UNCHANGED gens
    BY <1>1, <1>5 DEF At
  <2>2. TypeInv'
    BY <1>1, <1>4, <2>1 DEF Inv, TypeInv, Made, Steps, LateSteps
  <2>3. ASSUME NEW f \in Made PROVE ConvertedFrom(f)'
    BY <1>1, <1>2, <1>5, <2>1, ConvertedSame DEF ConvertedFrom
  <2>4. ConvertInv' /\ FixInv'
    BY <1>4, <2>1, <2>3 DEF ConvertInv, FixInv, FixSteps
  <2> QED
    BY <1>1, <1>3, <2>1, <2>2, <2>4, LateStepInv DEF LateSteps
<1>6. CASE run.todo # {}
  <2>1. /\ run'.step = "convert" /\ run'.todo = run.todo \ files /\ run' = At(run'.step, run'.todo)
        /\ gens' = [f \in DOMAIN gens \cup files |-> IF f \in files THEN Converted(f) ELSE gens[f]]
    BY <1>1, <1>6 DEF At
  <2>2. files \subseteq Made
    BY DEF Made
  <2> HIDE DEF files
  <2>3. TypeInv'
    <3>1. DOMAIN gens' \subseteq Files
      BY <2>1, <2>2 DEF Inv, TypeInv
    <3> QED
      BY <1>1, <1>4, <2>1, <3>1 DEF Inv, TypeInv, Made, Steps, LateSteps
  <2>4. ASSUME NEW f \in Made \ run'.todo PROVE ConvertedFrom(f)'
    <3>1. Converted(f)' = Converted(f)
      BY <1>1, ConvertedSame
    <3>2. CASE f \in files
      BY <2>1, <3>1, <3>2 DEF ConvertedFrom
    <3>3. CASE f \notin files
      <4>1. ConvertedFrom(f)
        BY <1>2, <2>1, <2>4, <3>3
      <4> QED
        BY <2>1, <3>1, <3>3, <4>1 DEF ConvertedFrom
    <3> QED
      BY <3>2, <3>3
  <2>5. ConvertInv' /\ FixInv'
    BY <1>2, <1>4, <2>1, <2>4 DEF ConvertInv, FixInv, FixSteps
  <2> QED
    BY <1>1, <1>3, <2>1, <2>3, <2>5, LateStepInv DEF LateSteps
<1> QED
  BY <1>5, <1>6

(* An interface is taken from a file that defines it.                      *)
LEMMA DefinitionsFacts ==
  ASSUME DOMAIN gens \subseteq Files
  PROVE  /\ DOMAIN Definitions = UNION {gens[f].defines : f \in DOMAIN gens}
         /\ \A n \in DOMAIN Definitions :
              Definitions[n] \in DOMAIN gens /\ n \in gens[Definitions[n]].defines
<1>1. DOMAIN Definitions = UNION {gens[f].defines : f \in DOMAIN gens}
  BY DEF Definitions
<1>2. ASSUME NEW n \in DOMAIN Definitions
      PROVE  Definitions[n] \in DOMAIN gens /\ n \in gens[Definitions[n]].defines
  <2> DEFINE files == {f \in DOMAIN gens : n \in gens[f].defines}
  <2>1. files # {}
    BY <1>1, <1>2
  <2>2. LastFile(files) \in files
    BY <2>1, LastOfFiles
  <2>3. Definitions[n] = LastFile(files)
    BY <1>1, <1>2 DEF Definitions
  <2> QED
    BY <2>2, <2>3
<1> QED
  BY <1>1, <1>2

LEMMA ConvertedFacts ==
  ASSUME NEW f
  PROVE  /\ DOMAIN Converted(f) = Fields
         /\ Converted(f).defines = schemas[f].defines /\ Converted(f).uses = schemas[f].uses
         /\ \A i \in Converted(f).imports :
              /\ i = <<i[1], i[2], "converter">>
              /\ i[1] \in schemas[f].uses \ schemas[f].defines
              /\ i[2] \in Made /\ i[1] \in schemas[i[2]].defines
<1> DEFINE s == schemas[f]
           near == {other \in DOMAIN schemas : other # f /\ Directory(other) = Directory(f)}
           pairs == {u \in (s.uses \ s.defines) \X near : u[1] \in schemas[u[2]].defines}
           imports == {<<t[1], t[2], "converter">> : t \in pairs}
<1>1. Converted(f) = [defines |-> s.defines, uses |-> s.uses, externals |-> {}, names |-> <<>>,
                      links |-> {}, imports |-> imports]
  BY DEF Converted
<1>2. ASSUME NEW i \in imports
      PROVE  /\ i = <<i[1], i[2], "converter">> /\ i[1] \in s.uses \ s.defines
             /\ i[2] \in Made /\ i[1] \in schemas[i[2]].defines
  <2>1. PICK t \in pairs : i = <<t[1], t[2], "converter">>
    BY <1>2
  <2>2. t[1] \in s.uses \ s.defines /\ t[2] \in near /\ t[1] \in schemas[t[2]].defines
    BY <2>1
  <2>3. i[1] = t[1] /\ i[2] = t[2]
    BY <2>1
  <2> QED
    BY <2>1, <2>2, <2>3 DEF Made
<1>3. DOMAIN Converted(f) = Fields
  BY <1>1 DEF Fields
<1>4. Converted(f).defines = s.defines /\ Converted(f).uses = s.uses /\ Converted(f).imports = imports
  BY <1>1
<1> HIDE DEF imports
<1> QED
  BY <1>2, <1>3, <1>4

(* When the interfaces come from all files that were converted, each file  *)
(* gets what it does not make from one that makes it.                      *)
LEMMA ServedByImports ==
  ASSUME DOMAIN gens \subseteq Files, \A f \in Made : ConvertedFrom(f),
         NEW f \in Made, NEW imports,
         imports = Converted(f).imports
                     \cup {<<n, Definitions[n], "fix">> : n \in Missing(Converted(f), f, Definitions)},
         Missing(Converted(f), f, Definitions) \subseteq DOMAIN Definitions
  PROVE  Served(f, imports)
<1> DEFINE missing == Missing(Converted(f), f, Definitions)
<1>1. ASSUME NEW n \in schemas[f].uses \ schemas[f].defines
      PROVE  /\ ImportsOf(n, imports) # {}
             /\ \A i \in ImportsOf(n, imports) :
                  i[2] \in DOMAIN gens /\ (i[2] \in Made => n \in schemas[i[2]].defines)
             /\ MadeOnce(n) => Cardinality(ImportsOf(n, imports)) = 1
  <2>1. ASSUME NEW g \in DOMAIN gens, n \in gens[g].defines, g \in Made
        PROVE  n \in schemas[g].defines
    BY <2>1, ConvertedFacts DEF ConvertedFrom
  <2>2. CASE \E i \in Converted(f).imports : i[1] = n
    <3>1. n \notin missing
      BY <2>2 DEF Missing
    <3>2. ImportsOf(n, imports) = {i \in Converted(f).imports : i[1] = n}
      <4>1. ASSUME NEW m \in missing PROVE <<m, Definitions[m], "fix">>[1] # n
        BY <3>1, <4>1
      <4> QED
        BY <4>1 DEF ImportsOf
    <3>3. \A i \in ImportsOf(n, imports) :
            i = <<n, i[2], "converter">> /\ i[2] \in Made /\ n \in schemas[i[2]].defines
      BY <3>2, ConvertedFacts
    <3>4. ImportsOf(n, imports) # {}
      BY <2>2, <3>2
    <3>5. ASSUME MadeOnce(n) PROVE Cardinality(ImportsOf(n, imports)) = 1
      <4>1. PICK i \in ImportsOf(n, imports) : TRUE
        BY <3>4
      <4>2. \A j \in ImportsOf(n, imports) : j[2] = i[2]
        BY <3>3, <3>5, <4>1 DEF MadeOnce, Made
      <4>3. ImportsOf(n, imports) = {i}
        BY <3>3, <4>1, <4>2
      <4> QED
        BY <4>3, FS_Singleton
    <3>6. Made \subseteq DOMAIN gens
      BY DEF ConvertedFrom
    <3> QED
      BY <3>3, <3>4, <3>5, <3>6
  <2>3. CASE ~ \E i \in Converted(f).imports : i[1] = n
    <3>1. ~(n \in DOMAIN Definitions /\ Definitions[n] = f)
      <4> SUFFICES ASSUME n \in DOMAIN Definitions, Definitions[n] = f PROVE FALSE
        OBVIOUS
      <4>1. f \in DOMAIN gens /\ n \in gens[f].defines
        BY DefinitionsFacts
      <4> QED
        BY <1>1, <2>1, <4>1
    <3>2. n \in missing
      BY <1>1, <2>3, <3>1, ConvertedFacts DEF Missing
    <3>3. ImportsOf(n, imports) = {<<n, Definitions[n], "fix">>}
      <4>1. \A m \in missing : <<m, Definitions[m], "fix">>[1] = m
        OBVIOUS
      <4> HIDE DEF missing
      <4> QED
        BY <2>3, <3>2, <4>1 DEF ImportsOf, missing
    <3>4. Definitions[n] \in DOMAIN gens /\ n \in gens[Definitions[n]].defines
      BY <3>2, DefinitionsFacts
    <3>5. Cardinality(ImportsOf(n, imports)) = 1
      BY <3>3, FS_Singleton
    <3>6. \A i \in ImportsOf(n, imports) : i[2] = Definitions[n]
      BY <3>3
    <3> QED
      BY <2>1, <3>3, <3>4, <3>5, <3>6
  <2> QED
    BY <2>2, <2>3
<1> QED
  BY <1>1 DEF Served

(* What a file uses is made by a file, or nothing would be imported.       *)
LEMMA UsesDefined ==
  ASSUME DOMAIN gens \subseteq Files, \A f \in Made : ConvertedFrom(f), NEW f \in Made,
         Missing(Converted(f), f, Definitions) \subseteq DOMAIN Definitions
  PROVE  schemas[f].uses \subseteq DOMAIN Definitions
<1> SUFFICES ASSUME NEW n \in schemas[f].uses PROVE n \in DOMAIN Definitions
  OBVIOUS
<1>1. CASE \E i \in Converted(f).imports : i[1] = n
  <2>1. PICK i \in Converted(f).imports : i[1] = n
    BY <1>1
  <2>2. i[2] \in Made /\ n \in schemas[i[2]].defines
    BY <2>1, ConvertedFacts
  <2>3. i[2] \in DOMAIN gens /\ n \in gens[i[2]].defines
    BY <2>2, ConvertedFacts DEF ConvertedFrom
  <2> QED
    BY <2>3, DefinitionsFacts
<1>2. CASE ~ \E i \in Converted(f).imports : i[1] = n
  BY <1>2, ConvertedFacts DEF Missing
<1> QED
  BY <1>1, <1>2

(* An interface that no file makes is a cause, and so is a file without a  *)
(* schema, of which the interface might be.                                *)
LEMMA MissingCause ==
  ASSUME DOMAIN gens \subseteq Files, \A f \in Made : ConvertedFrom(f), NEW f \in DOMAIN gens,
         ~(Missing(gens[f], f, Definitions) \subseteq DOMAIN Definitions)
  PROVE  \/ DOMAIN gens \ DOMAIN schemas # {}
         \/ \E g \in DOMAIN schemas :
              ~(schemas[g].uses \subseteq UNION {schemas[h].defines : h \in DOMAIN schemas})
<1>1. CASE f \in Made
  <2>1. PICK n \in Missing(gens[f], f, Definitions) : n \notin DOMAIN Definitions
    OBVIOUS
  <2>2. n \in schemas[f].uses
    BY <1>1, <2>1, ConvertedFacts DEF ConvertedFrom, Missing
  <2>3. ASSUME NEW h \in Made PROVE n \notin schemas[h].defines
    BY <2>1, DefinitionsFacts, ConvertedFacts DEF ConvertedFrom
  <2> QED
    BY <1>1, <2>2, <2>3 DEF Made
<1>2. CASE f \notin Made
  BY <1>2 DEF Made
<1> QED
  BY <1>1, <1>2

(* What a file imports serves it as long as schemas and files are these.   *)
LEMMA ServedSame ==
  ASSUME UNCHANGED schemas, DOMAIN gens' = DOMAIN gens,
         NEW f, cache'[f].imports = cache[f].imports, Served(f, cache[f].imports)
  PROVE  Served(f, cache[f].imports)'
BY DEF Served, Made, MadeOnce, ImportsOf

LEMMA ServedWritten ==
  ASSUME UNCHANGED <<schemas, gens>>, NEW f, Served(f, gens[f].imports)
  PROVE  Served(f, gens[f].imports)'
BY DEF Served, Made, MadeOnce, ImportsOf

LEMMA FixImportsInv ==
  ASSUME Inv, FixImports
  PROVE  Inv'
<1>1. run.step = "imports"
  BY DEF FixImports
<1>2. DOMAIN gens \subseteq Files /\ \A f \in Made : ConvertedFrom(f)
  BY <1>1 DEF Inv, TypeInv, ConvertInv
<1>3. RegistriesWritten
  BY <1>1 DEF Inv, RegistriesInv, LateSteps
<1>4. CASE \E f \in DOMAIN gens : ~(Missing(gens[f], f, Definitions) \subseteq DOMAIN Definitions)
  <2>1. Fails
    BY <1>4 DEF FixImports
  <2>2. UNCHANGED <<schemas, gens>>
    BY <2>1 DEF Fails, repoVars, diskVars
  <2>3. ThrowsForCause'
    BY <1>2, <1>4, <2>2, MissingCause DEF ThrowsForCause
  <2> QED
    BY <2>1, <2>3, FailsInv
<1>5. CASE \A f \in DOMAIN gens : Missing(gens[f], f, Definitions) \subseteq DOMAIN Definitions
  <2>1. /\ defs' = Definitions
        /\ cache' = [f \in DOMAIN gens |-> WithImports(gens[f], f, Definitions)]
        /\ run' = At("externals", DOMAIN gens)
        /\ UNCHANGED <<subs, schemas, loadAll, central, nav, gens, outcome>>
    BY <1>5 DEF FixImports, repoVars, diskVars
  <2>2. /\ run'.step = "externals" /\ run'.todo = DOMAIN gens /\ run' = At(run'.step, run'.todo)
        /\ outcome' = "" /\ Made' = Made
    BY <1>1, <2>1 DEF Inv, TypeInv, At, Made
  <2>3. TypeInv'
    BY <2>1, <2>2 DEF Inv, TypeInv, Steps, LateSteps, FixSteps
  <2>4. ASSUME NEW f \in Made
        PROVE  /\ DOMAIN cache'[f] = Fields /\ cache'[f].uses \subseteq DOMAIN defs'
               /\ Served(f, cache[f].imports)'
    <3> DEFINE content == Converted(f)
               missing == Missing(content, f, Definitions)
               imports == content.imports \cup {<<n, Definitions[n], "fix">> : n \in missing}
    <3>1. f \in DOMAIN gens /\ gens[f] = content
      BY <1>2 DEF ConvertedFrom
    <3>2. cache'[f] = [content EXCEPT !.imports = imports]
      BY <2>1, <3>1 DEF WithImports
    <3>3. DOMAIN content = Fields /\ content.uses = schemas[f].uses
      BY ConvertedFacts
    <3>4. missing \subseteq DOMAIN Definitions
      BY <1>5, <3>1
    <3>5. schemas[f].uses \subseteq DOMAIN Definitions
      BY <1>2, <3>4, UsesDefined
    <3>6. Served(f, imports)
      BY <1>2, <3>4, ServedByImports
    <3> HIDE DEF content, imports
    <3>7. DOMAIN cache'[f] = Fields /\ cache'[f].uses = schemas[f].uses /\ cache'[f].imports = imports
      BY <3>2, <3>3 DEF Fields
    <3>8. Served(f, cache'[f].imports)
      BY <3>6, <3>7
    <3> QED
      BY <2>1, <3>5, <3>7, <3>8 DEF Served, Made, MadeOnce, ImportsOf
  <2>5. \A n \in DOMAIN defs' : defs'[n] \in DOMAIN gens'
    BY <1>2, <2>1, DefinitionsFacts
  <2>6. Made \subseteq DOMAIN gens
    BY <1>2 DEF ConvertedFrom
  <2>7. FixInv'
    BY <2>1, <2>2, <2>4, <2>5, <2>6 DEF FixInv
  <2>8. ConvertInv'
    BY <2>2 DEF ConvertInv
  <2> QED
    BY <1>3, <2>1, <2>2, <2>3, <2>7, <2>8, LateStepInv DEF LateSteps, FixSteps
<1> QED
  BY <1>4, <1>5

LEMMA FixExternalsInv ==
  ASSUME Inv, FixExternals
  PROVE  Inv'
<1>1. run.step = "externals"
  BY DEF FixExternals
<1>2. /\ DOMAIN cache = DOMAIN gens /\ Made \subseteq DOMAIN gens /\ run.todo \subseteq DOMAIN gens
      /\ \A f \in Made : /\ DOMAIN cache[f] = Fields /\ cache[f].uses \subseteq DOMAIN defs
                         /\ Served(f, cache[f].imports)
      /\ \A n \in DOMAIN defs : defs[n] \in DOMAIN gens
      /\ \A f \in DOMAIN gens \ run.todo : f \in Made /\ Described(f, cache[f])
  BY <1>1 DEF Inv, FixInv, FixSteps
<1>3. RegistriesWritten /\ outcome = ""
  BY <1>1 DEF Inv, TypeInv, RegistriesInv, LateSteps, FixSteps
<1>4. CASE run.todo # {} /\ File \notin Made
  <2>1. Fails
    BY <1>4 DEF FixExternals, Made
  <2>2. UNCHANGED <<schemas, gens>>
    BY <2>1 DEF Fails, repoVars, diskVars
  <2>3. File \in DOMAIN gens
    BY <1>2, <1>4, FileOfTodo DEF Inv, TypeInv
  <2>4. ThrowsForCause'
    BY <1>4, <2>2, <2>3 DEF ThrowsForCause, Made
  <2> QED
    BY <2>1, <2>4, FailsInv
<1>5. CASE ~(run.todo # {} /\ File \notin Made)
  <2>1. /\ UNCHANGED <<subs, schemas, loadAll, central, nav, gens, defs, outcome>>
        /\ IF run.todo = {} THEN run' = At("links", DOMAIN cache) /\ UNCHANGED cache
           ELSE /\ cache' = [cache EXCEPT ![File].externals = ExternalImports(File),
                                          ![File].names = EntryNames(File)]
                /\ run' = At("externals", run.todo \ {File})
    BY <1>5 DEF FixExternals, repoVars, diskVars, Made
  <2>2. Made' = Made /\ outcome' = ""
    BY <1>3, <2>1 DEF Made
  <2>3. CASE run.todo = {}
    <3>1. /\ run'.step = "links" /\ run'.todo = DOMAIN cache /\ run' = At(run'.step, run'.todo)
          /\ UNCHANGED cache
      BY <2>1, <2>3 DEF At
    <3>2. TypeInv'
      BY <2>1, <2>2, <3>1 DEF Inv, TypeInv, Steps, LateSteps, FixSteps
    <3>3. \A f \in Made : Served(f, cache[f].imports)'
      BY <1>2, <2>1, <3>1, ServedSame
    <3>4. FixInv'
      BY <1>2, <2>1, <2>2, <2>3, <3>1, <3>3 DEF FixInv, Described
    <3>5. ConvertInv'
      BY <3>1 DEF ConvertInv
    <3> QED
      BY <1>3, <2>1, <3>1, <3>2, <3>4, <3>5, LateStepInv DEF LateSteps, FixSteps
  <2>4. CASE run.todo # {}
    <3> DEFINE file == File
    <3>1. /\ run'.step = "externals" /\ run'.todo = run.todo \ {file} /\ run' = At(run'.step, run'.todo)
          /\ cache' = [cache EXCEPT ![file].externals = schemas[file].externals,
                                    ![file].names = schemas[file].names]
      BY <2>1, <2>4 DEF At, ExternalImports, EntryNames
    <3>2. file \in run.todo /\ file \in Made
      BY <1>2, <1>5, <2>4, FileOfTodo DEF Inv, TypeInv
    <3> HIDE DEF file
    <3>3. TypeInv'
      BY <2>1, <2>2, <3>1 DEF Inv, TypeInv, Steps, LateSteps, FixSteps
    <3>4. DOMAIN cache' = DOMAIN cache /\ \A f \in DOMAIN cache : f # file => cache'[f] = cache[f]
      BY <3>1
    <3>5. /\ DOMAIN cache'[file] = Fields
          /\ cache'[file].uses = cache[file].uses /\ cache'[file].imports = cache[file].imports
          /\ cache'[file].externals = schemas[file].externals
          /\ cache'[file].names = schemas[file].names
      BY <1>2, <3>1, <3>2 DEF Fields
    <3>6. ASSUME NEW f \in Made
          PROVE  /\ DOMAIN cache'[f] = Fields /\ cache'[f].uses \subseteq DOMAIN defs'
                 /\ Served(f, cache[f].imports)'
      <4>1. /\ DOMAIN cache'[f] = Fields
            /\ cache'[f].uses = cache[f].uses /\ cache'[f].imports = cache[f].imports
        BY <1>2, <3>4, <3>5
      <4> QED
        BY <1>2, <2>1, <4>1, ServedSame
    <3>7. ASSUME NEW f \in DOMAIN gens \ run'.todo PROVE f \in Made /\ Described(f, cache[f])'
      BY <1>2, <2>1, <3>1, <3>2, <3>4, <3>5 DEF Described
    <3>8. FixInv'
      BY <1>2, <2>1, <2>2, <3>1, <3>4, <3>6, <3>7 DEF FixInv
    <3>9. ConvertInv'
      BY <3>1 DEF ConvertInv
    <3> QED
      BY <1>3, <2>1, <3>1, <3>3, <3>8, <3>9, LateStepInv DEF LateSteps, FixSteps
  <2> QED
    BY <2>3, <2>4
<1> QED
  BY <1>4, <1>5

LEMMA FixLinksInv ==
  ASSUME Inv, FixLinks
  PROVE  Inv'
<1>1. run.step = "links"
  BY DEF FixLinks
<1>2. /\ DOMAIN cache = DOMAIN gens /\ Made \subseteq DOMAIN gens /\ run.todo \subseteq DOMAIN gens
      /\ \A f \in Made : /\ DOMAIN cache[f] = Fields /\ cache[f].uses \subseteq DOMAIN defs
                         /\ Served(f, cache[f].imports)
      /\ \A n \in DOMAIN defs : defs[n] \in DOMAIN gens
      /\ \A f \in DOMAIN gens : f \in Made /\ Described(f, cache[f])
  BY <1>1 DEF Inv, FixInv, FixSteps
<1>3. RegistriesWritten /\ outcome = ""
  BY <1>1 DEF Inv, TypeInv, RegistriesInv, LateSteps, FixSteps
<1>4. run.todo # {} => File \in run.todo
  BY <1>2, FileOfTodo DEF Inv, TypeInv
<1>5. ~(run.todo # {} /\ Unlinked(cache[File].uses) # {})
  BY <1>2, <1>4 DEF Unlinked, Made
<1>6. /\ UNCHANGED <<subs, schemas, loadAll, central, nav, gens, defs, outcome>>
      /\ IF run.todo = {} THEN run' = At("write", DOMAIN cache) /\ UNCHANGED cache
         ELSE /\ cache' = [cache EXCEPT ![File].links =
                    {<<n, defs[n], RegistryExports(defs[n]) # {}>> : n \in cache[File].uses}]
              /\ run' = At("links", run.todo \ {File})
  BY <1>5 DEF FixLinks, repoVars, diskVars
<1>7. Made' = Made /\ outcome' = ""
  BY <1>3, <1>6 DEF Made
<1>8. CASE run.todo = {}
  <2>1. /\ run'.step = "write" /\ run'.todo = DOMAIN cache /\ run' = At(run'.step, run'.todo)
        /\ UNCHANGED cache
    BY <1>6, <1>8 DEF At
  <2>2. TypeInv'
    BY <1>6, <1>7, <2>1 DEF Inv, TypeInv, Steps, LateSteps, FixSteps
  <2>3. \A f \in Made : Served(f, cache[f].imports)'
    BY <1>2, <1>6, <2>1, ServedSame
  <2>4. FixInv'
    BY <1>2, <1>6, <1>7, <2>1, <2>3 DEF FixInv, Described
  <2>5. ConvertInv'
    BY <2>1 DEF ConvertInv
  <2> QED
    BY <1>3, <1>6, <2>1, <2>2, <2>4, <2>5, LateStepInv DEF LateSteps, FixSteps
<1>9. CASE run.todo # {}
  <2> DEFINE file == File
             links == {<<n, defs[n], RegistryExports(defs[n]) # {}>> : n \in cache[file].uses}
  <2>1. /\ run'.step = "links" /\ run'.todo = run.todo \ {file} /\ run' = At(run'.step, run'.todo)
        /\ cache' = [cache EXCEPT ![file].links = links]
    BY <1>6, <1>9 DEF At
  <2>2. file \in run.todo
    BY <1>4, <1>9
  <2> HIDE DEF file, links
  <2>3. TypeInv'
    BY <1>6, <1>7, <2>1 DEF Inv, TypeInv, Steps, LateSteps, FixSteps
  <2>4. DOMAIN cache' = DOMAIN cache /\ \A f \in DOMAIN cache : f # file => cache'[f] = cache[f]
    BY <2>1
  <2>5. /\ DOMAIN cache'[file] = Fields
        /\ cache'[file].uses = cache[file].uses /\ cache'[file].imports = cache[file].imports
        /\ cache'[file].externals = cache[file].externals /\ cache'[file].names = cache[file].names
    BY <1>2, <2>1, <2>2 DEF Fields
  <2>6. ASSUME NEW f \in Made
        PROVE  /\ DOMAIN cache'[f] = Fields /\ cache'[f].uses \subseteq DOMAIN defs'
               /\ Served(f, cache[f].imports)' /\ Described(f, cache[f])'
    <3>1. /\ DOMAIN cache'[f] = Fields
          /\ cache'[f].uses = cache[f].uses /\ cache'[f].imports = cache[f].imports
          /\ cache'[f].externals = cache[f].externals /\ cache'[f].names = cache[f].names
      BY <1>2, <2>4, <2>5
    <3> QED
      BY <1>2, <1>6, <3>1, ServedSame DEF Described
  <2>7. FixInv'
    BY <1>2, <1>6, <1>7, <2>1, <2>4, <2>6 DEF FixInv
  <2>8. ConvertInv'
    BY <2>1 DEF ConvertInv
  <2> QED
    BY <1>3, <1>6, <2>1, <2>3, <2>7, <2>8, LateStepInv DEF LateSteps, FixSteps
<1> QED
  BY <1>8, <1>9

LEMMA WriteChangedInv ==
  ASSUME Inv, WriteChanged
  PROVE  Inv'
<1>1. /\ run.step = "write"
      /\ IF run.todo = {} THEN run' = Idle /\ outcome' = "done" /\ UNCHANGED gens
         ELSE /\ gens' = [gens EXCEPT ![File] = cache[File]]
              /\ run' = At("write", run.todo \ {File})
              /\ UNCHANGED outcome
      /\ UNCHANGED <<subs, schemas, loadAll, central, nav, cache, defs>>
  BY DEF WriteChanged, repoVars, workVars
<1>2. /\ DOMAIN cache = DOMAIN gens /\ Made \subseteq DOMAIN gens /\ run.todo \subseteq DOMAIN gens
      /\ \A f \in Made : /\ DOMAIN cache[f] = Fields /\ cache[f].uses \subseteq DOMAIN defs
                         /\ Served(f, cache[f].imports)
      /\ \A n \in DOMAIN defs : defs[n] \in DOMAIN gens
      /\ \A f \in DOMAIN gens : f \in Made /\ Described(f, cache[f])
      /\ \A f \in DOMAIN gens \ run.todo : gens[f] = cache[f]
  BY <1>1 DEF Inv, FixInv, FixSteps
<1>3. RegistriesWritten /\ outcome = "" /\ Made' = Made
  BY <1>1 DEF Inv, TypeInv, RegistriesInv, LateSteps, FixSteps, Made
<1>4. CASE run.todo = {}
  <2>1. /\ run'.step = "idle" /\ run'.todo = {} /\ run' = At(run'.step, run'.todo)
        /\ outcome' = "done" /\ UNCHANGED gens
    BY <1>1, <1>4 DEF At, Idle
  <2>2. TypeInv'
    BY <1>1, <1>3, <2>1 DEF Inv, TypeInv, Steps
  <2>3. RegistriesInv'
    BY <1>1, <1>3
    DEF RegistriesInv, RegistriesWritten, FoldersWritten, LoadAllOf, NavOf, Visible, CentralOf
  <2>4. ASSUME NEW f \in Made PROVE Described(f, gens[f])' /\ Served(f, gens[f].imports)'
    <3>1. f \in DOMAIN gens /\ gens'[f] = cache[f]
      BY <1>2, <1>4, <2>1
    <3>2. Described(f, cache[f]) /\ Served(f, cache[f].imports)
      BY <1>2, <3>1
    <3>3. Described(f, gens[f])'
      BY <1>1, <3>1, <3>2 DEF Described
    <3>4. Served(f, gens[f].imports)'
      BY <1>1, <2>1, <3>1, <3>2 DEF Served, Made, MadeOnce, ImportsOf
    <3> QED
      BY <3>3, <3>4
  <2>5. DoneInv'
    BY <1>2, <1>3, <2>1, <2>4 DEF DoneInv
  <2>6. ThrowsForCause'
    BY <2>1 DEF ThrowsForCause
  <2> QED
    BY <2>1, <2>2, <2>3, <2>5, <2>6, IdleInv
<1>5. CASE run.todo # {}
  <2> DEFINE file == File
  <2>1. /\ run'.step = "write" /\ run'.todo = run.todo \ {file} /\ run' = At(run'.step, run'.todo)
        /\ gens' = [gens EXCEPT ![file] = cache[file]] /\ outcome' = ""
    <3>1. run' = At("write", run.todo \ {file}) /\ gens' = [gens EXCEPT ![file] = cache[file]]
      BY <1>1, <1>5
    <3>2. outcome' = ""
      BY <1>1, <1>3, <1>5
    <3> QED
      BY <3>1, <3>2 DEF At
  <2>2. file \in run.todo
    BY <1>2, <1>5, FileOfTodo DEF Inv, TypeInv
  <2> HIDE DEF file
  <2>3. DOMAIN gens' = DOMAIN gens
    BY <2>1
  <2>4. TypeInv'
    BY <1>1, <1>3, <2>1, <2>3 DEF Inv, TypeInv, Steps, LateSteps, FixSteps
  <2>5. ASSUME NEW f \in DOMAIN gens \ run'.todo PROVE gens'[f] = cache[f]
    BY <1>2, <2>1
  <2>6. \A f \in Made : Served(f, cache[f].imports)'
    BY <1>1, <1>2, <2>3, ServedSame
  <2>7. FixInv'
    BY <1>1, <1>2, <1>3, <2>1, <2>3, <2>5, <2>6 DEF FixInv, Described
  <2>8. ConvertInv'
    BY <2>1 DEF ConvertInv
  <2> QED
    BY <1>1, <1>3, <2>1, <2>4, <2>7, <2>8, LateStepInv DEF LateSteps, FixSteps
<1> QED
  BY <1>4, <1>5

LEMMA KillInv ==
  ASSUME Inv, Kill
  PROVE  Inv'
<1>1. run # Idle /\ run' = Idle /\ UNCHANGED <<schemas, central, gens, outcome>>
  BY DEF Kill, repoVars, diskVars
<1>2. run'.step = "idle" /\ run'.todo = {} /\ run' = At(run'.step, run'.todo)
  BY <1>1 DEF Idle, At
<1>3. outcome' = ""
  BY <1>1 DEF Inv, TypeInv, Idle, At
<1>4. TypeInv'
  BY <1>1, <1>2, <1>3 DEF Inv, TypeInv, Made, Steps
<1>5. RegistriesInv' /\ DoneInv' /\ ThrowsForCause'
  BY <1>2, <1>3 DEF RegistriesInv, LateSteps, FixSteps, DoneInv, ThrowsForCause
<1> QED
  BY <1>2, <1>4, <1>5, IdleInv

-----------------------------------------------------------------------------
(* A change of the sources, and the theorems.                              *)

(* What a developer changes has no outcome yet.                            *)
LEMMA EditedInv ==
  ASSUME Inv, Edited, DOMAIN schemas' \subseteq Files, DOMAIN gens' \subseteq DOMAIN gens
  PROVE  Inv'
<1>1. run = Idle /\ outcome' = "" /\ UNCHANGED <<central, run>>
  BY DEF Edited
<1>2. run'.step = "idle" /\ run'.todo = {} /\ run' = At(run'.step, run'.todo)
  BY <1>1 DEF Idle, At
<1>3. TypeInv'
  BY <1>1, <1>2 DEF Inv, TypeInv, Made, Steps
<1>4. RegistriesInv' /\ DoneInv' /\ ThrowsForCause'
  BY <1>1, <1>2 DEF RegistriesInv, LateSteps, FixSteps, DoneInv, ThrowsForCause
<1> QED
  BY <1>2, <1>3, <1>4, IdleInv

LEMMA ChangeInv ==
  ASSUME Inv, Change
  PROVE  Inv'
<1>1. DOMAIN schemas \subseteq Files
  BY DEF Inv, TypeInv, Made
<1>2. PICK c \in Changes :
        CASE c.kind = "add" -> AddSchema(c.file, c.schema)
          [] c.kind = "remove" -> RemoveSchema(c.file, c.all)
          [] c.kind = "move" -> MoveDefinition(c.name, c.file, c.to)
  BY DEF Change
<1>3. c.kind \in {"add", "remove", "move"} /\ (c.kind = "add" => c.file \in Files)
  BY RepoAssumption
<1>4. CASE c.kind = "add"
  <2>1. AddSchema(c.file, c.schema)
    BY <1>2, <1>4
  <2>2. DOMAIN schemas' \subseteq Files /\ DOMAIN gens' \subseteq DOMAIN gens /\ Edited
    BY <1>1, <1>3, <1>4, <2>1 DEF AddSchema
  <2> QED
    BY <2>2, EditedInv
<1>5. CASE c.kind = "remove"
  <2>1. RemoveSchema(c.file, c.all)
    BY <1>2, <1>5
  <2>2. DOMAIN schemas' \subseteq Files /\ DOMAIN gens' \subseteq DOMAIN gens /\ Edited
    BY <1>1, <2>1 DEF RemoveSchema, Restrict
  <2> QED
    BY <2>2, EditedInv
<1>6. CASE c.kind = "move"
  <2>1. MoveDefinition(c.name, c.file, c.to)
    BY <1>2, <1>6
  <2>2. DOMAIN schemas' \subseteq Files /\ DOMAIN gens' \subseteq DOMAIN gens /\ Edited
    BY <1>1, <2>1 DEF MoveDefinition
  <2> QED
    BY <2>2, EditedInv
<1> QED
  BY <1>3, <1>4, <1>5, <1>6

LEMMA StutterInv ==
  ASSUME Inv, UNCHANGED genVars
  PROVE  Inv'
<1>1. /\ UNCHANGED <<subs, schemas, loadAll, central, nav, gens>>
      /\ UNCHANGED <<run, cache, defs, groups, outcome>>
  BY DEF genVars, repoVars, diskVars, workVars
<1>2. TypeInv' /\ ConvertInv'
  BY <1>1, ConvertedSame DEF Inv, TypeInv, ConvertInv, Made, ConvertedFrom
<1>3. FoldersInv'
  BY <1>1 DEF Inv, FoldersInv, FoldersWritten, LoadAllOf, NavOf, Visible, Collected, LoadsOf, Under, Folder
<1>4. CentralInv'
  BY <1>1 DEF Inv, CentralInv, FoldersWritten, LoadAllOf, NavOf, Visible, Collected, LoadsOf, CentralOf
<1>5. RegistriesInv'
  BY <1>1
  DEF Inv, RegistriesInv, RegistriesWritten, FoldersWritten, LoadAllOf, NavOf, Visible, CentralOf
<1>6. FixInv'
  BY <1>1, ServedSame DEF Inv, FixInv, Made, Described
<1>7. DoneInv'
  <2>1. outcome = "done" => \A f \in Made : Served(f, gens[f].imports)'
    BY <1>1, ServedWritten DEF Inv, DoneInv
  <2> QED
    BY <1>1, <2>1 DEF Inv, DoneInv, Made, Described
<1>8. ThrowsForCause'
  BY <1>1 DEF Inv, ThrowsForCause, Visible
<1> QED
  BY <1>2, <1>3, <1>4, <1>5, <1>6, <1>7, <1>8 DEF Inv

LEMMA NextInv ==
  ASSUME Inv, [GenNext]_genVars
  PROVE  Inv'
BY GenerateInv, RemoveGenFilesInv, WriteLoadAllInv, GenerateDocsNavInv, ReadExportsInv,
   BeginCentralInv, WriteCentralInv, ConvertFolderInv, FixImportsInv, FixExternalsInv,
   FixLinksInv, WriteChangedInv, KillInv, ChangeInv, StutterInv
DEF GenNext, GenStep

(* What the invariant says of a run that ended well.                       *)
LEMMA InvFresh ==
  ASSUME Inv
  PROVE  GeneratedAfresh
<1> SUFFICES ASSUME outcome = "done" PROVE GeneratedAfresh
  BY DEF GeneratedAfresh
<1>1. RegistriesWritten
  BY DEF Inv, RegistriesInv
<1>2. DOMAIN gens = Made /\ \A f \in Made : Described(f, gens[f]) /\ Served(f, gens[f].imports)
  BY DEF Inv, DoneInv
<1>3. ASSUME NEW g \in DOMAIN central
      PROVE  /\ {key[1] : key \in central[g]} = {f \in Folders : g \in GroupsOf(f)}
             /\ \A key \in central[g] : key \in DOMAIN loadAll /\ loadAll[key] = Visible(key[1])
  <2>1. central[g] = LoadsOf(g, Folders)
    BY <1>1, <1>3 DEF Inv, TypeInv, RegistriesWritten, CentralOf
  <2>2. \A key \in LoadsOf(g, Folders) :
          key = <<key[1], g>> /\ key[1] \in Folders /\ g \in GroupsOf(key[1])
    BY DEF LoadsOf
  <2>3. {key[1] : key \in LoadsOf(g, Folders)} = {f \in Folders : g \in GroupsOf(f)}
    <3>1. ASSUME NEW f \in Folders, g \in GroupsOf(f)
          PROVE  f \in {key[1] : key \in LoadsOf(g, Folders)}
      <4>1. <<f, g>> \in LoadsOf(g, Folders) /\ <<f, g>>[1] = f
        BY <3>1 DEF LoadsOf
      <4> QED
        BY <4>1
    <3> QED
      BY <2>2, <3>1
  <2> QED
    BY <1>1, <2>1, <2>2, <2>3 DEF RegistriesWritten, FoldersWritten, LoadAllOf
<1>4. UNION {GroupsOf(f) : f \in Folders} \subseteq DOMAIN central
  <2>1. ASSUME NEW f \in Folders, NEW g \in GroupsOf(f) PROVE g \in Groups
    BY <2>1 DEF Groups, GroupsOf
  <2> QED
    BY <1>1, <2>1 DEF RegistriesWritten, CentralOf
<1>5. \A f \in Folders : nav[f] = Visible(f)
  BY <1>1 DEF RegistriesWritten, FoldersWritten, NavOf
<1>6. ASSUME NEW f \in DOMAIN gens
      PROVE  /\ gens[f].names = schemas[f].names /\ gens[f].externals = schemas[f].externals
             /\ \A n \in schemas[f].uses \ schemas[f].defines :
                  LET of == {i \in gens[f].imports : i[1] = n} IN
                  /\ of # {} /\ \A i \in of : i[2] \in DOMAIN schemas /\ n \in schemas[i[2]].defines
                  /\ MadeOnce(n) => Cardinality(of) = 1
  BY <1>2 DEF Described, Served, ImportsOf, Made
<1> QED
  BY <1>2, <1>3, <1>4, <1>5, <1>6 DEF GeneratedAfresh, Made

THEOREM RunsKeepInvariant == GenSpec => []Inv
<1>1. GenInit => Inv
  BY InitInv
<1>2. Inv /\ [GenNext]_genVars => Inv'
  BY NextInv
<1> QED
  BY <1>1, <1>2, PTL DEF GenSpec

(* Whatever earlier runs left, wherever they were killed: after a run that *)
(* ended well the registries load the entries there are, the pages show    *)
(* them, and every interface file has its names, its classes and one       *)
(* import for each interface it does not make, from a schema that makes it *)
(* (ciSchemaGen.ts:124-572).                                               *)
THEOREM GenerationIsFresh == GenSpec => []GeneratedAfresh
<1>1. Inv => GeneratedAfresh
  BY InvFresh
<1> QED
  BY <1>1, RunsKeepInvariant, PTL

(* A run that throws does so for an entry without a schema, a generated    *)
(* file whose schema is gone or an interface that nobody makes             *)
(* (ciSchemaGen.ts:355, 400, 470).                                         *)
THEOREM ThrowsHaveCause == GenSpec => []ThrowsForCause
<1>1. Inv => ThrowsForCause
  BY DEF Inv
<1> QED
  BY <1>1, RunsKeepInvariant, PTL

-----------------------------------------------------------------------------
(* The files of a host.                                                     *)

(* What an operation touches, and what it leaves there.                     *)
Touches(o) ==
  IF o.does \in {"rm", "rmf"} THEN Below(o.path) \cup {o.path}
  ELSE IF o.does \in {"request", "throw"} THEN {}
  ELSE Above(o.path) \cup {o.path}
Leaves(o, p) ==
  IF o.does \in {"rm", "rmf"} THEN Absent
  ELSE IF p # o.path \/ o.does \in {"mkdirp", "mkdir"} THEN Dir
  ELSE IF o.does = "open" THEN Torn
  ELSE o.what

Kinds == {"mkdirp", "mkdir", "open", "rm", "rmf", "test", "throw", "request", "fill", "receive"}
Fills(o) == o.does \in {"fill", "receive"}
OpList(ops) ==
  IsList(ops) /\ \A k \in DOMAIN ops : ops[k].does \in Kinds /\ ops[k].path \in Paths

(* The last operation before k that touches its path opened the file, or    *)
(* wrote it.                                                                *)
Untouched(ops, p, j, k) == \A i \in DOMAIN ops : j < i /\ i < k => p \notin Touches(ops[i])
Opened(ops, k) ==
  \E j \in DOMAIN ops : /\ j < k /\ ops[j].does = "open" /\ ops[j].path = ops[k].path
                        /\ Untouched(ops, ops[k].path, j, k)
Written(ops, k) ==
  \E j \in DOMAIN ops : /\ j < k /\ Fills(ops[j]) /\ ops[j].path = ops[k].path
                        /\ ops[j].what = ops[k].what /\ Untouched(ops, ops[k].path, j, k)

(* The last operation that touches p leaves it in S.                        *)
Will(ops, p, S) ==
  \E k \in DOMAIN ops : /\ p \in Touches(ops[k]) /\ Leaves(ops[k], p) \in S
                        /\ \A j \in DOMAIN ops : k < j => p \notin Touches(ops[j])
Spares(ops, p) == \A k \in DOMAIN ops : p \notin Touches(ops[k])
Gets(ops, p, S) == Will(ops, p, S) \/ (Spares(ops, p) /\ tree[p] \in S)

OpensFirst(ops) ==
  \A k \in DOMAIN ops : Fills(ops[k]) =>
    Opened(ops, k) \/ (tree[ops[k].path] = Torn /\ Untouched(ops, ops[k].path, 0, k))
TestsKnown(ops) ==
  \A k \in DOMAIN ops : ops[k].does = "test" =>
    \/ Written(ops, k)
    \/ /\ tree[ops[k].path] \in {Absent, Dir, Torn, ops[k].what}
       /\ Untouched(ops, ops[k].path, 0, k)
Host == tree = [p \in Paths |-> tree[p]] /\ Rooted(tree)

-----------------------------------------------------------------------------
(* Paths.                                                                   *)
LEMMA AboveFacts ==
  ASSUME NEW p \in Paths, NEW q \in Above(p)
  PROVE  q \in Paths /\ Len(q) < Len(p) /\ q # p /\ Above(q) \subseteq Above(p)
<1>1. p \in Seq(ToSet(p)) /\ p # <<>> /\ Above(p) \subseteq Paths
  BY PathsAssumption DEF IsList
<1>2. PICK n \in 1 .. Len(p) - 1 : q = SubSeq(p, 1, n)
  BY DEF Above
<1>3. Len(p) \in Nat /\ n \in Nat /\ n < Len(p) /\ Len(q) = n
  BY <1>1, <1>2
<1>4. ASSUME NEW r \in Above(q) PROVE r \in Above(p)
  <2>1. PICK m \in 1 .. n - 1 : r = SubSeq(q, 1, m)
    BY <1>3 DEF Above
  <2>2. SubSeq(SubSeq(p, 1, n), 1, m) = SubSeq(p, 1, m)
    BY <1>1, <1>3, <2>1
  <2> QED
    BY <1>2, <1>3, <2>1, <2>2 DEF Above
<1> QED
  BY <1>1, <1>3, <1>4

LEMMA BelowFacts ==
  ASSUME NEW p \in Paths, NEW q \in Below(p)
  PROVE  q \in Paths /\ q # p /\ p \in Above(q) /\ Below(q) \subseteq Below(p)
<1>1. q \in Paths /\ p \in Above(q)
  BY DEF Below
<1>2. ASSUME NEW r \in Below(q) PROVE r \in Below(p)
  <2>1. r \in Paths /\ q \in Above(r)
    BY DEF Below
  <2> QED
    BY <1>1, <2>1, AboveFacts DEF Below
<1> QED
  BY <1>1, <1>2, AboveFacts

LEMMA FrontFacts ==
  ASSUME NEW p \in Paths, Len(p) > 1
  PROVE  Front(p) \in Paths /\ Above(p) = Above(Front(p)) \cup {Front(p)}
<1>1. p \in Seq(ToSet(p)) /\ Above(p) \subseteq Paths /\ Len(p) \in Nat
  BY PathsAssumption DEF IsList
<1> DEFINE N == Len(p) - 1
<1>2. N \in 1 .. Len(p) - 1 /\ Front(p) = SubSeq(p, 1, N)
  BY <1>1 DEF Front
<1>3. Len(Front(p)) = N
  BY <1>1, <1>2
<1>4. \A m \in 1 .. N - 1 : SubSeq(SubSeq(p, 1, N), 1, m) = SubSeq(p, 1, m)
  BY <1>1, <1>2
<1>5. Above(Front(p)) = {SubSeq(p, 1, m) : m \in 1 .. N - 1}
  BY <1>2, <1>3, <1>4 DEF Above
<1>6. Above(p) = {SubSeq(p, 1, m) : m \in 1 .. N - 1} \cup {SubSeq(p, 1, N)}
  BY <1>1, <1>2 DEF Above
<1> QED
  BY <1>1, <1>2, <1>5, <1>6

LEMMA TempFacts ==
  /\ Tmp \in Paths /\ Temp \in Paths
  /\ \A p \in {Tmp, Temp} : Above(p) = {} /\ Below(p) = {}
  /\ \A p \in Paths : Tmp \notin Below(p) /\ Temp \notin Below(p) /\ Tmp \notin Above(p) /\ Temp \notin Above(p)
<1>1. Tmp \in Paths /\ Temp \in Paths /\ Below(Tmp) = {} /\ Below(Temp) = {}
  BY PathsAssumption
<1>2. Len(Tmp) = 1 /\ Len(Temp) = 1
  BY DEF Tmp, Temp
<1>3. Above(Tmp) = {} /\ Above(Temp) = {}
  BY <1>2 DEF Above
<1> QED
  BY <1>1, <1>3 DEF Below

(* What an operation does that is possible: it leaves the paths it touches  *)
(* as Leaves says, the others alone, and no path without its directory.     *)
LEMMA Performed ==
  ASSUME Host, NEW o, o.does \in Kinds, o.path \in Paths, Possible(o),
         Fills(o) => tree[o.path] = Torn,
         o.does = "test" => tree[o.path] \in {Absent, Dir, Torn, o.what}
  PROVE  /\ After(o) = [p \in Paths |-> After(o)[p]] /\ Rooted(After(o))
         /\ \A p \in Paths : p \notin Touches(o) => After(o)[p] = tree[p]
         /\ \A p \in Touches(o) : p \in Paths /\ After(o)[p] = Leaves(o, p)
<1> DEFINE t == After(o)  x == o.path
<1>1. tree = [p \in Paths |-> tree[p]] /\ Rooted(tree) /\ x \in Paths
  BY DEF Host
<1>2. \A q \in Paths : tree[q] # Absent => \A p \in Above(q) : tree[p] = Dir
  BY <1>1 DEF Rooted
<1>3. \A q \in Above(x) : q \in Paths /\ q # x /\ Above(q) \subseteq Above(x)
  BY <1>1, AboveFacts
<1>4. CASE o.does \in {"mkdirp", "mkdir"}
  <2>1. t = [q \in Paths |-> IF q = x \/ q \in Above(x) THEN Dir ELSE tree[q]]
    BY <1>4 DEF After
  <2>2. Rooted(t)
    BY <1>2, <1>3, <2>1, AboveFacts DEF Rooted
  <2> QED
    BY <1>1, <1>3, <1>4, <2>1, <2>2 DEF Touches, Leaves
<1>5. CASE o.does = "open"
  <2>1. t = [tree EXCEPT ![x] = Torn]
    BY <1>5 DEF After
  <2>2. tree[x] # Dir /\ \A q \in Above(x) : tree[q] = Dir
    BY <1>5 DEF Possible
  <2>3. \A p \in Paths : p # x => t[p] = tree[p]
    BY <1>1, <2>1
  <2>4. t[x] = Torn /\ t = [p \in Paths |-> t[p]]
    BY <1>1, <2>1
  <2>5. ASSUME NEW q \in Paths, t[q] # Absent, NEW p \in Above(q) PROVE t[p] = Dir
    BY <1>1, <1>2, <1>3, <2>2, <2>3, <2>4, <2>5, AboveFacts
  <2> QED
    BY <1>1, <1>3, <1>5, <2>2, <2>3, <2>4, <2>5 DEF Touches, Leaves, Rooted
<1>6. CASE Fills(o)
  <2>1. t = [tree EXCEPT ![x] = o.what]
    BY <1>6 DEF After, Fills
  <2>2. tree[x] = Torn /\ \A q \in Above(x) : tree[q] = Dir
    BY <1>1, <1>2, <1>6 DEF Torn, Absent
  <2>3. \A p \in Paths : p # x => t[p] = tree[p]
    BY <1>1, <2>1
  <2>4. t[x] = o.what /\ t = [p \in Paths |-> t[p]]
    BY <1>1, <2>1
  <2>5. ASSUME NEW q \in Paths, t[q] # Absent, NEW p \in Above(q) PROVE t[p] = Dir
    <3>1. tree[q] # Absent
      BY <2>2, <2>3, <2>5 DEF Torn, Absent
    <3>2. tree[p] = Dir /\ p \in Paths
      BY <1>2, <3>1, AboveFacts
    <3> QED
      BY <2>2, <2>3, <3>2 DEF Torn, Dir
  <2> QED
    BY <1>1, <1>3, <1>6, <2>2, <2>3, <2>4, <2>5 DEF Touches, Leaves, Rooted, Fills
<1>7. CASE o.does \in {"rm", "rmf"}
  <2>1. t = [q \in Paths |-> IF q = x \/ q \in Below(x) THEN Absent ELSE tree[q]]
    BY <1>7 DEF After
  <2>2. ASSUME NEW q \in Paths, t[q] # Absent, NEW p \in Above(q) PROVE t[p] = Dir
    <3>1. q \notin Below(x) /\ tree[q] # Absent
      BY <2>1, <2>2
    <3>2. tree[p] = Dir /\ p \in Paths
      BY <1>2, <3>1, AboveFacts
    <3>3. p # x
      BY <3>1 DEF Below
    <3>4. p \notin Below(x)
      BY <3>1, <3>2, AboveFacts DEF Below
    <3> QED
      BY <2>1, <3>2, <3>3, <3>4
  <2> QED
    BY <1>1, <1>7, <2>1, <2>2, BelowFacts DEF Touches, Leaves, Rooted
<1>8. CASE o.does = "test"
  <2>1. t = tree
    BY <1>8 DEF After
  <2>2. tree[x] = o.what /\ tree[x] # Absent
    BY <1>8 DEF Possible, Whole
  <2> QED
    BY <1>1, <1>2, <1>3, <1>8, <2>1, <2>2 DEF Touches, Leaves
<1>9. CASE o.does \in {"request", "throw"}
  <2>1. t = tree
    BY <1>9 DEF After
  <2> QED
    BY <1>1, <1>9, <2>1 DEF Touches
<1> QED
  BY <1>4, <1>5, <1>6, <1>7, <1>8, <1>9 DEF Kinds, Fills
-----------------------------------------------------------------------------
(* Lists of operations.                                                     *)
LEMMA ListFacts ==
  ASSUME NEW S, NEW s \in Seq(S)
  PROVE  IsList(s) /\ Len(s) \in Nat /\ DOMAIN s = 1 .. Len(s)
BY DEF IsList, ToSet

LEMMA TailFacts ==
  ASSUME NEW s, IsList(s), s # <<>>
  PROVE  /\ IsList(Tail(s)) /\ Len(s) \in Nat /\ DOMAIN s = 1 .. Len(s) /\ 1 \in DOMAIN s
         /\ Head(s) = s[1]
         /\ \A k \in Nat : k \in DOMAIN Tail(s) <=> k # 0 /\ k + 1 \in DOMAIN s
         /\ \A k \in DOMAIN Tail(s) : k \in Nat /\ Tail(s)[k] = s[k + 1]
<1>1. s \in Seq(ToSet(s))
  BY DEF IsList
<1>2. /\ Tail(s) \in Seq(ToSet(s)) /\ Len(Tail(s)) = Len(s) - 1 /\ Len(s) \in Nat /\ Len(s) > 0
      /\ Head(s) = s[1] /\ \A k \in 1 .. Len(s) - 1 : Tail(s)[k] = s[k + 1]
  BY <1>1
<1>3. IsList(Tail(s)) /\ DOMAIN Tail(s) = 1 .. Len(s) - 1 /\ DOMAIN s = 1 .. Len(s)
  BY <1>1, <1>2, ListFacts
<1> QED
  BY <1>2, <1>3

LEMMA TailUntouched ==
  ASSUME NEW ops, OpList(ops), ops # <<>>, NEW p, NEW j \in Nat, NEW k \in Nat,
         Untouched(ops, p, j + 1, k + 1)
  PROVE  Untouched(Tail(ops), p, j, k)
BY TailFacts DEF Untouched, OpList

(* One operation less: what it left is there, what comes is the same.       *)
LEMMA NextOperation ==
  ASSUME Host, OpList(todo), OpensFirst(todo), TestsKnown(todo), todo # <<>>,
         Possible(Head(todo)), tree' = After(Head(todo)), todo' = Tail(todo)
  PROVE  /\ Host' /\ OpList(todo)' /\ OpensFirst(todo)' /\ TestsKnown(todo)'
         /\ \A p \in Paths : p \notin Touches(Head(todo)) => tree'[p] = tree[p]
         /\ Fills(Head(todo)) => tree[Head(todo).path] = Torn
         /\ \A p \in Touches(Head(todo)) : p \in Paths /\ tree'[p] = Leaves(Head(todo), p)
         /\ \A p \in Paths : \A S : Gets(todo, p, S) => Gets(todo, p, S)'
<1> DEFINE o == Head(todo)
<1>1. /\ o = todo[1] /\ 1 \in DOMAIN todo /\ IsList(todo)
      /\ \A k \in DOMAIN todo : k \in Nat /\ k >= 1 /\ todo[k].does \in Kinds /\ todo[k].path \in Paths
      /\ o.does \in Kinds /\ o.path \in Paths
  BY TailFacts DEF OpList
<1>2. /\ IsList(todo')
      /\ \A k \in Nat : k \in DOMAIN todo' <=> k # 0 /\ k + 1 \in DOMAIN todo
      /\ \A k \in DOMAIN todo' : k \in Nat /\ todo'[k] = todo[k + 1] /\ k + 1 \in DOMAIN todo
  BY <1>1, TailFacts
<1>3. OpList(todo)'
  BY <1>1, <1>2 DEF OpList
<1>4. Fills(o) => tree[o.path] = Torn
  <2>1. ~ Opened(todo, 1)
    BY <1>1 DEF Opened
  <2> QED
    BY <1>1, <2>1 DEF OpensFirst
<1>5. o.does = "test" => tree[o.path] \in {Absent, Dir, Torn, o.what}
  <2>1. ~ Written(todo, 1)
    BY <1>1 DEF Written
  <2> QED
    BY <1>1, <2>1 DEF TestsKnown
<1>6. /\ tree' = [p \in Paths |-> tree'[p]] /\ Rooted(tree')
      /\ \A p \in Paths : p \notin Touches(o) => tree'[p] = tree[p]
      /\ \A p \in Touches(o) : p \in Paths /\ tree'[p] = Leaves(o, p)
  <2> HIDE DEF o
  <2> QED
    BY <1>1, <1>4, <1>5, Performed DEF o
<1>7. Host'
  BY <1>6 DEF Host, Rooted
<1>8. \A p, j, k : j \in Nat /\ k \in Nat /\ Untouched(todo, p, j + 1, k + 1)
                  => Untouched(todo', p, j, k)
  BY <1>1, <1>2, TailUntouched DEF Untouched, Touches, Below
<1>9. \A p, k : k \in Nat /\ Untouched(todo, p, 1, k + 1) => Untouched(todo', p, 0, k)
  BY <1>8
<1>10. ASSUME NEW k \in DOMAIN todo', Fills(todo'[k])
       PROVE  \/ Opened(todo', k)
              \/ tree'[todo'[k].path] = Torn /\ Untouched(todo', todo'[k].path, 0, k)
  <2> DEFINE x == todo[k + 1].path
  <2>1. k \in Nat /\ k >= 1 /\ k + 1 \in DOMAIN todo /\ todo'[k] = todo[k + 1] /\ Fills(todo[k + 1])
    BY <1>2, <1>10 DEF Fills
  <2>2. x \in Paths
    BY <1>1, <2>1
  <2>3. CASE Opened(todo, k + 1)
    <3>1. PICK j \in DOMAIN todo : /\ j < k + 1 /\ todo[j].does = "open" /\ todo[j].path = x
                                   /\ Untouched(todo, x, j, k + 1)
      BY <2>3 DEF Opened
    <3>2. CASE j = 1
      <4>1. tree'[x] = Torn
        BY <1>1, <1>6, <2>2, <3>1, <3>2 DEF Touches, Leaves
      <4> QED
        BY <1>9, <2>1, <3>1, <3>2, <4>1
    <3>3. CASE j # 1
      <4>1. j - 1 \in Nat /\ j - 1 \in DOMAIN todo' /\ todo'[j - 1] = todo[j] /\ j - 1 < k /\ (j - 1) + 1 = j
        BY <1>1, <1>2, <2>1, <3>1, <3>3
      <4>2. Untouched(todo', x, j - 1, k)
        BY <1>8, <2>1, <3>1, <4>1
      <4> QED
        BY <2>1, <3>1, <4>1, <4>2 DEF Opened
    <3> QED
      BY <3>2, <3>3
  <2>4. CASE tree[x] = Torn /\ Untouched(todo, x, 0, k + 1)
    <3>1. x \notin Touches(o) /\ Untouched(todo, x, 1, k + 1)
      BY <1>1, <2>1, <2>4 DEF Untouched
    <3> QED
      BY <1>6, <1>9, <2>1, <2>2, <2>4, <3>1
  <2> QED
    BY <2>1, <2>3, <2>4 DEF OpensFirst
<1>11. ASSUME NEW k \in DOMAIN todo', todo'[k].does = "test"
       PROVE  \/ Written(todo', k)
              \/ /\ tree'[todo'[k].path] \in {Absent, Dir, Torn, todo'[k].what}
                 /\ Untouched(todo', todo'[k].path, 0, k)
  <2> DEFINE x == todo[k + 1].path
  <2>1. k \in Nat /\ k >= 1 /\ k + 1 \in DOMAIN todo /\ todo'[k] = todo[k + 1]
    BY <1>2
  <2>2. x \in Paths
    BY <1>1, <2>1
  <2>3. CASE Written(todo, k + 1)
    <3>1. PICK j \in DOMAIN todo : /\ j < k + 1 /\ Fills(todo[j]) /\ todo[j].path = x
                                   /\ todo[j].what = todo[k + 1].what
                                   /\ Untouched(todo, x, j, k + 1)
      BY <2>3 DEF Written
    <3>2. CASE j = 1
      <4>1. tree'[x] = todo[k + 1].what
        BY <1>1, <1>6, <2>2, <3>1, <3>2 DEF Touches, Leaves, Fills
      <4> QED
        BY <1>9, <2>1, <3>1, <3>2, <4>1
    <3>3. CASE j # 1
      <4>1. j - 1 \in Nat /\ j - 1 \in DOMAIN todo' /\ todo'[j - 1] = todo[j] /\ j - 1 < k /\ (j - 1) + 1 = j
        BY <1>1, <1>2, <2>1, <3>1, <3>3
      <4>2. Untouched(todo', x, j - 1, k)
        BY <1>8, <2>1, <3>1, <4>1
      <4> QED
        BY <2>1, <3>1, <4>1, <4>2 DEF Written, Fills
    <3> QED
      BY <3>2, <3>3
  <2>4. CASE tree[x] \in {Absent, Dir, Torn, todo[k + 1].what} /\ Untouched(todo, x, 0, k + 1)
    <3>1. x \notin Touches(o) /\ Untouched(todo, x, 1, k + 1)
      BY <1>1, <2>1, <2>4 DEF Untouched
    <3> QED
      BY <1>6, <1>9, <2>1, <2>2, <2>4, <3>1
  <2> QED
    BY <1>11, <2>1, <2>3, <2>4 DEF TestsKnown
<1>12. ASSUME NEW p \in Paths, NEW S, Gets(todo, p, S) PROVE Gets(todo, p, S)'
  <2>1. CASE Spares(todo, p) /\ tree[p] \in S
    BY <1>1, <1>2, <1>6, <2>1 DEF Gets, Spares, Touches, Below
  <2>2. CASE Will(todo, p, S)
    <3>1. PICK k \in DOMAIN todo : /\ p \in Touches(todo[k]) /\ Leaves(todo[k], p) \in S
                                   /\ \A j \in DOMAIN todo : k < j => p \notin Touches(todo[j])
      BY <2>2 DEF Will
    <3>2. CASE k = 1
      <4>1. tree'[p] \in S
        BY <1>1, <1>6, <3>1, <3>2
      <4>2. Spares(todo, p)'
        BY <1>1, <1>2, <3>1, <3>2 DEF Spares, Touches, Below
      <4> QED
        BY <4>1, <4>2 DEF Gets
    <3>3. CASE k # 1
      <4>1. k - 1 \in DOMAIN todo' /\ todo'[k - 1] = todo[k]
        BY <1>1, <1>2, <3>3
      <4>2. \A j \in DOMAIN todo' : k - 1 < j => p \notin Touches(todo'[j])
        BY <1>1, <1>2, <3>1
      <4>3. Will(todo, p, S)'
        BY <3>1, <4>1, <4>2 DEF Will, Touches, Below, Leaves
      <4> QED
        BY <4>3 DEF Gets
    <3> QED
      BY <3>2, <3>3
  <2> QED
    BY <1>12, <2>1, <2>2 DEF Gets
<1>13. OpensFirst(todo)' /\ TestsKnown(todo)'
  BY <1>10, <1>11 DEF OpensFirst, TestsKnown
<1> QED
  BY <1>3, <1>4, <1>6, <1>7, <1>12, <1>13
-----------------------------------------------------------------------------
(* Operations that bring about W, whatever the host looks like: they touch  *)
(* nothing else, but temporary files, and place the files of F only.        *)
Piece(ops, W, F) ==
  /\ OpList(ops) /\ DOMAIN W \subseteq Paths \ {Tmp, Temp}
  /\ \A k \in DOMAIN ops :
       /\ ops[k].does \notin {"throw", "test"}
       /\ Touches(ops[k]) \subseteq DOMAIN W \cup {Tmp, Temp}
       /\ Fills(ops[k]) => /\ Opened(ops, k)
                           /\ ops[k].path = Tmp \/ <<ops[k].path, ops[k].what>> \in F
  /\ \A p \in DOMAIN W : Will(ops, p, W[p])

LEMMA PieceWeaker ==
  ASSUME NEW ops, NEW U, NEW W, NEW F, NEW G, Piece(ops, U, F), F \subseteq G,
         DOMAIN W = DOMAIN U, \A p \in DOMAIN U : U[p] \subseteq W[p]
  PROVE  Piece(ops, W, G)
<1>1. ASSUME NEW p \in DOMAIN W PROVE Will(ops, p, W[p])
  BY DEF Piece, Will
<1> QED
  BY <1>1 DEF Piece

LEMMA ConcatFacts ==
  ASSUME NEW a, NEW b, IsList(a), IsList(b)
  PROVE  /\ IsList(a \o b) /\ Len(a) \in Nat /\ Len(b) \in Nat
         /\ DOMAIN a = 1 .. Len(a) /\ DOMAIN b = 1 .. Len(b)
         /\ DOMAIN (a \o b) = 1 .. Len(a) + Len(b)
         /\ \A k \in 1 .. Len(a) : (a \o b)[k] = a[k]
         /\ \A k \in 1 .. Len(b) : (a \o b)[Len(a) + k] = b[k]
<1> DEFINE S == ToSet(a) \cup ToSet(b)
<1>1. a \in Seq(ToSet(a)) /\ b \in Seq(ToSet(b))
  BY DEF IsList
<1>2. a \in Seq(S) /\ b \in Seq(S)
  BY <1>1
<1>3. a \o b \in Seq(S) /\ Len(a \o b) = Len(a) + Len(b) /\ Len(a) \in Nat /\ Len(b) \in Nat
  BY <1>2
<1>4. DOMAIN a = 1 .. Len(a) /\ DOMAIN b = 1 .. Len(b) /\ DOMAIN (a \o b) = 1 .. Len(a) + Len(b)
  BY <1>1, <1>3, ListFacts
<1>5. ASSUME NEW k \in 1 .. Len(a) PROVE (a \o b)[k] = a[k]
  BY <1>2, <1>3
<1>6. ASSUME NEW k \in 1 .. Len(b) PROVE (a \o b)[Len(a) + k] = b[k]
  BY <1>2, <1>3
<1>7. IsList(a \o b)
  BY <1>3, ListFacts
<1> QED
  BY <1>3, <1>4, <1>5, <1>6, <1>7

LEMMA PieceConcat ==
  ASSUME NEW a, NEW b, NEW U, NEW W, NEW F, Piece(a, U, F), Piece(b, W, F)
  PROVE  Piece(a \o b, Over(W, U), F)
<1> DEFINE c == a \o b  m == Len(a)  n == Len(b)  V == Over(W, U)
<1>1. /\ IsList(c) /\ m \in Nat /\ n \in Nat
      /\ DOMAIN a = 1 .. m /\ DOMAIN b = 1 .. n /\ DOMAIN c = 1 .. m + n
      /\ \A k \in 1 .. m : c[k] = a[k]
      /\ \A k \in 1 .. n : c[m + k] = b[k]
  BY ConcatFacts DEF Piece, OpList
<1>2. \A k \in DOMAIN c : k \in 1 .. m \/ (k - m \in 1 .. n /\ c[k] = b[k - m] /\ k = m + (k - m))
  <2>1. ASSUME NEW k \in 1 .. m + n, k \notin 1 .. m PROVE k - m \in 1 .. n /\ k = m + (k - m)
    BY <1>1, <2>1
  <2> QED
    BY <1>1, <2>1
<1>3. DOMAIN V = DOMAIN U \cup DOMAIN W
      /\ \A p \in DOMAIN V : V[p] = IF p \in DOMAIN W THEN W[p] ELSE U[p]
  BY DEF Over
<1> HIDE DEF c, m, n, V
<1>4. ASSUME NEW k \in 1 .. m, NEW p, NEW j, Untouched(a, p, j, k) PROVE Untouched(c, p, j, k)
  BY <1>1, <1>4 DEF Untouched
<1>5. ASSUME NEW k \in 1 .. n, NEW p, NEW j \in 1 .. n, Untouched(b, p, j, k)
      PROVE  Untouched(c, p, m + j, m + k)
  <2>1. ASSUME NEW i \in DOMAIN c, m + j < i, i < m + k PROVE p \notin Touches(c[i])
    <3>1. i \in 1 .. m + n
      BY <1>1
    <3>2. i - m \in 1 .. n /\ c[i] = b[i - m] /\ j < i - m /\ i - m < k
      BY <1>1, <1>2, <2>1, <3>1
    <3> QED
      BY <1>1, <1>5, <3>2 DEF Untouched
  <2> QED
    BY <2>1 DEF Untouched
<1>6. ASSUME NEW k \in DOMAIN c
      PROVE  /\ c[k].does \in Kinds /\ c[k].path \in Paths
             /\ c[k].does \notin {"throw", "test"}
             /\ Touches(c[k]) \subseteq DOMAIN V \cup {Tmp, Temp}
             /\ Fills(c[k]) => /\ Opened(c, k)
                               /\ c[k].path = Tmp \/ <<c[k].path, c[k].what>> \in F
  <2>1. CASE k \in 1 .. m
    <3>1. c[k] = a[k] /\ k \in DOMAIN a
      BY <1>1, <2>1
    <3>2. Opened(a, k) => Opened(c, k)
      BY <1>1, <1>4, <2>1, <3>1 DEF Opened
    <3> QED
      BY <1>3, <3>1, <3>2 DEF Piece, OpList
  <2>2. CASE k - m \in 1 .. n /\ c[k] = b[k - m] /\ k = m + (k - m)
    <3> DEFINE l == k - m
    <3>1. c[k] = b[l] /\ l \in DOMAIN b /\ k = m + l /\ l \in 1 .. n
      BY <1>1, <2>2
    <3> HIDE DEF l
    <3>2. ASSUME NEW j \in DOMAIN b, j < l
          PROVE  /\ m + j \in DOMAIN c /\ m + j < k /\ c[m + j] = b[j] /\ j \in 1 .. n
      BY <1>1, <3>1, <3>2
    <3>3. Opened(b, l) => Opened(c, k)
      <4>1. SUFFICES ASSUME Opened(b, l) PROVE Opened(c, k)
        OBVIOUS
      <4>2. PICK j \in DOMAIN b : /\ j < l /\ b[j].does = "open" /\ b[j].path = b[l].path
                                  /\ Untouched(b, b[l].path, j, l)
        BY <4>1 DEF Opened
      <4>3. Untouched(c, b[l].path, m + j, m + l)
        BY <1>5, <3>1, <3>2, <4>2
      <4> QED
        BY <3>1, <3>2, <4>2, <4>3 DEF Opened
    <3> QED
      BY <1>3, <3>1, <3>3 DEF Piece, OpList
  <2> QED
    BY <1>2, <2>1, <2>2
<1>7. ASSUME NEW p \in DOMAIN V PROVE Will(c, p, V[p])
  <2>1. CASE p \in DOMAIN W
    <3>1. PICK l \in DOMAIN b : /\ p \in Touches(b[l]) /\ Leaves(b[l], p) \in W[p]
                                /\ \A j \in DOMAIN b : l < j => p \notin Touches(b[j])
      BY <2>1 DEF Piece, Will
    <3>2. m + l \in DOMAIN c /\ c[m + l] = b[l]
      BY <1>1
    <3>3. ASSUME NEW j \in DOMAIN c, m + l < j PROVE p \notin Touches(c[j])
      <4>1. j \notin 1 .. m /\ j - m > l
        BY <1>1, <3>3
      <4> QED
        BY <1>1, <1>2, <3>1, <4>1
    <3> QED
      BY <1>3, <2>1, <3>1, <3>2, <3>3 DEF Will
  <2>2. CASE p \notin DOMAIN W
    <3>1. p \in DOMAIN U /\ V[p] = U[p]
      BY <1>3, <2>2
    <3>2. PICK k \in DOMAIN a : /\ p \in Touches(a[k]) /\ Leaves(a[k], p) \in U[p]
                                /\ \A j \in DOMAIN a : k < j => p \notin Touches(a[j])
      BY <3>1 DEF Piece, Will
    <3>3. k \in DOMAIN c /\ c[k] = a[k]
      BY <1>1
    <3>4. \A j \in DOMAIN b : p \notin Touches(b[j])
      BY <2>2, <3>1 DEF Piece
    <3>5. ASSUME NEW j \in DOMAIN c, k < j PROVE p \notin Touches(c[j])
      BY <1>1, <1>2, <3>2, <3>4, <3>5
    <3> QED
      BY <3>1, <3>2, <3>3, <3>5 DEF Will
  <2> QED
    BY <2>1, <2>2
<1>8. DOMAIN V \subseteq Paths \ {Tmp, Temp}
  BY <1>3 DEF Piece
<1>9. Piece(c, V, F)
  BY <1>1, <1>6, <1>7, <1>8 DEF Piece, OpList
<1> QED
  BY <1>9 DEF c, V
-----------------------------------------------------------------------------
LEMMA MaxFacts ==
  ASSUME NEW N \in Nat, NEW T, T \subseteq 1 .. N, T # {}
  PROVE  Max(T) \in T /\ \A k \in T : k <= Max(T)
<1> DEFINE U == {m \in Nat : N - m \in T}
<1>1. U # {}
  <2>1. PICK t \in T : TRUE
    OBVIOUS
  <2>2. N - t \in Nat /\ N - (N - t) = t
    BY <2>1
  <2> QED
    BY <2>2
<1>2. PICK m \in U : \A k \in U : m <= k
  BY <1>1, LeastNumber
<1>3. ASSUME NEW t \in T PROVE N - m >= t
  <2>1. N - t \in Nat /\ N - (N - t) = t /\ t \in Nat
    OBVIOUS
  <2>2. m <= N - t
    BY <2>1, <1>2
  <2> QED
    BY <2>1, <2>2
<1>4. N - m \in T
  OBVIOUS
<1>5. Max(T) \in T /\ \A k \in T : Max(T) >= k
  BY <1>3, <1>4 DEF Max
<1> QED
  BY <1>5

(* Sequences put one after the other, one at a time.                        *)
LEMMA FlattenFacts ==
  ASSUME NEW seqs, Len(seqs) \in Nat \ {0}
  PROVE  \E f : /\ f[1] = seqs[1] /\ \A i \in 2 .. Len(seqs) : f[i] = f[i - 1] \o seqs[i]
               /\ FlattenSeq(seqs) = f[Len(seqs)]
<1> DEFINE N == Len(seqs)
           Flat(n, g) == g = [i \in 1 .. n |-> IF i = 1 THEN seqs[i] ELSE g[i - 1] \o seqs[i]]
           Bad == {n \in 1 .. N : ~ \E g : Flat(n, g)}
<1>5. N \in Nat /\ N # 0
  OBVIOUS
<1> HIDE DEF N, Flat
<1>1. Bad = {}
  <2> SUFFICES ASSUME Bad # {} PROVE FALSE
    OBVIOUS
  <2>1. Bad \subseteq Nat
    BY <1>5
  <2>2. PICK n \in Bad : \A m \in Bad : n <= m
    BY <2>1, LeastNumber
  <2>3. n \in 1 .. N /\ n \in Nat /\ n <= N /\ n # 0 /\ ~ \E g : Flat(n, g)
    BY <1>5
  <2>4. CASE n = 1
    <3> DEFINE h == [i \in 1 .. 1 |-> seqs[i]]
    <3>1. h = [i \in 1 .. 1 |-> IF i = 1 THEN seqs[i] ELSE h[i - 1] \o seqs[i]]
      OBVIOUS
    <3> QED
      BY <2>3, <2>4, <3>1 DEF Flat
  <2>5. CASE n # 1
    <3>1. n - 1 \in Nat /\ n - 1 \in 1 .. N /\ ~ (n <= n - 1)
      BY <1>5, <2>3, <2>5
    <3>2. PICK g : Flat(n - 1, g)
      BY <2>2, <3>1
    <3> DEFINE h == [i \in 1 .. n |-> IF i < n THEN g[i] ELSE g[n - 1] \o seqs[n]]
    <3>3. ASSUME NEW i \in 1 .. n
          PROVE  h[i] = IF i = 1 THEN seqs[i] ELSE h[i - 1] \o seqs[i]
      <4>1. CASE i = n
        <5>1. h[n] = g[n - 1] \o seqs[n]
          <6>1. n \in 1 .. n /\ ~ (n < n)
            BY <2>3
          <6> QED
            BY <6>1
        <5>2. h[n - 1] = g[n - 1]
          BY <2>3, <2>5, <3>1
        <5> QED
          BY <2>5, <4>1, <5>1, <5>2
      <4>2. CASE i < n
        <5>1. i \in 1 .. n - 1 /\ h[i] = g[i]
          BY <2>3, <4>2
        <5>2. g[i] = IF i = 1 THEN seqs[i] ELSE g[i - 1] \o seqs[i]
          BY <3>2, <5>1 DEF Flat
        <5>3. i # 1 => h[i - 1] = g[i - 1]
          BY <2>3, <5>1
        <5> QED
          BY <5>1, <5>2, <5>3
      <4> QED
        BY <2>3, <4>1, <4>2
    <3>4. h = [i \in 1 .. n |-> h[i]]
      OBVIOUS
    <3> HIDE DEF h
    <3>5. h = [i \in 1 .. n |-> IF i = 1 THEN seqs[i] ELSE h[i - 1] \o seqs[i]]
      BY <3>3, <3>4
    <3> QED
      BY <2>3, <3>5 DEF Flat
  <2> QED
    BY <2>4, <2>5
<1>2. \E g : Flat(N, g)
  <2>1. N \in 1 .. N
    BY <1>5
  <2> QED
    BY <1>1, <2>1
<1> DEFINE f == CHOOSE g : Flat(N, g)
<1>3. Flat(N, f)
  BY <1>2
<1>4. FlattenSeq(seqs) = f[N]
  BY <1>5 DEF FlattenSeq, Flat, N
<1> HIDE DEF f
<1>6. f[1] = seqs[1]
  BY <1>3, <1>5 DEF Flat
<1>7. ASSUME NEW i \in 2 .. N PROVE f[i] = f[i - 1] \o seqs[i]
  <2>1. i \in 1 .. N /\ i # 1
    BY <1>5
  <2> QED
    BY <1>3, <2>1 DEF Flat
<1> QED
  BY <1>4, <1>6, <1>7 DEF N

LEMMA PieceFlatten ==
  ASSUME NEW seqs, IsList(seqs), NEW Ws, DOMAIN Ws = DOMAIN seqs, NEW F,
         \A i \in DOMAIN seqs : Piece(seqs[i], Ws[i], F)
  PROVE  Piece(FlattenSeq(seqs), Latest(Ws), F)
<1> DEFINE N == Len(seqs)
           Have(n, q) == {i \in 1 .. n : q \in DOMAIN Ws[i]}
           UpTo(n) == [q \in UNION {DOMAIN Ws[i] : i \in 1 .. n} |-> Ws[Max(Have(n, q))][q]]
<1>1. N \in Nat /\ DOMAIN seqs = 1 .. N
  BY ListFacts DEF IsList
<1> HIDE DEF N
<1>2. Latest(Ws) = UpTo(N)
  BY <1>1 DEF Latest
<1>3. ASSUME N = 0 PROVE Piece(FlattenSeq(seqs), Latest(Ws), F)
  <2>1. FlattenSeq(seqs) = seqs /\ DOMAIN seqs = {}
    BY <1>1, <1>3 DEF FlattenSeq, N
  <2>2. DOMAIN Latest(Ws) = {}
    BY <2>1 DEF Latest
  <2> HIDE DEF UpTo
  <2> QED
    BY <2>1, <2>2 DEF Piece, OpList
<1>4. ASSUME N # 0 PROVE Piece(FlattenSeq(seqs), Latest(Ws), F)
  <2>1. PICK f : /\ f[1] = seqs[1] /\ \A i \in 2 .. N : f[i] = f[i - 1] \o seqs[i]
                 /\ FlattenSeq(seqs) = f[N]
    BY <1>1, <1>4, FlattenFacts DEF N
  <2> DEFINE Bad == {n \in 1 .. N : ~ Piece(f[n], UpTo(n), F)}
  <2>2. ASSUME NEW n \in 1 .. N, NEW q, Have(n, q) # {}
        PROVE  Max(Have(n, q)) \in Have(n, q) /\ \A k \in Have(n, q) : k <= Max(Have(n, q))
    <3>1. n \in Nat /\ Have(n, q) \subseteq 1 .. n
      BY <1>1
    <3> HIDE DEF Have
    <3> QED
      BY <2>2, <3>1, MaxFacts
  <2>3. \A n \in 1 .. N : /\ DOMAIN UpTo(n) = UNION {DOMAIN Ws[i] : i \in 1 .. n}
                           /\ \A q \in DOMAIN UpTo(n) : Have(n, q) # {} /\ UpTo(n)[q] = Ws[Max(Have(n, q))][q]
    OBVIOUS
  <2> HIDE DEF UpTo
  <2>4. ASSUME Bad # {} PROVE FALSE
    <3>1. Bad \subseteq Nat
      BY <1>1
    <3>2. PICK n \in Bad : \A m \in Bad : n <= m
      BY <2>4, <3>1, LeastNumber
    <3>3. n \in 1 .. N /\ n \in Nat /\ n <= N /\ n # 0 /\ ~ Piece(f[n], UpTo(n), F)
      BY <1>1
    <3>4. CASE n = 1
      <4>1. Piece(seqs[1], Ws[1], F)
        BY <1>1, <3>3, <3>4
      <4>2. DOMAIN UpTo(1) = DOMAIN Ws[1]
        BY <2>3, <3>3, <3>4
      <4>3. ASSUME NEW q \in DOMAIN Ws[1] PROVE UpTo(1)[q] = Ws[1][q]
        <5>1. 1 \in Have(1, q) /\ Have(1, q) \subseteq 1 .. 1
          BY <4>3
        <5> HIDE DEF Have
        <5>2. Max(Have(1, q)) \in Have(1, q) /\ 1 \in 1 .. N
          BY <2>2, <3>3, <3>4, <5>1
        <5>3. Max(Have(1, q)) = 1
          BY <5>1, <5>2
        <5> QED
          BY <2>3, <3>3, <3>4, <4>2, <5>2, <5>3
      <4>4. Piece(seqs[1], UpTo(1), F)
        BY <4>1, <4>2, <4>3, PieceWeaker
      <4> QED
        BY <2>1, <3>3, <3>4, <4>4
    <3>5. CASE n # 1
      <4>1. n - 1 \in 1 .. N /\ n - 1 \in Nat /\ ~ (n <= n - 1) /\ n \in 2 .. N
        BY <1>1, <3>3, <3>5
      <4>2. Piece(f[n - 1], UpTo(n - 1), F)
        BY <3>2, <4>1
      <4>3. Piece(f[n], Over(Ws[n], UpTo(n - 1)), F)
        BY <1>1, <2>1, <3>3, <4>1, <4>2, PieceConcat
      <4> DEFINE V == Over(Ws[n], UpTo(n - 1))
      <4>4. /\ DOMAIN V = DOMAIN Ws[n] \cup DOMAIN UpTo(n - 1)
            /\ \A q \in DOMAIN V : V[q] = IF q \in DOMAIN Ws[n] THEN Ws[n][q] ELSE UpTo(n - 1)[q]
        BY DEF Over
      <4> HIDE DEF V
      <4>5. DOMAIN UpTo(n) = DOMAIN V
        <5>1. 1 .. n = (1 .. n - 1) \cup {n}
          BY <3>3, <4>1
        <5>2. UNION {DOMAIN Ws[i] : i \in 1 .. n}
                = (UNION {DOMAIN Ws[i] : i \in 1 .. n - 1}) \cup DOMAIN Ws[n]
          BY <5>1
        <5>3. DOMAIN UpTo(n) = UNION {DOMAIN Ws[i] : i \in 1 .. n}
          BY <2>3, <3>3
        <5>4. DOMAIN UpTo(n - 1) = UNION {DOMAIN Ws[i] : i \in 1 .. n - 1}
          BY <2>3, <4>1
        <5> QED
          BY <4>4, <5>2, <5>3, <5>4
      <4>6. ASSUME NEW q \in DOMAIN V PROVE UpTo(n)[q] = V[q]
        <5>1. CASE q \in DOMAIN Ws[n]
          <6>1. n \in Have(n, q)
            BY <3>3, <5>1
          <6>2. Max(Have(n, q)) \in 1 .. n /\ n <= Max(Have(n, q))
            BY <2>2, <3>3, <6>1
          <6>3. Max(Have(n, q)) = n
            BY <3>3, <6>2
          <6> QED
            BY <2>3, <3>3, <4>4, <4>5, <5>1, <6>3
        <5>2. CASE q \notin DOMAIN Ws[n]
          <6>1. Have(n, q) = Have(n - 1, q)
            BY <3>3, <4>1, <5>2
          <6>2. q \in DOMAIN UpTo(n - 1) /\ V[q] = UpTo(n - 1)[q]
            BY <4>4, <5>2
          <6> HIDE DEF Have
          <6> QED
            BY <2>3, <3>3, <4>1, <4>5, <6>1, <6>2
        <5> QED
          BY <5>1, <5>2
      <4>7. Piece(f[n], UpTo(n), F)
        BY <4>3, <4>5, <4>6, PieceWeaker DEF V
      <4> QED
        BY <3>3, <4>7
    <3> QED
      BY <3>4, <3>5
  <2>5. Piece(f[N], UpTo(N), F)
    <3>1. N \in 1 .. N
      BY <1>1, <1>4
    <3> QED
      BY <2>4, <3>1
  <2> QED
    BY <1>2, <2>1, <2>5
<1> QED
  BY <1>3, <1>4
-----------------------------------------------------------------------------
(* What the modules do, piece by piece.                                     *)
Inner == Paths \ {Tmp, Temp}
Empty == [q \in {} |-> {}]

LEMMA PlacedFacts ==
  ASSUME NEW p \in Inner, NEW v
  PROVE  /\ DOMAIN Placed(p, v) = Above(p) \cup {p} /\ DOMAIN Placed(p, v) \subseteq Inner
         /\ p \notin Above(p) /\ Placed(p, v)[p] = {v}
         /\ \A q \in Above(p) : Placed(p, v)[q] = {Dir}
<1>1. p \in Paths /\ p \notin {Tmp, Temp}
  BY DEF Inner
<1>2. \A q \in Above(p) : q \in Paths /\ q # p
  BY <1>1, AboveFacts
<1>3. Tmp \notin Above(p) /\ Temp \notin Above(p)
  BY <1>1, TempFacts
<1> QED
  BY <1>1, <1>2, <1>3 DEF Placed, Inner

LEMMA FilePiece ==
  ASSUME NEW p \in Inner, NEW v, NEW F, <<p, v>> \in F, NEW ops, OpList(ops), NEW n \in DOMAIN ops,
         \A k \in DOMAIN ops : /\ ops[k].path = p /\ k <= n
                               /\ ops[k].does \in {"open", "request", "fill", "receive"}
                               /\ Fills(ops[k]) => Opened(ops, k) /\ ops[k].what = v,
         Fills(ops[n])
  PROVE  Piece(ops, Placed(p, v), F)
<1>1. /\ DOMAIN Placed(p, v) = Above(p) \cup {p} /\ DOMAIN Placed(p, v) \subseteq Paths \ {Tmp, Temp}
      /\ p \notin Above(p) /\ Placed(p, v)[p] = {v} /\ \A q \in Above(p) : Placed(p, v)[q] = {Dir}
  BY PlacedFacts DEF Inner
<1>2. ASSUME NEW q \in DOMAIN Placed(p, v) PROVE Will(ops, q, Placed(p, v)[q])
  <2>1. q \in Touches(ops[n])
    BY <1>1 DEF Touches, Fills
  <2>2. Leaves(ops[n], q) \in Placed(p, v)[q]
    BY <1>1 DEF Leaves, Fills
  <2>3. \A j \in DOMAIN ops : j \in Nat /\ n \in Nat
    BY ListFacts DEF OpList, IsList
  <2>4. \A j \in DOMAIN ops : ~ (n < j)
    BY <2>3
  <2> QED
    BY <2>1, <2>2, <2>4 DEF Will
<1>3. ASSUME NEW k \in DOMAIN ops PROVE Touches(ops[k]) \subseteq DOMAIN Placed(p, v)
  BY <1>1 DEF Touches
<1> QED
  BY <1>1, <1>2, <1>3 DEF Piece

LEMMA TempPiece ==
  ASSUME NEW p \in {Tmp, Temp}, NEW F, NEW ops, OpList(ops),
         \A k \in DOMAIN ops : /\ ops[k].path = p
                               /\ ops[k].does \in {"open", "request", "fill", "receive", "rmf"}
                               /\ Fills(ops[k]) => Opened(ops, k) /\ p = Tmp
  PROVE  Piece(ops, Empty, F)
<1>1. Above(p) = {} /\ Below(p) = {}
  BY TempFacts
<1>2. ASSUME NEW k \in DOMAIN ops PROVE Touches(ops[k]) \subseteq {Tmp, Temp}
  BY <1>1 DEF Touches
<1> QED
  BY <1>2 DEF Piece, Empty

(* The operations of one file, and of one directory.                        *)
LEMMA OpsOfOne ==
  ASSUME NEW a, a.does \in Kinds, a.path \in Paths
  PROVE  OpList(<<a>>) /\ DOMAIN <<a>> = {1} /\ <<a>>[1] = a
<1> DEFINE s == <<a>>
<1>1. s \in Seq({a})
  OBVIOUS
<1>2. Len(s) = 1 /\ s[1] = a
  OBVIOUS
<1> HIDE DEF s
<1>3. IsList(s) /\ DOMAIN s = 1 .. 1
  BY <1>1, <1>2, ListFacts
<1>4. DOMAIN s = {1}
  BY <1>3
<1>5. OpList(s)
  BY <1>2, <1>3, <1>4 DEF OpList
<1> QED
  BY <1>2, <1>4, <1>5 DEF s

LEMMA OpsOfTwo ==
  ASSUME NEW a, NEW b, a.does \in Kinds, a.path \in Paths, b.does \in Kinds, b.path \in Paths
  PROVE  OpList(<<a, b>>) /\ DOMAIN <<a, b>> = {1, 2} /\ <<a, b>>[1] = a /\ <<a, b>>[2] = b
<1> DEFINE s == <<a, b>>
<1>1. s \in Seq({a, b})
  OBVIOUS
<1>2. Len(s) = 2 /\ s[1] = a /\ s[2] = b
  OBVIOUS
<1> HIDE DEF s
<1>3. IsList(s) /\ DOMAIN s = 1 .. 2
  BY <1>1, <1>2, ListFacts
<1>4. DOMAIN s = {1, 2}
  BY <1>3
<1>5. OpList(s)
  BY <1>2, <1>3, <1>4 DEF OpList
<1> QED
  BY <1>2, <1>4, <1>5 DEF s

LEMMA OpsOfThree ==
  ASSUME NEW a, NEW b, NEW c, a.does \in Kinds, a.path \in Paths, b.does \in Kinds, b.path \in Paths,
         c.does \in Kinds, c.path \in Paths
  PROVE  OpList(<<a, b, c>>) /\ DOMAIN <<a, b, c>> = {1, 2, 3}
         /\ <<a, b, c>>[1] = a /\ <<a, b, c>>[2] = b /\ <<a, b, c>>[3] = c
<1> DEFINE s == <<a, b, c>>
<1>1. s \in Seq({a, b, c})
  OBVIOUS
<1>2. Len(s) = 3 /\ s[1] = a /\ s[2] = b /\ s[3] = c
  OBVIOUS
<1> HIDE DEF s
<1>3. IsList(s) /\ DOMAIN s = 1 .. 3
  BY <1>1, <1>2, ListFacts
<1>4. DOMAIN s = {1, 2, 3}
  BY <1>3
<1>5. OpList(s)
  BY <1>2, <1>3, <1>4 DEF OpList
<1> QED
  BY <1>2, <1>4, <1>5 DEF s

LEMMA CreatePiece ==
  ASSUME NEW p \in Inner, NEW v, NEW F, <<p, v>> \in F
  PROVE  Piece(Create(p, v), Placed(p, v), F)
<1> DEFINE a == Op("open", p, v)  b == Op("fill", p, v)
<1>1. /\ a.does = "open" /\ a.path = p /\ b.does = "fill" /\ b.path = p /\ b.what = v /\ p \in Paths
      /\ a.does \in Kinds /\ b.does \in Kinds
  BY DEF Op, Kinds, Inner
<1> HIDE DEF a, b
<1>2. OpList(<<a, b>>) /\ DOMAIN <<a, b>> = {1, 2} /\ <<a, b>>[1] = a /\ <<a, b>>[2] = b
  BY <1>1, OpsOfTwo
<1> DEFINE ops == <<a, b>>
<1> HIDE DEF ops
<1>3. Opened(ops, 2)
  BY <1>1, <1>2 DEF Opened, Untouched, ops
<1>4. Piece(ops, Placed(p, v), F)
  BY <1>1, <1>2, <1>3, FilePiece DEF Fills, ops
<1> QED
  BY <1>4 DEF ops, a, b, Create

LEMMA DirPiece ==
  ASSUME NEW p \in Inner, NEW does \in {"mkdirp", "mkdir"}, NEW F
  PROVE  Piece(<<Op(does, p, Dir)>>, Placed(p, Dir), F)
<1> DEFINE a == Op(does, p, Dir)
<1>1. a.does \in {"mkdirp", "mkdir"} /\ a.path = p /\ p \in Paths /\ a.does \in Kinds
  BY DEF Op, Kinds, Inner
<1> HIDE DEF a
<1>2. OpList(<<a>>) /\ DOMAIN <<a>> = {1} /\ <<a>>[1] = a
  BY <1>1, OpsOfOne
<1>3. /\ DOMAIN Placed(p, Dir) = Above(p) \cup {p} /\ DOMAIN Placed(p, Dir) \subseteq Paths \ {Tmp, Temp}
      /\ \A q \in DOMAIN Placed(p, Dir) : Placed(p, Dir)[q] = {Dir}
  BY PlacedFacts DEF Inner
<1>4. Touches(a) = Above(p) \cup {p} /\ \A q \in Touches(a) : Leaves(a, q) = Dir
  BY <1>1 DEF Touches, Leaves
<1>5. Piece(<<a>>, Placed(p, Dir), F)
  BY <1>1, <1>2, <1>3, <1>4 DEF Piece, Fills, Will
<1> QED
  BY <1>5 DEF a

LEMMA ReceivePiece ==
  ASSUME NEW p \in Inner, NEW v, NEW F, <<p, v>> \in F
  PROVE  /\ Piece(DownloadFile(p, v), Placed(p, v), F)
         /\ Piece(Fetch(p, v), Placed(p, v), F)
<1> DEFINE a == Op("open", p, v)  b == Op("request", p, v)  c == Op("receive", p, v)
<1>1. /\ a.does = "open" /\ a.path = p /\ b.does = "request" /\ b.path = p /\ p \in Paths
      /\ c.does = "receive" /\ c.path = p /\ c.what = v
      /\ a.does \in Kinds /\ b.does \in Kinds /\ c.does \in Kinds
  BY DEF Op, Kinds, Inner
<1> HIDE DEF a, b, c
<1>2. /\ OpList(<<a, b, c>>) /\ DOMAIN <<a, b, c>> = {1, 2, 3}
      /\ <<a, b, c>>[1] = a /\ <<a, b, c>>[2] = b /\ <<a, b, c>>[3] = c
  BY <1>1, OpsOfThree
<1>3. /\ OpList(<<b, a, c>>) /\ DOMAIN <<b, a, c>> = {1, 2, 3}
      /\ <<b, a, c>>[1] = b /\ <<b, a, c>>[2] = a /\ <<b, a, c>>[3] = c
  BY <1>1, OpsOfThree
<1> DEFINE ops == <<a, b, c>>  later == <<b, a, c>>
<1> HIDE DEF ops, later
<1>4. Opened(ops, 3) /\ Opened(later, 3)
  BY <1>1, <1>2, <1>3 DEF Opened, Untouched, ops, later, Touches
<1>5. Piece(ops, Placed(p, v), F)
  BY <1>1, <1>2, <1>4, FilePiece DEF Fills, ops
<1>6. Piece(later, Placed(p, v), F)
  BY <1>1, <1>3, <1>4, FilePiece DEF Fills, later
<1> QED
  BY <1>5, <1>6 DEF ops, later, a, b, c, DownloadFile, Fetch
-----------------------------------------------------------------------------
(* What a task is to do on the host as it is.                               *)
Throws(ops) == \E k \in DOMAIN ops : ops[k].does = "throw"
Planned(ops, t) ==
  /\ OpList(ops) /\ OpensFirst(ops) /\ TestsKnown(ops) /\ DOMAIN Wants(t) \subseteq Inner
  /\ \A k \in DOMAIN ops :
       /\ Touches(ops[k]) \subseteq DOMAIN Wants(t) \cup {Tmp, Temp}
       /\ Fills(ops[k]) => ops[k].path = Tmp \/ <<ops[k].path, ops[k].what>> \in Puts(t)
  /\ Throws(ops) \/ \A p \in DOMAIN Wants(t) : Gets(ops, p, Wants(t)[p])

LEMMA PieceIsPlan ==
  ASSUME NEW t, NEW ops, NEW W, Piece(ops, W, Puts(t)), DOMAIN Wants(t) = DOMAIN W,
         \A p \in DOMAIN W : Wants(t)[p] = W[p]
  PROVE  Planned(ops, t)
<1>1. Piece(ops, Wants(t), Puts(t))
  BY PieceWeaker
<1>2. OpensFirst(ops) /\ TestsKnown(ops)
  BY <1>1 DEF Piece, OpensFirst, TestsKnown
<1> QED
  BY <1>1, <1>2 DEF Piece, Planned, Gets, Inner

LEMMA NothingPlanned ==
  ASSUME NEW t, DOMAIN Wants(t) \subseteq Inner, \A p \in DOMAIN Wants(t) : tree[p] \in Wants(t)[p]
  PROVE  Planned(<<>>, t)
<1>1. <<>> \in Seq({}) /\ DOMAIN <<>> = {}
  OBVIOUS
<1>2. OpList(<<>>)
  BY <1>1, ListFacts DEF OpList
<1> QED
  BY <1>1, <1>2 DEF Planned, OpensFirst, TestsKnown, Gets, Spares

LEMMA ThrowPlanned ==
  ASSUME NEW t, DOMAIN Wants(t) \subseteq Inner
  PROVE  Planned(Throw, t)
<1> DEFINE a == Op("throw", Tmp, Absent)
<1>1. a.does = "throw" /\ a.path \in Paths /\ a.does \in Kinds
  BY TempFacts DEF Op, Kinds
<1> HIDE DEF a
<1>2. OpList(<<a>>) /\ DOMAIN <<a>> = {1} /\ <<a>>[1] = a
  BY <1>1, OpsOfOne
<1>3. Planned(<<a>>, t)
  BY <1>1, <1>2 DEF Planned, OpensFirst, TestsKnown, Fills, Throws, Touches
<1> QED
  BY <1>3 DEF a, Throw

LEMMA FunctionList ==
  ASSUME NEW N \in Nat, NEW f, f = [i \in 1 .. N |-> f[i]]
  PROVE  IsList(f) /\ Len(f) = N /\ DOMAIN f = 1 .. N
<1>1. f \in [1 .. N -> ToSet(f)]
  BY DEF ToSet
<1> QED
  BY <1>1 DEF IsList

LEMMA ConcernFacts ==
  ASSUME NEW t, CanBe(t)
  PROVE  Concerns(t) \subseteq Inner /\ \A x, y : <<x, y>> \in Puts(t) => x \in Inner
<1>1. Concerns(t) \subseteq Inner
  BY DEF CanBe, Inner
<1>2. ASSUME NEW x, NEW y, <<x, y>> \in Puts(t) PROVE x \in Concerns(t)
  <2>1. <<x, y>>[1] = x
    OBVIOUS
  <2>2. x \in {f[1] : f \in Puts(t)}
    BY <1>2, <2>1
  <2> QED
    BY <1>2, <2>2 DEF Concerns, Puts
<1> QED
  BY <1>1, <1>2

LEMMA PlacePiece ==
  ASSUME NEW t, NEW f, NEW p \in Inner, NEW F, <<p, Filled(t, f)>> \in F
  PROVE  Piece(Place(t, f, p), Placed(p, Filled(t, f)), F)
<1> DEFINE v == Filled(t, f)  W == Placed(p, v)
<1>1. Piece(Create(p, v), W, F)
  BY CreatePiece
<1>2. CASE Len(p) > 1
  <2>1. Front(p) \in Inner /\ Above(p) = Above(Front(p)) \cup {Front(p)}
    BY <1>2, FrontFacts, TempFacts DEF Inner
  <2> DEFINE U == Placed(Front(p), Dir)
  <2>2. Piece(<<Op("mkdirp", Front(p), Dir)>>, U, F)
    BY <2>1, DirPiece
  <2>3. Piece(<<Op("mkdirp", Front(p), Dir)>> \o Create(p, v), Over(W, U), F)
    BY <1>1, <2>2, PieceConcat
  <2>6. DOMAIN W = Above(p) \cup {p} /\ DOMAIN U = Above(Front(p)) \cup {Front(p)}
    BY <2>1, PlacedFacts
  <2> HIDE DEF W, U
  <2>4. DOMAIN Over(W, U) = DOMAIN W /\ \A q \in DOMAIN W : Over(W, U)[q] = W[q]
    BY <2>1, <2>6 DEF Over
  <2>5. Piece(<<Op("mkdirp", Front(p), Dir)>> \o Create(p, v), W, F)
    BY <2>3, <2>4, PieceWeaker
  <2> QED
    BY <1>2, <2>5 DEF Place, W
<1>3. CASE ~ (Len(p) > 1)
  BY <1>1, <1>3 DEF Place
<1> QED
  BY <1>2, <1>3

LEMMA PlacedWants ==
  ASSUME NEW t, NEW p \in Inner, NEW v, Wants(t) = Placed(p, v)
  PROVE  /\ DOMAIN Wants(t) = Above(p) \cup {p} /\ DOMAIN Wants(t) \subseteq Inner
         /\ Wants(t)[p] = {v} /\ \A q \in Above(p) : Wants(t)[q] = {Dir}
<1> DEFINE W == Placed(p, v)
<1>1. /\ DOMAIN W = Above(p) \cup {p} /\ DOMAIN W \subseteq Inner
      /\ W[p] = {v} /\ \A q \in Above(p) : W[q] = {Dir}
  BY PlacedFacts
<1>2. Wants(t) = W
  OBVIOUS
<1> HIDE DEF W
<1> QED
  BY <1>1, <1>2

LEMMA WritePlanned ==
  ASSUME Host, NEW t, CanBe(t), t.module = "write"
  PROVE  Planned(Write(t), t)
<1>1. Wants(t) = Placed(t.path, t.content) /\ Puts(t) = {<<t.path, t.content>>}
  BY DEF Wants, Puts
<1>2. t.path \in Inner /\ Whole(t.content)
  BY <1>1, ConcernFacts DEF CanBe
<1>3. /\ DOMAIN Wants(t) = Above(t.path) \cup {t.path} /\ DOMAIN Wants(t) \subseteq Inner
      /\ Wants(t)[t.path] = {t.content} /\ \A q \in Above(t.path) : Wants(t)[q] = {Dir}
  BY <1>1, <1>2, PlacedWants
<1>4. CASE tree[t.path] = Dir
  BY <1>3, <1>4, ThrowPlanned DEF Write
<1>5. CASE tree[t.path] # Dir /\ WriteSkips(t)
  <2>1. tree[t.path] = t.content /\ t.content # Absent
    BY <1>2, <1>5 DEF WriteSkips, Whole
  <2>2. \A q \in Above(t.path) : tree[q] = Dir
    BY <1>2, <2>1 DEF Host, Rooted, Inner
  <2>3. Planned(<<>>, t)
    BY <1>3, <2>1, <2>2, NothingPlanned
  <2> QED
    BY <1>5, <2>3 DEF Write
<1>6. CASE tree[t.path] # Dir /\ ~ WriteSkips(t)
  <2>1. Piece(Create(t.path, t.content), Wants(t), Puts(t))
    BY <1>1, <1>2, CreatePiece
  <2> QED
    BY <1>6, <2>1, PieceIsPlan DEF Write
<1> QED
  BY <1>4, <1>5, <1>6

LEMMA CopyPlanned ==
  ASSUME NEW t, CanBe(t), t.module = "copy"
  PROVE  Planned(Copy(t), t)
<1>1. Wants(t) = Placed(CopyTo(t), Filled(t, t.from)) /\ Puts(t) = {<<CopyTo(t), Filled(t, t.from)>>}
  BY DEF Wants, Puts
<1>2. CopyTo(t) \in Inner
  BY <1>1, ConcernFacts
<1>3. Piece(Copy(t), Wants(t), Puts(t))
  BY <1>1, <1>2, PlacePiece DEF Copy
<1> QED
  BY <1>3, PieceIsPlan

LEMMA CopyGlobPlanned ==
  ASSUME NEW t, CanBe(t), t.module = "copyGlob"
  PROVE  Planned(CopyGlob(t), t)
<1> DEFINE to(i) == t.to \o t.files[i]
           Ws == [i \in DOMAIN t.files |-> Placed(to(i), Filled(t, t.files[i]))]
           seqs == [i \in DOMAIN t.files |-> Place(t, t.files[i], to(i))]
<1>1. Wants(t) = Latest(Ws) /\ Puts(t) = {<<to(i), Filled(t, t.files[i])>> : i \in DOMAIN t.files}
  BY DEF Wants, Puts
<1>2. IsList(t.files) /\ Len(t.files) \in Nat /\ DOMAIN t.files = 1 .. Len(t.files)
  BY ListFacts DEF CanBe, Lists, IsList
<1>3. IsList(seqs) /\ DOMAIN seqs = DOMAIN t.files
  BY <1>2, FunctionList
<1>4. ASSUME NEW i \in DOMAIN seqs PROVE Piece(seqs[i], Ws[i], Puts(t))
  <2>1. i \in DOMAIN t.files /\ <<to(i), Filled(t, t.files[i])>> \in Puts(t)
    BY <1>1, <1>3
  <2>2. to(i) \in Inner
    BY <2>1, ConcernFacts
  <2>3. Piece(Place(t, t.files[i], to(i)), Placed(to(i), Filled(t, t.files[i])), Puts(t))
    BY <2>1, <2>2, PlacePiece
  <2> QED
    BY <2>1, <2>3
<1>5. Piece(CopyGlob(t), Wants(t), Puts(t))
  <2>1. DOMAIN Ws = DOMAIN seqs
    BY <1>3
  <2>2. CopyGlob(t) = FlattenSeq(seqs)
    BY DEF CopyGlob
  <2> HIDE DEF Ws, seqs
  <2> QED
    BY <1>1, <1>3, <1>4, <2>1, <2>2, PieceFlatten
<1> QED
  BY <1>5, PieceIsPlan

LEMMA MkdirPlanned ==
  ASSUME NEW t, CanBe(t), t.module = "mkdir"
  PROVE  Planned(Mkdir(t), t)
<1>1. Wants(t) = Placed(t.path, Dir)
  BY DEF Wants
<1>2. t.path \in Inner
  BY ConcernFacts DEF Concerns
<1>3. Piece(Mkdir(t), Wants(t), Puts(t))
  <2> DEFINE does == IF t.recursive THEN "mkdirp" ELSE "mkdir"
  <2>1. does \in {"mkdirp", "mkdir"} /\ Mkdir(t) = <<Op(does, t.path, Dir)>>
    BY DEF Mkdir
  <2> QED
    BY <1>1, <1>2, <2>1, DirPiece
<1> QED
  BY <1>3, PieceIsPlan

LEMMA StatPlanned ==
  ASSUME NEW t, t.module = "stat"
  PROVE  Planned(Stat(t), t)
<1>1. DOMAIN Wants(t) = {}
  BY DEF Wants
<1> QED
  BY <1>1, NothingPlanned, ThrowPlanned DEF Stat

LEMMA TempPlanned ==
  ASSUME NEW t, t.module = "temp"
  PROVE  Planned(MakeTemp, t)
<1>1. DOMAIN Wants(t) = {} /\ DOMAIN Empty = {}
  BY DEF Wants, Empty
<1> DEFINE a == Op("open", Temp, Torn)
<1>2. a.does = "open" /\ a.path = Temp /\ a.path \in Paths /\ a.does \in Kinds
  BY TempFacts DEF Op, Kinds
<1> HIDE DEF a
<1>3. OpList(<<a>>) /\ DOMAIN <<a>> = {1} /\ <<a>>[1] = a
  BY <1>2, OpsOfOne
<1>4. Piece(<<a>>, Empty, Puts(t))
  BY <1>2, <1>3, TempPiece DEF Fills
<1> QED
  BY <1>1, <1>4, PieceIsPlan DEF a, MakeTemp

LEMMA RmPlanned ==
  ASSUME NEW t, CanBe(t), t.module = "rm"
  PROVE  Planned(Rm(t), t)
<1> DEFINE N == Len(t.paths)  ops == Rm(t)
<1>1. IsList(t.paths) /\ N \in Nat /\ DOMAIN t.paths = 1 .. N
  BY ListFacts DEF CanBe, Lists, IsList
<1>2. \A i \in 1 .. N : t.paths[i] \in Inner
  BY <1>1, ConcernFacts DEF Concerns, ToSet
<1>3. /\ IsList(ops) /\ DOMAIN ops = 1 .. N
      /\ \A k \in 1 .. N : ops[k].does \in {"rm", "rmf"} /\ ops[k].path = t.paths[k]
  BY <1>1, FunctionList DEF Rm, Op
<1> HIDE DEF ops, N
<1>4. OpList(ops)
  BY <1>2, <1>3 DEF OpList, Kinds, Inner
<1>5. /\ DOMAIN Wants(t) = UNION {Below(p) \cup {p} : p \in ToSet(t.paths)}
      /\ \A q \in DOMAIN Wants(t) : Wants(t)[q] = {Absent}
  BY DEF Wants
<1>6. \A k \in 1 .. N : Touches(ops[k]) = Below(t.paths[k]) \cup {t.paths[k]}
  BY <1>3 DEF Touches
<1>7. ASSUME NEW k \in 1 .. N PROVE Touches(ops[k]) \subseteq DOMAIN Wants(t)
  <2>1. t.paths[k] \in ToSet(t.paths)
    BY <1>1 DEF ToSet
  <2> QED
    BY <1>5, <1>6, <2>1
<1>8. ASSUME NEW q \in DOMAIN Wants(t) PROVE Will(ops, q, Wants(t)[q]) /\ q \in Inner
  <2> DEFINE T == {k \in 1 .. N : q \in Touches(ops[k])}
  <2>1. PICK p \in ToSet(t.paths) : q \in Below(p) \cup {p}
    BY <1>5
  <2>2. PICK k \in 1 .. N : t.paths[k] = p
    BY <1>1, <2>1 DEF ToSet
  <2>3. k \in T
    BY <1>6, <2>1, <2>2
  <2>4. T \subseteq 1 .. N /\ T # {}
    BY <2>3
  <2>5. Max(T) \in T /\ \A j \in T : j <= Max(T)
    BY <1>1, <2>4, MaxFacts
  <2>6. ASSUME NEW j \in DOMAIN ops, Max(T) < j PROVE q \notin Touches(ops[j])
    BY <1>1, <1>3, <2>5, <2>6
  <2>7. Leaves(ops[Max(T)], q) \in Wants(t)[q]
    BY <1>3, <1>5, <2>5 DEF Leaves
  <2>8. q \in Inner
    BY <1>2, <2>1, <2>2, BelowFacts, TempFacts DEF Inner
  <2> QED
    BY <1>3, <2>5, <2>6, <2>7, <2>8 DEF Will
<1>9. Piece(ops, Wants(t), Puts(t))
  BY <1>3, <1>4, <1>7, <1>8 DEF Piece, Fills, Inner
<1> QED
  BY <1>9, PieceIsPlan DEF ops

LEMMA SequenceOfSet ==
  ASSUME NEW S, IsFiniteSet(S)
  PROVE  IsList(SetToSeq(S)) /\ \A x : x \in S <=> \E i \in DOMAIN SetToSeq(S) : SetToSeq(S)[i] = x
<1> DEFINE n == Cardinality(S)  f == SetToSeq(S)
<1>1. n \in Nat
  BY FS_CardinalityType
<1>2. \E g \in [1 .. n -> S] : IsInjective(g)
  <2>1. PICK m \in Nat : ExistsBijection(1 .. m, S)
    BY FS_NatBijection
  <2>2. m = n
    BY <2>1, FS_CountingElements
  <2>3. PICK g : g \in Bijection(1 .. n, S)
    BY <2>1, <2>2 DEF ExistsBijection
  <2> QED
    BY <2>3 DEF Bijection, Injection
<1>3. f \in [1 .. n -> S] /\ IsInjective(f)
  BY <1>2 DEF SetToSeq
<1>4. IsFiniteSet(1 .. n) /\ Cardinality(1 .. n) = n
  BY <1>1, FS_Interval
<1>5. f \in Surjection(1 .. n, S)
  BY <1>3, <1>4, FS_Injection DEF Injection
<1> HIDE DEF f
<1>6. IsList(f) /\ DOMAIN f = 1 .. n
  BY <1>1, <1>3, FunctionList
<1>7. \A x \in S : \E i \in DOMAIN f : f[i] = x
  BY <1>5, <1>6 DEF Surjection
<1>8. \A i \in DOMAIN f : f[i] \in S
  BY <1>3, <1>6
<1> QED
  BY <1>6, <1>7, <1>8 DEF f

LEMMA RmGlobPlanned ==
  ASSUME NEW t, t.module = "rmGlob"
  PROVE  Planned(RmGlob(t), t)
<1> DEFINE S == {q \in Below(t.under) : tree[q] \notin {Absent, Dir}}
           m == Matched(t)  ops == RmGlob(t)
<1>1. Wants(t) = [q \in Below(t.under) |-> {Absent, Dir}]
  BY DEF Wants
<1>2. IsFiniteSet(S)
  BY PathsAssumption, FS_Subset DEF Below
<1>3. IsList(m) /\ \A x : x \in S <=> \E i \in DOMAIN m : m[i] = x
  BY <1>2, SequenceOfSet DEF Matched
<1>4. Len(m) \in Nat /\ DOMAIN m = 1 .. Len(m)
  BY <1>3, ListFacts DEF IsList
<1>5. /\ IsList(ops) /\ DOMAIN ops = 1 .. Len(m)
      /\ \A k \in 1 .. Len(m) : ops[k].does = "rmf" /\ ops[k].path = m[k]
  BY <1>4, FunctionList DEF RmGlob, Op
<1>6. \A k \in 1 .. Len(m) : m[k] \in S /\ m[k] \in Paths
  BY <1>3, <1>4 DEF Below
<1>7. \A q \in Below(t.under) : q \in Inner /\ Below(q) \subseteq Below(t.under)
  <2>1. ASSUME NEW q \in Below(t.under) PROVE q \in Paths /\ t.under \in Above(q)
    BY DEF Below
  <2>2. ASSUME NEW q \in Below(t.under), NEW r \in Below(q) PROVE r \in Below(t.under)
    <3>1. r \in Paths /\ q \in Above(r)
      BY DEF Below
    <3>2. Above(q) \subseteq Above(r)
      BY <3>1, AboveFacts
    <3> QED
      BY <2>1, <3>1, <3>2 DEF Below
  <2> QED
    BY <2>1, <2>2, TempFacts DEF Inner
<1>8. \A k \in 1 .. Len(m) : Touches(ops[k]) = Below(m[k]) \cup {m[k]}
  BY <1>5 DEF Touches
<1>9. \A k \in 1 .. Len(m) : Touches(ops[k]) \subseteq Below(t.under)
  BY <1>6, <1>7, <1>8
<1>10. ASSUME NEW q \in Below(t.under) PROVE Gets(ops, q, {Absent, Dir})
  <2> DEFINE T == {k \in 1 .. Len(m) : q \in Touches(ops[k])}
  <2>1. CASE T = {}
    <3>1. ASSUME q \in S PROVE FALSE
      <4>1. PICK i \in DOMAIN m : m[i] = q
        BY <1>3, <3>1
      <4>2. i \in 1 .. Len(m)
        BY <1>4
      <4>3. q \in Touches(ops[i])
        BY <1>8, <4>1, <4>2
      <4>4. i \in T
        BY <4>2, <4>3
      <4> QED
        BY <2>1, <4>4
    <3> QED
      BY <1>5, <2>1, <3>1 DEF Gets, Spares
  <2>2. CASE T # {}
    <3>1. Max(T) \in T /\ \A j \in T : j <= Max(T)
      BY <1>4, <2>2, MaxFacts
    <3>2. ASSUME NEW j \in DOMAIN ops, Max(T) < j PROVE q \notin Touches(ops[j])
      BY <1>4, <1>5, <3>1, <3>2
    <3>3. Leaves(ops[Max(T)], q) \in {Absent, Dir}
      BY <1>5, <3>1 DEF Leaves
    <3> QED
      BY <1>5, <3>1, <3>2, <3>3 DEF Gets, Will
  <2> QED
    BY <2>1, <2>2
<1> HIDE DEF ops, m, S
<1>11. OpList(ops) /\ OpensFirst(ops) /\ TestsKnown(ops)
  BY <1>5, <1>6 DEF OpList, Kinds, OpensFirst, TestsKnown, Fills
<1>12. Planned(ops, t)
  BY <1>1, <1>5, <1>7, <1>9, <1>10, <1>11 DEF Planned, Fills
<1> QED
  BY <1>12 DEF ops

LEMMA TmpPieces ==
  ASSUME NEW F
  PROVE  /\ Piece(MakeTmp, Empty, F) /\ Piece(DownloadFile(Tmp, "zip"), Empty, F)
         /\ Piece(Fetch(Tmp, "zip"), Empty, F)
         /\ Piece(<<Op("rmf", Tmp, Absent)>>, Empty, F) /\ Piece(<<>>, Empty, F)
<1> DEFINE a == Op("open", Tmp, "zip")  b == Op("request", Tmp, "zip")
           c == Op("receive", Tmp, "zip")  d == Op("rmf", Tmp, Absent)
<1>1. /\ a.does = "open" /\ a.path = Tmp /\ b.does = "request" /\ b.path = Tmp
      /\ c.does = "receive" /\ c.path = Tmp /\ d.does = "rmf" /\ d.path = Tmp /\ Tmp \in Paths
      /\ a.does \in Kinds /\ b.does \in Kinds /\ c.does \in Kinds /\ d.does \in Kinds
  BY TempFacts DEF Op, Kinds
<1> HIDE DEF a, b, c, d
<1>2. /\ OpList(<<a, b, c>>) /\ DOMAIN <<a, b, c>> = {1, 2, 3}
      /\ <<a, b, c>>[1] = a /\ <<a, b, c>>[2] = b /\ <<a, b, c>>[3] = c
  BY <1>1, OpsOfThree
<1>3. /\ OpList(<<b, a, c>>) /\ DOMAIN <<b, a, c>> = {1, 2, 3}
      /\ <<b, a, c>>[1] = b /\ <<b, a, c>>[2] = a /\ <<b, a, c>>[3] = c
  BY <1>1, OpsOfThree
<1>4. /\ OpList(<<a>>) /\ DOMAIN <<a>> = {1} /\ <<a>>[1] = a
      /\ OpList(<<d>>) /\ DOMAIN <<d>> = {1} /\ <<d>>[1] = d
  BY <1>1, OpsOfOne
<1> DEFINE ops == <<a, b, c>>  later == <<b, a, c>>
<1> HIDE DEF ops, later
<1>5. Opened(ops, 3) /\ Opened(later, 3)
  BY <1>1, <1>2, <1>3 DEF Opened, Untouched, ops, later, Touches
<1>6. Piece(ops, Empty, F)
  BY <1>1, <1>2, <1>5, TempPiece DEF Fills, ops
<1>7. Piece(later, Empty, F)
  BY <1>1, <1>3, <1>5, TempPiece DEF Fills, later
<1>8. Piece(<<a>>, Empty, F)
  BY <1>1, <1>4, TempPiece DEF Fills
<1>9. Piece(<<d>>, Empty, F)
  BY <1>1, <1>4, TempPiece DEF Fills
<1>10. Piece(<<>>, Empty, F)
  <2>1. <<>> \in Seq({}) /\ DOMAIN <<>> = {}
    OBVIOUS
  <2>2. OpList(<<>>)
    BY <2>1, ListFacts DEF OpList
  <2> QED
    BY <2>1, <2>2 DEF Piece, Empty
<1> QED
  BY <1>6, <1>7, <1>8, <1>9, <1>10 DEF ops, later, a, b, c, d, MakeTmp, DownloadFile, Fetch

LEMMA PieceThenEmpty ==
  ASSUME NEW a, NEW b, NEW U, NEW F, Piece(a, U, F), Piece(b, Empty, F)
  PROVE  Piece(a \o b, U, F)
<1>1. Piece(a \o b, Over(Empty, U), F)
  BY PieceConcat
<1>2. DOMAIN Over(Empty, U) = DOMAIN U /\ \A p \in DOMAIN U : Over(Empty, U)[p] = U[p]
  BY DEF Over, Empty
<1> QED
  BY <1>1, <1>2, PieceWeaker

LEMMA EmptyThenPiece ==
  ASSUME NEW a, NEW b, NEW U, NEW F, Piece(a, Empty, F), Piece(b, U, F)
  PROVE  Piece(a \o b, U, F)
<1>1. Piece(a \o b, Over(U, Empty), F)
  BY PieceConcat
<1>2. DOMAIN Over(U, Empty) = DOMAIN U /\ \A p \in DOMAIN U : Over(U, Empty)[p] = U[p]
  BY DEF Over, Empty
<1> QED
  BY <1>1, <1>2, PieceWeaker

LEMMA DownloadPlanned ==
  ASSUME NEW t, CanBe(t), t.module = "download"
  PROVE  Planned(Download(t), t)
<1>1. t.dest \in Inner
  BY ConcernFacts DEF Concerns
<1>2. CASE t.extract = "none"
  <2>1. Wants(t) = Placed(t.dest, t.content) /\ Puts(t) = {<<t.dest, t.content>>}
    BY <1>2 DEF Wants, Puts
  <2>2. DOMAIN Wants(t) \subseteq Inner
    BY <1>1, <2>1, PlacedWants
  <2>3. CASE tree[t.dest] = Dir
    BY <1>2, <2>2, <2>3, ThrowPlanned DEF Download
  <2>4. CASE tree[t.dest] # Dir
    <3>1. Piece(Fetch(t.dest, t.content), Wants(t), Puts(t))
      BY <1>1, <2>1, ReceivePiece
    <3> QED
      BY <1>2, <2>4, <3>1, PieceIsPlan DEF Download
  <2> QED
    BY <2>3, <2>4
<1>3. CASE t.extract # "none"
  <2> DEFINE to(i) == t.dest \o Zipped[i].path
             Ws == [i \in DOMAIN Zipped |-> Placed(to(i), Zipped[i].holds)]
             U == Placed(t.dest, Dir)
             seqs == [i \in DOMAIN Zipped |-> Entry(t.extract, to(i), Zipped[i].holds)]
             F == Puts(t)
  <2>1. Wants(t) = Over(Latest(Ws), U) /\ F = {<<to(i), Zipped[i].holds>> : i \in DOMAIN Zipped}
    BY <1>3 DEF Wants, Puts
  <2>2. IsList(Zipped) /\ Len(Zipped) \in Nat /\ DOMAIN Zipped = 1 .. Len(Zipped)
    BY RecipesAssumption, ListFacts DEF IsList
  <2>3. IsList(seqs) /\ DOMAIN seqs = DOMAIN Zipped
    BY <2>2, FunctionList
  <2>4. ASSUME NEW i \in DOMAIN seqs PROVE Piece(seqs[i], Ws[i], F)
    <3> DEFINE v == Zipped[i].holds
    <3>1. i \in DOMAIN Zipped /\ <<to(i), v>> \in F
      BY <2>1, <2>3
    <3>2. to(i) \in Inner
      BY <3>1, ConcernFacts
    <3>3. CASE v = Dir
      <4> DEFINE does == IF t.extract = "zip" THEN "mkdir" ELSE "mkdirp"
      <4>1. Entry(t.extract, to(i), v) = <<Op(does, to(i), Dir)>> /\ does \in {"mkdirp", "mkdir"}
        BY <3>3 DEF Entry
      <4>2. Piece(<<Op(does, to(i), Dir)>>, Placed(to(i), Dir), F)
        BY <3>2, <4>1, DirPiece
      <4> QED
        BY <3>1, <3>3, <4>1, <4>2
    <3>4. CASE v # Dir
      <4>1. Entry(t.extract, to(i), v) = Create(to(i), v)
        BY <3>4 DEF Entry
      <4>2. Piece(Create(to(i), v), Placed(to(i), v), F)
        BY <3>1, <3>2, CreatePiece
      <4> QED
        BY <3>1, <4>1, <4>2
    <3> QED
      BY <3>3, <3>4
  <2>5. Unpack(t.extract, t.dest) = FlattenSeq(seqs) /\ DOMAIN Ws = DOMAIN seqs
    BY DEF Unpack
  <2>6. Piece(<<Op("mkdirp", t.dest, Dir)>>, U, F)
    BY <1>1, DirPiece
  <2> HIDE DEF Ws, U, seqs, F
  <2>7. Piece(Unpack(t.extract, t.dest), Latest(Ws), F)
    BY <2>3, <2>4, <2>5, PieceFlatten
  <2> DEFINE a == <<Op("mkdirp", t.dest, Dir)>> \o MakeTmp \o Fetch(Tmp, "zip")
             ops == a \o Unpack(t.extract, t.dest) \o <<Op("rmf", Tmp, Absent)>>
  <2>8. Piece(a, U, F)
    BY <2>6, TmpPieces, PieceThenEmpty
  <2> HIDE DEF a
  <2>9. Piece(a \o Unpack(t.extract, t.dest), Wants(t), F)
    BY <2>1, <2>7, <2>8, PieceConcat
  <2>10. Piece(ops, Wants(t), F)
    BY <2>9, TmpPieces, PieceThenEmpty
  <2>11. DOMAIN Wants(t) \subseteq Inner
    BY <2>10 DEF Piece, Inner
  <2> HIDE DEF ops
  <2>12. CASE tree[t.dest] \notin {Absent, Dir}
    BY <1>3, <2>11, <2>12, ThrowPlanned DEF Download
  <2>13. CASE tree[t.dest] \in {Absent, Dir}
    <3>1. Download(t) = ops
      BY <1>3, <2>13 DEF Download, ops, a
    <3> QED
      BY <2>10, <3>1, PieceIsPlan DEF F
  <2> QED
    BY <2>12, <2>13
<1> QED
  BY <1>2, <1>3

(* A test at the end: what it tests was written before, or is in the cache. *)
LEMMA TestPlanned ==
  ASSUME NEW t, NEW p \in Inner, NEW v, Wants(t) = Placed(p, v), Whole(v),
         NEW a, NEW W, Piece(a, W, Puts(t)), DOMAIN W \subseteq DOMAIN Wants(t),
         \/ p \in DOMAIN W /\ W[p] = {v}
         \/ p \notin DOMAIN W /\ tree[p] \in {Absent, Dir, Torn, v}
  PROVE  Planned(a \o <<Op("test", p, v)>>, t)
<1> DEFINE b == Op("test", p, v)  c == a \o <<b>>  n == Len(a)  l == Len(a) + 1
<1>1. b.does = "test" /\ b.path = p /\ b.what = v /\ p \in Paths /\ b.does \in Kinds
  BY DEF Op, Kinds, Inner
<1> HIDE DEF b
<1>2. OpList(<<b>>) /\ DOMAIN <<b>> = {1} /\ <<b>>[1] = b /\ Len(<<b>>) = 1
  BY <1>1, OpsOfOne
<1>3. /\ IsList(c) /\ n \in Nat /\ l = n + 1 /\ l \in Nat
      /\ DOMAIN a = 1 .. n /\ DOMAIN c = (1 .. n) \cup {l}
      /\ c[l] = b /\ \A k \in 1 .. n : c[k] = a[k] /\ k < l /\ ~ (l < k)
  <2>1. IsList(a) /\ IsList(<<b>>)
    BY <1>2 DEF Piece, OpList
  <2>2. /\ IsList(c) /\ n \in Nat /\ DOMAIN a = 1 .. n /\ DOMAIN c = 1 .. n + Len(<<b>>)
        /\ \A k \in 1 .. n : c[k] = a[k]
        /\ \A k \in 1 .. Len(<<b>>) : c[n + k] = <<b>>[k]
    BY <2>1, ConcatFacts
  <2>3. 1 \in 1 .. Len(<<b>>) /\ l \in Nat
    BY <1>2, <2>2
  <2> QED
    BY <1>2, <2>2, <2>3
<1> HIDE DEF c, n, l
<1>4. /\ DOMAIN Wants(t) = Above(p) \cup {p} /\ DOMAIN Wants(t) \subseteq Inner
      /\ Wants(t)[p] = {v} /\ \A q \in Above(p) : Wants(t)[q] = {Dir}
  BY PlacedWants
<1>5. /\ \A k \in 1 .. n : /\ a[k].does \in Kinds /\ a[k].path \in Paths
                           /\ a[k].does \notin {"throw", "test"}
                           /\ Touches(a[k]) \subseteq DOMAIN W \cup {Tmp, Temp}
                           /\ Fills(a[k]) => /\ Opened(a, k)
                                             /\ a[k].path = Tmp \/ <<a[k].path, a[k].what>> \in Puts(t)
      /\ \A q \in DOMAIN W : Will(a, q, W[q])
  BY <1>3 DEF Piece, OpList
<1>6. \A k \in DOMAIN c : c[k].does \in Kinds /\ c[k].path \in Paths
  BY <1>1, <1>3, <1>5
<1>7. OpensFirst(c)
  <2>1. ASSUME NEW k \in 1 .. n, Opened(a, k) PROVE Opened(c, k)
    <3>1. PICK j \in DOMAIN a : /\ j < k /\ a[j].does = "open" /\ a[j].path = a[k].path
                                /\ Untouched(a, a[k].path, j, k)
      BY <2>1 DEF Opened
    <3>2. Untouched(c, a[k].path, j, k)
      BY <1>3, <3>1 DEF Untouched
    <3> QED
      BY <1>3, <3>1, <3>2 DEF Opened
  <2>2. ASSUME NEW k \in DOMAIN c, Fills(c[k]) PROVE Opened(c, k)
    <3>1. k # l
      BY <1>1, <1>3, <2>2 DEF Fills
    <3>2. k \in 1 .. n /\ Fills(a[k])
      BY <1>3, <2>2, <3>1
    <3>3. Opened(a, k)
      BY <1>3, <3>2 DEF Piece
    <3> QED
      BY <2>1, <3>2, <3>3
  <2> QED
    BY <2>2 DEF OpensFirst
<1>8. Written(c, l) \/ (tree[p] \in {Absent, Dir, Torn, v} /\ Untouched(c, p, 0, l))
  <2>1. CASE p \in DOMAIN W /\ W[p] = {v}
    <3>1. PICK k \in DOMAIN a : /\ p \in Touches(a[k]) /\ Leaves(a[k], p) \in {v}
                                /\ \A j \in DOMAIN a : k < j => p \notin Touches(a[j])
      BY <1>5, <2>1 DEF Will
    <3>2. Fills(a[k]) /\ a[k].path = p /\ a[k].what = v
      BY <1>3, <1>5, <3>1 DEF Leaves, Whole, Kinds, Fills, Touches
    <3>3. Untouched(c, p, k, l)
      <4>1. ASSUME NEW i \in DOMAIN c, k < i, i < l PROVE p \notin Touches(c[i])
        <5>1. i \in 1 .. n
          BY <1>3, <4>1
        <5> QED
          BY <1>3, <3>1, <4>1, <5>1
      <4> QED
        BY <4>1 DEF Untouched
    <3> QED
      BY <1>1, <1>3, <3>1, <3>2, <3>3 DEF Written, Fills
  <2>2. CASE p \notin DOMAIN W /\ tree[p] \in {Absent, Dir, Torn, v}
    <3>1. p \notin {Tmp, Temp}
      BY DEF Inner
    <3>2. ASSUME NEW i \in DOMAIN c, i < l PROVE p \notin Touches(c[i])
      <4>1. i \in 1 .. n
        BY <1>3, <3>2
      <4> QED
        BY <1>3, <1>5, <2>2, <3>1, <4>1
    <3> QED
      BY <2>2, <3>2 DEF Untouched
  <2> QED
    BY <2>1, <2>2
<1>9. TestsKnown(c)
  BY <1>1, <1>3, <1>5, <1>8 DEF TestsKnown
<1>10. \A k \in DOMAIN c :
         /\ Touches(c[k]) \subseteq DOMAIN Wants(t) \cup {Tmp, Temp}
         /\ Fills(c[k]) => c[k].path = Tmp \/ <<c[k].path, c[k].what>> \in Puts(t)
  <2>1. Touches(b) = DOMAIN Wants(t) /\ ~ Fills(b)
    BY <1>1, <1>4 DEF Touches, Fills
  <2> QED
    BY <1>3, <1>5, <2>1
<1>11. ASSUME NEW q \in DOMAIN Wants(t) PROVE Gets(c, q, Wants(t)[q])
  <2>1. q \in Touches(c[l]) /\ Leaves(c[l], q) \in Wants(t)[q]
    <3>1. q = p \/ (q \in Above(p) /\ q # p)
      BY <1>1, <1>4, AboveFacts
    <3> QED
      BY <1>1, <1>3, <1>4, <3>1 DEF Touches, Leaves
  <2>2. \A j \in DOMAIN c : ~ (l < j)
    BY <1>3
  <2> QED
    BY <1>3, <2>1, <2>2 DEF Gets, Will
<1>12. Planned(c, t)
  BY <1>3, <1>4, <1>6, <1>7, <1>9, <1>10, <1>11 DEF Planned, OpList
<1> QED
  BY <1>12 DEF c, b

LEMMA CachePiece ==
  ASSUME NEW t, CanBe(t), t.module \in {"node", "esbuild"}
  PROVE  /\ t.path \in Inner /\ Whole(t.content) /\ Wants(t) = Placed(t.path, t.content)
         /\ <<t.path, t.content>> \in Puts(t)
         /\ DOMAIN Wants(t) = Above(t.path) \cup {t.path} /\ t.path \notin Above(t.path)
         /\ Piece(<<Op("mkdirp", Front(t.path), Dir)>>, Placed(Front(t.path), Dir), Puts(t))
         /\ DOMAIN Placed(Front(t.path), Dir) = Above(t.path)
<1>1. Wants(t) = Placed(t.path, t.content) /\ Puts(t) = {<<t.path, t.content>>}
  BY DEF Wants, Puts
<1>2. t.path \in Inner /\ Whole(t.content) /\ Len(t.path) > 1
  BY <1>1, ConcernFacts DEF CanBe
<1>3. Front(t.path) \in Inner /\ Above(t.path) = Above(Front(t.path)) \cup {Front(t.path)}
  BY <1>2, FrontFacts, TempFacts DEF Inner
<1>4. Piece(<<Op("mkdirp", Front(t.path), Dir)>>, Placed(Front(t.path), Dir), Puts(t))
  BY <1>3, DirPiece
<1>5. DOMAIN Placed(Front(t.path), Dir) = Above(t.path)
  BY <1>3, PlacedFacts
<1>6. DOMAIN Wants(t) = Above(t.path) \cup {t.path}
  <2>1. DOMAIN Placed(t.path, t.content) = Above(t.path) \cup {t.path}
    BY <1>2, PlacedFacts
  <2> QED
    BY <1>1, <2>1
<1>7. t.path \notin Above(t.path)
  BY <1>2, PlacedFacts
<1> QED
  BY <1>1, <1>2, <1>4, <1>5, <1>6, <1>7

(* A file that is made, or is there already, and then tested.               *)
LEMMA MadePlanned ==
  ASSUME NEW t, CanBe(t), t.module \in {"node", "esbuild"}, NEW made,
         Piece(made, Placed(t.path, t.content), Puts(t))
  PROVE  Planned(<<Op("mkdirp", Front(t.path), Dir)>> \o made \o <<Op("test", t.path, t.content)>>, t)
<1> DEFINE p == t.path  v == t.content  U == Placed(Front(t.path), Dir)  W == Placed(t.path, t.content)
           a == <<Op("mkdirp", Front(t.path), Dir)>> \o made
<1>1. /\ p \in Inner /\ Whole(v) /\ Wants(t) = Placed(p, v) /\ DOMAIN Wants(t) = Above(p) \cup {p}
      /\ Piece(<<Op("mkdirp", Front(t.path), Dir)>>, U, Puts(t)) /\ DOMAIN U = Above(p)
  BY CachePiece
<1>2. DOMAIN W = Above(p) \cup {p} /\ W[p] = {v}
  BY <1>1, PlacedFacts
<1>3. Piece(a, Over(W, U), Puts(t))
  BY <1>1, PieceConcat
<1> HIDE DEF a, U, W
<1>4. DOMAIN Over(W, U) = DOMAIN Wants(t) /\ p \in DOMAIN Over(W, U) /\ Over(W, U)[p] = {v}
  BY <1>1, <1>2 DEF Over
<1>5. Planned(a \o <<Op("test", p, v)>>, t)
  BY <1>1, <1>3, <1>4, TestPlanned
<1> QED
  BY <1>5 DEF a

LEMMA FoundPlanned ==
  ASSUME NEW t, CanBe(t), t.module \in {"node", "esbuild"},
         tree[t.path] \in {Absent, Dir, Torn, t.content}
  PROVE  Planned(<<Op("mkdirp", Front(t.path), Dir)>> \o <<>> \o <<Op("test", t.path, t.content)>>, t)
<1> DEFINE p == t.path  v == t.content  U == Placed(Front(t.path), Dir)
           a == <<Op("mkdirp", Front(t.path), Dir)>> \o <<>>
<1>1. /\ p \in Inner /\ Whole(v) /\ Wants(t) = Placed(p, v) /\ DOMAIN Wants(t) = Above(p) \cup {p}
      /\ Piece(<<Op("mkdirp", Front(t.path), Dir)>>, U, Puts(t)) /\ DOMAIN U = Above(p) /\ p \notin Above(p)
  BY CachePiece
<1>2. Piece(a, U, Puts(t))
  BY <1>1, TmpPieces, PieceThenEmpty
<1> HIDE DEF a, U
<1>3. Planned(a \o <<Op("test", p, v)>>, t)
  BY <1>1, <1>2, TestPlanned
<1> QED
  BY <1>3 DEF a

LEMMA NodeDistPlanned ==
  ASSUME NEW t, CanBe(t), t.module = "node", Kept(t, tree)
  PROVE  Planned(NodeDist(t), t)
<1>1. CASE tree[t.path] # Absent
  <2>1. Planned(<<Op("mkdirp", Front(t.path), Dir)>> \o <<>> \o <<Op("test", t.path, t.content)>>, t)
    BY FoundPlanned DEF Kept
  <2> QED
    BY <1>1, <2>1 DEF NodeDist
<1>2. CASE tree[t.path] = Absent
  <2>1. Piece(DownloadFile(t.path, t.content), Placed(t.path, t.content), Puts(t))
    BY CachePiece, ReceivePiece
  <2>2. Planned(<<Op("mkdirp", Front(t.path), Dir)>> \o DownloadFile(t.path, t.content)
                  \o <<Op("test", t.path, t.content)>>, t)
    BY <2>1, MadePlanned
  <2> QED
    BY <1>2, <2>2 DEF NodeDist
<1> QED
  BY <1>1, <1>2

LEMMA ESBuildPlanned ==
  ASSUME NEW t, CanBe(t), t.module = "esbuild"
  PROVE  Planned(ESBuild(t), t)
<1>1. CASE Trusted(t)
  <2>1. tree[t.path] \in {Absent, Dir, Torn, t.content}
    BY <1>1 DEF Trusted
  <2>2. Planned(<<Op("mkdirp", Front(t.path), Dir)>> \o <<>> \o <<Op("test", t.path, t.content)>>, t)
    BY <2>1, FoundPlanned
  <2> QED
    BY <1>1, <2>2 DEF ESBuild
<1>2. CASE ~ Trusted(t)
  <2> DEFINE made == MakeTmp \o DownloadFile(Tmp, "zip") \o Create(t.path, t.content)
  <2>1. Piece(MakeTmp \o DownloadFile(Tmp, "zip"), Empty, Puts(t))
    BY TmpPieces, PieceThenEmpty
  <2>2. Piece(Create(t.path, t.content), Placed(t.path, t.content), Puts(t))
    BY CachePiece, CreatePiece
  <2>3. Piece(made, Placed(t.path, t.content), Puts(t))
    BY <2>1, <2>2, EmptyThenPiece
  <2>4. ESBuild(t) = <<Op("mkdirp", Front(t.path), Dir)>> \o made \o <<Op("test", t.path, t.content)>>
    BY <1>2 DEF ESBuild
  <2> HIDE DEF made
  <2> QED
    BY <2>3, <2>4, MadePlanned
<1> QED
  BY <1>1, <1>2

LEMMA OperationsPlanned ==
  ASSUME Host, NEW t, CanBe(t), Kept(t, tree)
  PROVE  Planned(Operations(t), t)
<1>1. t.module \in {"write", "copy", "copyGlob", "rm", "rmGlob", "mkdir", "stat", "temp",
                    "download", "node", "esbuild"}
  BY DEF CanBe
<1>2. CASE t.module = "write"
  BY <1>2, WritePlanned DEF Operations
<1>3. CASE t.module = "copy"
  BY <1>3, CopyPlanned DEF Operations
<1>4. CASE t.module = "copyGlob"
  BY <1>4, CopyGlobPlanned DEF Operations
<1>5. CASE t.module = "rm"
  BY <1>5, RmPlanned DEF Operations
<1>6. CASE t.module = "rmGlob"
  BY <1>6, RmGlobPlanned DEF Operations
<1>7. CASE t.module = "mkdir"
  BY <1>7, MkdirPlanned DEF Operations
<1>8. CASE t.module = "stat"
  BY <1>8, StatPlanned DEF Operations
<1>9. CASE t.module = "temp"
  BY <1>9, TempPlanned DEF Operations
<1>10. CASE t.module = "download"
  BY <1>10, DownloadPlanned DEF Operations
<1>11. CASE t.module = "node"
  BY <1>11, NodeDistPlanned DEF Operations
<1>12. CASE t.module = "esbuild"
  BY <1>12, ESBuildPlanned DEF Operations
<1> QED
  BY <1>1, <1>2, <1>3, <1>4, <1>5, <1>6, <1>7, <1>8, <1>9, <1>10, <1>11, <1>12
-----------------------------------------------------------------------------
(* The invariant.                                                           *)
RunType ==
  /\ recipe \in Recipes /\ at \in DOMAIN recipe
  /\ status \in {"idle", "task", "running", "ok", "failed", "hung", "dead"}
  /\ status # "running" => todo = <<>>
  /\ status = "ok" => at = Len(recipe)

(* A module touches what its task is about only.                            *)
OwnOnly ==
  status = "running" =>
    \A k \in DOMAIN todo : Touches(todo[k]) \subseteq DOMAIN Wants(Task) \cup {Tmp, Temp}

(* A file in the cache of Node.js is its version's, or not whole.           *)
CacheKept ==
  \A i \in DOMAIN recipe : recipe[i].module = "node" =>
    /\ tree[recipe[i].path] \in {Absent, Dir, Torn, recipe[i].content}
    /\ \A k \in DOMAIN todo : Fills(todo[k]) /\ todo[k].path = recipe[i].path
                              => todo[k].what = recipe[i].content

(* The task at hand will be done, if all of its operations are.             *)
TaskGets ==
  status = "running" =>
    Throws(todo) \/ \A p \in DOMAIN Wants(Task) : Gets(todo, p, Wants(Task)[p])

(* What a task before did is there, but where a later one is about it.      *)
Done == IF status = "ok" THEN at ELSE at - 1
Settled(i, p) ==
  \/ tree[p] \in Wants(recipe[i])[p]
  \/ \E j \in DOMAIN recipe : i < j /\ j <= Done /\ p \in DOMAIN Wants(recipe[j])
  \/ status = "running" /\ p \in DOMAIN Wants(Task)
TasksSettled ==
  status \in {"task", "running", "ok"} =>
    \A i \in DOMAIN recipe : i <= Done => \A p \in DOMAIN Wants(recipe[i]) : Settled(i, p)

HostInv ==
  /\ Host /\ RunType /\ OpList(todo) /\ OpensFirst(todo) /\ TestsKnown(todo)
  /\ OwnOnly /\ CacheKept /\ TaskGets /\ TasksSettled

LEMMA RecipeFacts ==
  ASSUME HostInv
  PROVE  /\ Len(recipe) \in Nat /\ DOMAIN recipe = 1 .. Len(recipe) /\ 1 \in DOMAIN recipe
         /\ \A i \in DOMAIN recipe : /\ CanBe(recipe[i]) /\ Kept(recipe[i], tree)
                                     /\ DOMAIN Wants(recipe[i]) \subseteq Inner
         /\ \A i, k \in DOMAIN recipe : \A f \in Puts(recipe[k]) :
              recipe[i].module = "node" /\ f[1] = recipe[i].path => f[2] = recipe[i].content
         /\ \A i \in DOMAIN recipe : recipe[i].module = "node" => recipe[i].path \in Inner
<1>1. /\ IsList(recipe) /\ recipe # <<>> /\ \A i \in DOMAIN recipe : CanBe(recipe[i])
      /\ \A i, k \in DOMAIN recipe : \A f \in Puts(recipe[k]) :
           recipe[i].module = "node" /\ f[1] = recipe[i].path => f[2] = recipe[i].content
  BY RecipesAssumption DEF HostInv, RunType
<1>2. Len(recipe) \in Nat /\ DOMAIN recipe = 1 .. Len(recipe) /\ 1 \in DOMAIN recipe
  BY <1>1, TailFacts, ListFacts DEF IsList
<1>3. ASSUME NEW i \in DOMAIN recipe
      PROVE  Kept(recipe[i], tree) /\ DOMAIN Wants(recipe[i]) \subseteq Inner
  <2> DEFINE t == recipe[i]
  <2>1. CanBe(t) /\ Kept(t, tree) /\ Host
    BY <1>1 DEF HostInv, CacheKept, Kept
  <2> HIDE DEF t
  <2>2. DOMAIN Wants(t) \subseteq Inner
    BY <2>1, OperationsPlanned DEF Planned
  <2> QED
    BY <2>1, <2>2 DEF t
<1>4. ASSUME NEW i \in DOMAIN recipe, recipe[i].module = "node" PROVE recipe[i].path \in Inner
  <2> DEFINE t == recipe[i]
  <2>1. CanBe(t) /\ t.module = "node"
    BY <1>1, <1>4
  <2> HIDE DEF t
  <2>2. t.path \in Inner
    BY <2>1, CachePiece
  <2> QED
    BY <2>2 DEF t
<1> QED
  BY <1>1, <1>2, <1>3, <1>4

LEMMA NoOperations ==
  /\ OpList(<<>>) /\ OpensFirst(<<>>) /\ TestsKnown(<<>>) /\ ~ Throws(<<>>) /\ DOMAIN <<>> = {}
<1>1. <<>> \in Seq({}) /\ DOMAIN <<>> = {}
  OBVIOUS
<1>2. OpList(<<>>)
  BY <1>1, ListFacts DEF OpList
<1> QED
  BY <1>1, <1>2 DEF OpensFirst, TestsKnown, Throws

LEMMA FilesInit == Init => HostInv
<1> SUFFICES ASSUME Init PROVE HostInv
  OBVIOUS
<1>1. /\ tree \in Trees /\ recipe \in Recipes /\ at = 1 /\ todo = <<>> /\ status = "idle"
  BY DEF Init
<1>2. Host
  BY <1>1, RecipesAssumption DEF Host
<1>3. RunType
  <2>1. IsList(recipe) /\ recipe # <<>>
    BY <1>1, RecipesAssumption
  <2>2. 1 \in DOMAIN recipe
    BY <2>1, TailFacts
  <2> QED
    BY <1>1, <2>2 DEF RunType
<1>4. CacheKept
  BY <1>1, NoOperations, RecipesAssumption DEF CacheKept, Kept
<1> QED
  BY <1>1, <1>2, <1>3, <1>4, NoOperations DEF HostInv, OwnOnly, TaskGets, TasksSettled

LEMMA ExitFacts ==
  ASSUME Host
  PROVE  /\ AtExit(tree) = [p \in Paths |-> AtExit(tree)[p]] /\ Rooted(AtExit(tree))
         /\ \A p \in Inner : AtExit(tree)[p] = tree[p]
<1> DEFINE e == AtExit(tree)
<1>1. tree = [p \in Paths |-> tree[p]] /\ Rooted(tree)
  BY DEF Host
<1>2. e = [tree EXCEPT ![Tmp] = Absent, ![Temp] = Absent]
  BY DEF AtExit
<1>3. e = [p \in Paths |-> e[p]] /\ \A p \in Inner : e[p] = tree[p]
  BY <1>1, <1>2 DEF Inner
<1>4. \A p \in Paths \ Inner : e[p] = Absent
  BY <1>1, <1>2 DEF Inner
<1> HIDE DEF e
<1>5. Rooted(e)
  <2>1. ASSUME NEW q \in Paths, e[q] # Absent, NEW p \in Above(q) PROVE e[p] = Dir
    <3>1. tree[q] # Absent
      BY <1>3, <1>4, <2>1
    <3>2. tree[p] = Dir /\ p \in Paths
      BY <1>1, <3>1, AboveFacts DEF Rooted
    <3>3. p \in Inner
      BY <3>2, TempFacts DEF Inner
    <3> QED
      BY <1>3, <3>2, <3>3
  <2> QED
    BY <2>1 DEF Rooted
<1> QED
  BY <1>3, <1>5 DEF e

(* A step after which no module is at work.                                 *)
LEMMA AtRest ==
  ASSUME HostInv, recipe' = recipe, todo' = <<>>, status' # "running",
         tree' = tree \/ tree' = AtExit(tree)
  PROVE  /\ Host' /\ OpList(todo)' /\ OpensFirst(todo)' /\ TestsKnown(todo)'
         /\ OwnOnly' /\ CacheKept' /\ TaskGets' /\ \A p \in Inner : tree'[p] = tree[p]
<1>1. \A p \in Inner : tree'[p] = tree[p]
  BY ExitFacts DEF HostInv
<1>2. Host'
  BY ExitFacts DEF HostInv, Host, Rooted
<1>3. OpList(todo)' /\ OpensFirst(todo)' /\ TestsKnown(todo)'
  BY NoOperations DEF OpList, OpensFirst, TestsKnown
<1>4. CacheKept'
  <2>1. CacheKept
    BY DEF HostInv
  <2>2. \A i \in DOMAIN recipe : recipe[i].module = "node" =>
          tree'[recipe[i].path] \in {Absent, Dir, Torn, recipe[i].content}
    BY <1>1, <2>1, RecipeFacts DEF CacheKept
  <2> QED
    BY <2>2, NoOperations DEF CacheKept
<1>5. OwnOnly' /\ TaskGets'
  BY DEF OwnOnly, TaskGets
<1> QED
  BY <1>1, <1>2, <1>3, <1>4, <1>5

LEMMA BeginKeeps == ASSUME HostInv, Begin PROVE HostInv'
<1> DEFINE t == Task  ops == Operations(t)
<1>1. /\ status = "task" /\ status' = "running" /\ todo' = ops
      /\ tree' = tree /\ recipe' = recipe /\ at' = at
  BY DEF Begin
<1>2. at \in DOMAIN recipe /\ t = recipe[at] /\ CanBe(t) /\ Kept(t, tree) /\ Host
  BY RecipeFacts DEF HostInv, RunType, Task
<1> HIDE DEF t
<1>3. Planned(ops, t)
  BY <1>2, OperationsPlanned
<1> HIDE DEF ops
<1>4. Host'
  BY <1>1, <1>2 DEF Host, Rooted
<1>5. RunType'
  BY <1>1 DEF HostInv, RunType
<1>6. OpList(todo)' /\ OpensFirst(todo)' /\ TestsKnown(todo)'
  BY <1>1, <1>3 DEF Planned, OpList, OpensFirst, TestsKnown
<1>7. OwnOnly'
  <2>1. \A k \in DOMAIN ops : Touches(ops[k]) \subseteq DOMAIN Wants(recipe[at]) \cup {Tmp, Temp}
    BY <1>2, <1>3 DEF Planned
  <2> QED
    BY <1>1, <2>1 DEF OwnOnly, Task
<1>8. CacheKept'
  <2>1. CacheKept
    BY DEF HostInv
  <2>2. ASSUME NEW i \in DOMAIN recipe, recipe[i].module = "node", NEW k \in DOMAIN ops,
               Fills(ops[k]), ops[k].path = recipe[i].path
        PROVE  ops[k].what = recipe[i].content
    <3> DEFINE f == <<ops[k].path, ops[k].what>>
    <3>1. recipe[i].path \in Inner
      BY <2>2, RecipeFacts
    <3>2. f \in Puts(recipe[at])
      BY <1>2, <1>3, <2>2, <3>1 DEF Planned, Inner
    <3>3. f[1] = recipe[i].path /\ f[2] = ops[k].what
      BY <2>2
    <3> HIDE DEF f
    <3> QED
      BY <1>2, <2>2, <3>2, <3>3, RecipeFacts
  <2> QED
    BY <1>1, <2>1, <2>2 DEF CacheKept
<1>9. TaskGets'
  <2>1. Throws(ops) \/ \A p \in DOMAIN Wants(recipe[at]) : Gets(ops, p, Wants(recipe[at])[p])
    BY <1>2, <1>3 DEF Planned
  <2> QED
    BY <1>1, <2>1 DEF TaskGets, Task, Throws, Gets, Will, Spares
<1>10. TasksSettled'
  <2>1. \A i \in DOMAIN recipe : i <= at - 1 => \A p \in DOMAIN Wants(recipe[i]) :
          \/ tree[p] \in Wants(recipe[i])[p]
          \/ \E j \in DOMAIN recipe : i < j /\ j <= at - 1 /\ p \in DOMAIN Wants(recipe[j])
    BY <1>1 DEF HostInv, TasksSettled, Settled, Done
  <2> QED
    BY <1>1, <2>1 DEF TasksSettled, Settled, Done
<1> QED
  BY <1>4, <1>5, <1>6, <1>7, <1>8, <1>9, <1>10 DEF HostInv

LEMMA PerformKeeps == ASSUME HostInv, Perform PROVE HostInv'
<1> DEFINE o == Head(todo)
<1>1. /\ status = "running" /\ status' = "running" /\ todo # <<>> /\ Possible(o)
      /\ tree' = After(o) /\ todo' = Tail(todo) /\ recipe' = recipe /\ at' = at
  BY DEF Perform
<1>2. Host /\ OpList(todo) /\ OpensFirst(todo) /\ TestsKnown(todo)
  BY DEF HostInv
<1>3. /\ Host' /\ OpList(todo)' /\ OpensFirst(todo)' /\ TestsKnown(todo)'
      /\ \A p \in Paths : p \notin Touches(o) => tree'[p] = tree[p]
      /\ \A p \in Touches(o) : p \in Paths /\ tree'[p] = Leaves(o, p)
      /\ \A p \in Paths : \A S : Gets(todo, p, S) => Gets(todo, p, S)'
  BY <1>1, <1>2, NextOperation
<1>4. /\ o = todo[1] /\ 1 \in DOMAIN todo
      /\ \A k \in DOMAIN todo' : todo'[k] = todo[k + 1] /\ k + 1 \in DOMAIN todo
      /\ \A k \in DOMAIN todo : k = 1 \/ (k - 1 \in DOMAIN todo' /\ todo'[k - 1] = todo[k])
      /\ o.does \in Kinds
  <2>1. IsList(todo)
    BY <1>2 DEF OpList
  <2>2. /\ o = todo[1] /\ 1 \in DOMAIN todo /\ Len(todo) \in Nat /\ DOMAIN todo = 1 .. Len(todo)
        /\ \A k \in Nat : k \in DOMAIN todo' <=> k # 0 /\ k + 1 \in DOMAIN todo
        /\ \A k \in DOMAIN todo' : k \in Nat /\ todo'[k] = todo[k + 1]
    BY <1>1, <2>1, TailFacts
  <2>3. ASSUME NEW k \in DOMAIN todo, k # 1 PROVE k - 1 \in DOMAIN todo' /\ todo'[k - 1] = todo[k]
    <3>1. k - 1 \in Nat /\ k - 1 # 0 /\ (k - 1) + 1 = k
      BY <2>2, <2>3
    <3>2. k - 1 \in DOMAIN todo'
      BY <2>2, <3>1
    <3> QED
      BY <2>2, <3>1, <3>2
  <2> QED
    BY <1>2, <2>2, <2>3 DEF OpList
<1> HIDE DEF o
<1>5. RunType'
  BY <1>1 DEF HostInv, RunType
<1>6. OwnOnly'
  <2>1. \A k \in DOMAIN todo : Touches(todo[k]) \subseteq DOMAIN Wants(recipe[at]) \cup {Tmp, Temp}
    BY <1>1 DEF HostInv, OwnOnly, Task
  <2>2. \A k \in DOMAIN todo' : Touches(todo'[k]) \subseteq DOMAIN Wants(recipe[at]) \cup {Tmp, Temp}
    BY <1>4, <2>1
  <2> QED
    BY <1>1, <2>2 DEF OwnOnly, Task
<1>7. CacheKept'
  <2>1. CacheKept
    BY DEF HostInv
  <2>2. ASSUME NEW i \in DOMAIN recipe, recipe[i].module = "node"
        PROVE  tree'[recipe[i].path] \in {Absent, Dir, Torn, recipe[i].content}
    <3> DEFINE x == recipe[i].path
    <3>1. x \in Paths /\ tree[x] \in {Absent, Dir, Torn, recipe[i].content}
      BY <2>1, <2>2, RecipeFacts DEF CacheKept, Inner
    <3>2. CASE x \notin Touches(o)
      BY <1>3, <3>1, <3>2
    <3>3. CASE x \in Touches(o) /\ Fills(o)
      <4>1. o.path = x => o.what = recipe[i].content
        BY <1>4, <2>1, <2>2, <3>3 DEF CacheKept
      <4>2. tree'[x] = Leaves(o, x)
        BY <1>3, <3>3
      <4> QED
        BY <3>3, <4>1, <4>2 DEF Leaves, Fills
    <3>4. CASE x \in Touches(o) /\ o.does = "test"
      <4>1. tree' = tree
        BY <1>1, <3>4 DEF After
      <4> QED
        BY <3>1, <4>1
    <3>5. CASE x \in Touches(o) /\ ~ Fills(o) /\ o.does # "test"
      <4>1. tree'[x] = Leaves(o, x)
        BY <1>3, <3>5
      <4>2. o.does \in {"mkdirp", "mkdir", "open", "rm", "rmf"}
        BY <1>4, <3>5 DEF Kinds, Fills, Touches
      <4> QED
        BY <4>1, <4>2 DEF Leaves
    <3> QED
      BY <3>2, <3>3, <3>4, <3>5
  <2>3. \A i \in DOMAIN recipe : recipe[i].module = "node" =>
          \A k \in DOMAIN todo' : Fills(todo'[k]) /\ todo'[k].path = recipe[i].path
                                  => todo'[k].what = recipe[i].content
    BY <1>4, <2>1 DEF CacheKept
  <2> QED
    BY <1>1, <2>2, <2>3 DEF CacheKept, Fills
<1>8. TaskGets'
  <2>1. CASE Throws(todo)
    <3>1. PICK k \in DOMAIN todo : todo[k].does = "throw"
      BY <2>1 DEF Throws
    <3>2. o.does # "throw"
      BY <1>1 DEF Possible
    <3>3. k # 1
      BY <1>4, <3>1, <3>2
    <3>4. k - 1 \in DOMAIN todo' /\ todo'[k - 1] = todo[k]
      BY <1>4, <3>3
    <3>5. \E j \in DOMAIN todo' : todo'[j].does = "throw"
      BY <3>1, <3>4
    <3> QED
      BY <3>5 DEF TaskGets, Throws
  <2>2. CASE \A p \in DOMAIN Wants(recipe[at]) : Gets(todo, p, Wants(recipe[at])[p])
    <3>1. DOMAIN Wants(recipe[at]) \subseteq Paths
      BY RecipeFacts DEF HostInv, RunType, Inner
    <3>2. \A p \in DOMAIN Wants(recipe[at]) : \A S :
            S = Wants(recipe[at])[p] => Gets(todo, p, S)'
      BY <1>3, <2>2, <3>1
    <3>3. Task' = recipe[at]
      BY <1>1 DEF Task
    <3>4. \A p \in DOMAIN Wants(Task') : \A S : S = Wants(Task')[p] => Gets(todo, p, S)'
      BY <3>2, <3>3
    <3> QED
      BY <3>4 DEF TaskGets
  <2> QED
    BY <1>1, <2>1, <2>2 DEF HostInv, TaskGets, Task
<1>9. TasksSettled'
  <2>1. ASSUME NEW i \in DOMAIN recipe, i <= at - 1, NEW p \in DOMAIN Wants(recipe[i])
        PROVE  \/ tree'[p] \in Wants(recipe[i])[p]
               \/ \E j \in DOMAIN recipe : i < j /\ j <= at - 1 /\ p \in DOMAIN Wants(recipe[j])
               \/ p \in DOMAIN Wants(recipe[at])
    <3>1. \/ tree[p] \in Wants(recipe[i])[p]
          \/ \E j \in DOMAIN recipe : i < j /\ j <= at - 1 /\ p \in DOMAIN Wants(recipe[j])
          \/ p \in DOMAIN Wants(recipe[at])
      BY <1>1, <2>1 DEF HostInv, TasksSettled, Settled, Done, Task
    <3>2. p \in Inner
      BY <2>1, RecipeFacts
    <3>3. p \in Touches(o) => p \in DOMAIN Wants(recipe[at])
      BY <1>1, <1>4, <3>2 DEF HostInv, OwnOnly, Task, Inner
    <3> QED
      BY <1>3, <3>1, <3>2, <3>3 DEF Inner
  <2> QED
    BY <1>1, <2>1 DEF TasksSettled, Settled, Done, Task
<1> QED
  BY <1>3, <1>5, <1>6, <1>7, <1>8, <1>9 DEF HostInv

LEMMA FinishKeeps == ASSUME HostInv, Finish PROVE HostInv'
<1>1. /\ status = "running" /\ todo = <<>> /\ todo' = todo /\ recipe' = recipe
      /\ \/ at = Len(recipe) /\ status' = "ok" /\ tree' = AtExit(tree) /\ at' = at
         \/ at # Len(recipe) /\ status' = "task" /\ tree' = tree /\ at' = at + 1
  BY DEF Finish
<1>2. /\ Host' /\ OpList(todo)' /\ OpensFirst(todo)' /\ TestsKnown(todo)'
      /\ OwnOnly' /\ CacheKept' /\ TaskGets' /\ \A p \in Inner : tree'[p] = tree[p]
  BY <1>1, AtRest
<1>3. at \in DOMAIN recipe /\ at \in 1 .. Len(recipe) /\ Len(recipe) \in Nat /\ DOMAIN recipe = 1 .. Len(recipe)
  BY RecipeFacts DEF HostInv, RunType
<1>4. RunType'
  BY <1>1, <1>3 DEF HostInv, RunType
<1>5. Done' = at
  BY <1>1, <1>3 DEF Done
<1>6. \A p \in DOMAIN Wants(recipe[at]) : tree[p] \in Wants(recipe[at])[p]
  BY <1>1, NoOperations DEF HostInv, TaskGets, Task, Gets, Will
<1>7. ASSUME NEW i \in DOMAIN recipe, i <= at, NEW p \in DOMAIN Wants(recipe[i])
      PROVE  \/ tree'[p] \in Wants(recipe[i])[p]
             \/ \E j \in DOMAIN recipe : i < j /\ j <= at /\ p \in DOMAIN Wants(recipe[j])
  <2>1. p \in Inner
    BY <1>7, RecipeFacts
  <2>2. CASE i = at
    BY <1>2, <1>6, <2>1, <2>2
  <2>3. CASE i # at
    <3>1. i <= at - 1 /\ i < at
      BY <1>3, <1>7, <2>3
    <3>2. \/ tree[p] \in Wants(recipe[i])[p]
          \/ \E j \in DOMAIN recipe : i < j /\ j <= at - 1 /\ p \in DOMAIN Wants(recipe[j])
          \/ p \in DOMAIN Wants(recipe[at])
      BY <1>1, <3>1 DEF HostInv, TasksSettled, Settled, Done, Task
    <3>3. \A j \in DOMAIN recipe : j <= at - 1 => j <= at
      BY <1>3
    <3>4. at <= at
      BY <1>3
    <3> QED
      BY <1>2, <1>3, <2>1, <3>1, <3>2, <3>3, <3>4
  <2> QED
    BY <2>2, <2>3
<1>8. TasksSettled'
  BY <1>1, <1>5, <1>7 DEF TasksSettled, Settled
<1> QED
  BY <1>2, <1>4, <1>8 DEF HostInv

LEMMA FilesNext == ASSUME HostInv, [Next]_vars PROVE HostInv'
<1>2. CASE Run
  <2>1. /\ status' = "task" /\ at' = 1 /\ todo' = <<>> /\ tree' = tree /\ recipe' = recipe
    BY <1>2 DEF Run
  <2>2. RunType'
    BY <2>1, RecipeFacts DEF HostInv, RunType
  <2>3. TasksSettled'
    BY <2>1, RecipeFacts DEF TasksSettled, Done
  <2> QED
    BY <2>1, <2>2, <2>3, AtRest DEF HostInv
<1>3. CASE Begin
  BY <1>3, BeginKeeps
<1>4. CASE Perform
  BY <1>4, PerformKeeps
<1>5. CASE Finish
  BY <1>5, FinishKeeps
<1>6. CASE Refuse \/ Fail \/ Hang \/ Crash
  <2>1. /\ status' \in {"failed", "hung", "dead"} /\ at' = at /\ todo' = <<>> /\ recipe' = recipe
        /\ tree' = tree \/ tree' = AtExit(tree)
    BY <1>6 DEF Refuse, Fail, Hang, Crash, Stop
  <2>2. RunType' /\ TasksSettled'
    BY <2>1 DEF HostInv, RunType, TasksSettled
  <2> QED
    BY <2>1, <2>2, AtRest DEF HostInv
<1>7. CASE UNCHANGED vars
  <2>1. /\ tree' = tree /\ recipe' = recipe /\ at' = at /\ todo' = todo /\ status' = status
    BY <1>7 DEF vars
  <2> QED
    BY <2>1 DEF HostInv, Host, Rooted, RunType, OpList, OpensFirst, TestsKnown, Opened, Written,
                OwnOnly, CacheKept, TaskGets, TasksSettled, Settled, Done, Task, Throws, Gets, Will, Spares
<1> QED
  BY <1>2, <1>3, <1>4, <1>5, <1>6, <1>7 DEF Next

LEMMA FilesSettled == ASSUME HostInv PROVE RepairedBySuccess
<1> SUFFICES ASSUME status = "ok", NEW p \in DOMAIN Wanted PROVE tree[p] \in Wanted[p]
  BY DEF RepairedBySuccess
<1> DEFINE fs == [i \in DOMAIN recipe |-> Wants(recipe[i])]
           T == {i \in DOMAIN recipe : p \in DOMAIN Wants(recipe[i])}
<1>1. p \in UNION {DOMAIN fs[i] : i \in DOMAIN fs} /\ Wanted[p] = fs[Max({i \in DOMAIN fs : p \in DOMAIN fs[i]})][p]
  BY DEF Wanted, Latest
<1>2. T # {} /\ T = {i \in DOMAIN fs : p \in DOMAIN fs[i]}
  BY <1>1
<1>3. Len(recipe) \in Nat /\ DOMAIN recipe = 1 .. Len(recipe) /\ T \subseteq 1 .. Len(recipe)
  BY RecipeFacts
<1> DEFINE m == Max(T)
<1>4. m \in T /\ \A k \in T : k <= m
  BY <1>2, <1>3, MaxFacts
<1>5. Wanted[p] = Wants(recipe[m])[p]
  BY <1>1, <1>2, <1>4
<1> HIDE DEF m
<1>6. m \in DOMAIN recipe /\ m <= Done /\ p \in DOMAIN Wants(recipe[m])
  BY <1>3, <1>4 DEF HostInv, RunType, Done
<1>7. Settled(m, p)
  BY <1>6 DEF HostInv, TasksSettled
<1>8. \A j \in DOMAIN recipe : p \in DOMAIN Wants(recipe[j]) => ~ (m < j)
  BY <1>3, <1>4
<1> QED
  BY <1>5, <1>7, <1>8 DEF Settled

(* A run that ends well leaves every path as the last task about it says,   *)
(* for every recipe and host, whatever earlier runs left half done.         *)
THEOREM FilesRepaired == Spec => []RepairedBySuccess
<1>1. Init => HostInv
  BY FilesInit
<1>2. HostInv /\ [Next]_vars => HostInv'
  BY FilesNext
<1>3. HostInv => RepairedBySuccess
  BY FilesSettled
<1> QED
  BY <1>1, <1>2, <1>3, PTL DEF Spec
=============================================================================
