------------------------------ MODULE FileTasks ------------------------------
(* The modules of kiwi that work on the files of a host: write, copy, rm,   *)
(* rmGlob, mkdir, stat, temp and download, and the two programs that are    *)
(* kept in a cache, Node.js and ESBuild.  A recipe is run again and again,  *)
(* after runs that failed, hung or were killed half way.                    *)
(*                                                                          *)
(* A path is a sequence of names, and `tree' says what is at each.  What a  *)
(* module does between two awaits is an operation `todo' holds: the answer  *)
(* of the operating system is in Perform, what may go wrong in Fail, Hang   *)
(* and Crash.  One recipe runs at a time.                                   *)
EXTENDS Integers, SequencesExt

CONSTANTS
  Paths,       \* the paths of the host that recipes and caches name
  Assets,      \* what the files of the recipe's assets hold, by their name
  Rendered,    \* what a template renders to, by what the file holds
  Zipped,      \* the entries of an archive that is downloaded, in order
  Recipes,     \* the recipes: sequences of tasks
  Trees,       \* what the host may look like before the first run
  Faults,      \* which of "refused", "cut", "full", "crash" may happen
  MaxFaults,   \* bound: how many faults happen
  MaxRuns      \* bound: how often the recipe is run

Absent == "absent"
Dir == "dir"
Torn == "torn"         \* a file that is empty or ends too early
Tmp == <<"tmp">>       \* the temporary file of a download
Temp == <<"temp">>     \* what the module temp creates
All == {"*"}           \* every file is a template

IsList(l) == l \in Seq(ToSet(l))
Above(p) == {SubSeq(p, 1, n) : n \in 1 .. Len(p) - 1}
Below(p) == {q \in Paths : p \in Above(q)}

ASSUME PathsAssumption ==
  /\ IsFiniteSet(Paths)
  /\ Tmp \in Paths /\ Temp \in Paths /\ Below(Tmp) = {} /\ Below(Temp) = {}
  /\ \A p \in Paths : IsList(p) /\ p # <<>> /\ Above(p) \subseteq Paths

VARIABLES
  tree,      \* what is at each path
  recipe,    \* the recipe
  at,        \* the task at hand, a position in the recipe
  todo,      \* the operations its module has still to do
  status,    \* of the run: "idle", "task", "running", "ok", "failed", "hung" or "dead"
  faults,    \* history: how many faults happened, in all and in this run
  runs       \* history: how often the recipe was run

vars == <<tree, recipe, at, todo, status, faults, runs>>

Whole(v) == v \notin {Absent, Dir, Torn}
Task == recipe[at]

(* An operation: what is done, where, and with what.                        *)
Op(does, path, what) == [does |-> does, path |-> path, what |-> what]
Create(p, v) == <<Op("open", p, v), Op("fill", p, v)>>
Throw == <<Op("throw", Tmp, Absent)>>

-----------------------------------------------------------------------------
(* The modules, as what they do to a host they find in this state.          *)

(* Mutant of WriteSkips: a file that is there is left as it is.             *)
WriteSkipsExisting(t) == tree[t.path] # Absent

(* The file is read first, and left alone if it holds what is to be written.*)
WriteSkips(t) == tree[t.path] = t.content

Write(t) ==
  IF tree[t.path] = Dir THEN Throw ELSE IF WriteSkips(t) THEN <<>> ELSE Create(t.path, t.content)

CopyTo(t) == IF t.slash THEN t.to \o <<Last(t.from)>> ELSE t.to

Filled(t, f) ==
  IF t.template = All \/ f \in t.template THEN Rendered[Assets[f]] ELSE Assets[f]

Place(t, f, p) ==
  IF Len(p) > 1 THEN <<Op("mkdirp", Front(p), Dir)>> \o Create(p, Filled(t, f))
  ELSE Create(p, Filled(t, f))

Copy(t) == Place(t, t.from, CopyTo(t))

(* With a pattern the files keep their place below the directory.           *)
CopyGlob(t) == FlattenSeq([i \in DOMAIN t.files |-> Place(t, t.files[i], t.to \o t.files[i])])

Rm(t) ==
  [i \in DOMAIN t.paths |->
     Op(IF t.force THEN "rmf" ELSE "rm", t.paths[i], IF t.recursive THEN Dir ELSE Absent)]

(* Patterns match files only, whatever `recursive' says.                    *)
Matched(t) == SetToSeq({q \in Below(t.under) : tree[q] \notin {Absent, Dir}})
RmGlob(t) == [i \in DOMAIN Matched(t) |-> Op("rmf", Matched(t)[i], Absent)]

Mkdir(t) == <<Op(IF t.recursive THEN "mkdirp" ELSE "mkdir", t.path, Dir)>>

Stat(t) == IF t.throw /\ tree[t.path] = Absent THEN Throw ELSE <<>>

MakeTemp == <<Op("open", Temp, Torn)>>

(* The file is opened before what goes into it is asked for; the module     *)
(* download opens it afterwards.                                            *)
DownloadFile(p, v) == <<Op("open", p, v), Op("request", p, v), Op("receive", p, v)>>
Fetch(p, v) == <<Op("request", p, v), Op("open", p, v), Op("receive", p, v)>>
MakeTmp == <<Op("open", Tmp, "zip")>>

Entry(kind, p, v) ==
  IF v = Dir THEN <<Op(IF kind = "zip" THEN "mkdir" ELSE "mkdirp", p, Dir)>> ELSE Create(p, v)
Unpack(kind, dest) ==
  FlattenSeq([i \in DOMAIN Zipped |-> Entry(kind, dest \o Zipped[i].path, Zipped[i].holds)])

Download(t) ==
  IF t.extract = "none" THEN IF tree[t.dest] = Dir THEN Throw ELSE Fetch(t.dest, t.content)
  ELSE IF tree[t.dest] \notin {Absent, Dir} THEN Throw
       ELSE <<Op("mkdirp", t.dest, Dir)>> \o MakeTmp \o Fetch(Tmp, "zip")
              \o Unpack(t.extract, t.dest) \o <<Op("rmf", Tmp, Absent)>>

(* A Node.js that is in the cache is taken as it is, and fails only where a *)
(* bundle is made of it ("test").                                           *)
NodeDist(t) ==
  <<Op("mkdirp", Front(t.path), Dir)>>
  \o (IF tree[t.path] # Absent THEN <<>> ELSE DownloadFile(t.path, t.content))
  \o <<Op("test", t.path, t.content)>>

(* Mutant of Trusted: an ESBuild that is there is not tried first.          *)
TrustedExisting(t) == tree[t.path] # Absent

(* An ESBuild that is there is used if it tells its version.                *)
Trusted(t) == tree[t.path] = t.content

ESBuild(t) ==
  <<Op("mkdirp", Front(t.path), Dir)>>
  \o (IF Trusted(t) THEN <<>>
      ELSE MakeTmp \o DownloadFile(Tmp, "zip") \o Create(t.path, t.content))
  \o <<Op("test", t.path, t.content)>>

Operations(t) ==
  CASE t.module = "write"    -> Write(t)
    [] t.module = "copy"     -> Copy(t)
    [] t.module = "copyGlob" -> CopyGlob(t)
    [] t.module = "rm"       -> Rm(t)
    [] t.module = "rmGlob"   -> RmGlob(t)
    [] t.module = "mkdir"    -> Mkdir(t)
    [] t.module = "stat"     -> Stat(t)
    [] t.module = "temp"     -> MakeTemp
    [] t.module = "download" -> Download(t)
    [] t.module = "node"     -> NodeDist(t)
    [] t.module = "esbuild"  -> ESBuild(t)

-----------------------------------------------------------------------------
(* Recipes that can be: their tasks name paths of the host, none of them a  *)
(* temporary file, and a file in the cache of Node.js is put there by the   *)
(* tasks that want it only: its name is of its version (downloadNodeDist).  *)

(* The files a task puts somewhere: what, and where.                        *)
Puts(t) ==
  CASE t.module = "copy"     -> {<<CopyTo(t), Filled(t, t.from)>>}
    [] t.module = "copyGlob" -> {<<t.to \o t.files[i], Filled(t, t.files[i])>> : i \in DOMAIN t.files}
    [] t.module = "download" ->
         IF t.extract = "none" THEN {<<t.dest, t.content>>}
         ELSE {<<t.dest \o Zipped[i].path, Zipped[i].holds>> : i \in DOMAIN Zipped}
    [] t.module \in {"write", "node", "esbuild"} -> {<<t.path, t.content>>}
    [] OTHER -> {}

Lists(t) ==
  CASE t.module = "copyGlob" -> IsList(t.files)
    [] t.module = "rm"       -> IsList(t.paths)
    [] OTHER                 -> TRUE
Concerns(t) ==
  CASE t.module = "rm"       -> ToSet(t.paths)
    [] t.module = "mkdir"    -> {t.path}
    [] t.module = "download" -> {t.dest} \cup {f[1] : f \in Puts(t)}
    [] OTHER                 -> {f[1] : f \in Puts(t)}

CanBe(t) ==
  /\ t.module \in {"write", "copy", "copyGlob", "rm", "rmGlob", "mkdir", "stat", "temp",
                   "download", "node", "esbuild"}
  /\ Lists(t) /\ Concerns(t) \subseteq Paths \ {Tmp, Temp}
  /\ t.module \in {"write", "node", "esbuild"} => Whole(t.content)
  /\ t.module \in {"node", "esbuild"} => Len(t.path) > 1

Rooted(host) == \A q \in Paths : host[q] # Absent => \A p \in Above(q) : host[p] = Dir
Kept(t, host) == t.module = "node" => host[t.path] \in {Absent, Dir, Torn, t.content}

ASSUME RecipesAssumption ==
  /\ IsList(Zipped)
  /\ \A r \in Recipes :
       /\ IsList(r) /\ r # <<>> /\ \A i \in DOMAIN r : CanBe(r[i])
       /\ \A i, k \in DOMAIN r : \A f \in Puts(r[k]) :
            r[i].module = "node" /\ f[1] = r[i].path => f[2] = r[i].content
  /\ \A host \in Trees :
       /\ host = [p \in Paths |-> host[p]] /\ Rooted(host)
       /\ \A r \in Recipes : \A i \in DOMAIN r : Kept(r[i], host)

-----------------------------------------------------------------------------
(* The operating system and the server a file is downloaded from.           *)

Possible(o) ==
  CASE o.does = "mkdirp" -> \A q \in Above(o.path) \cup {o.path} : tree[q] \in {Absent, Dir}
    [] o.does = "mkdir"  -> tree[o.path] = Absent /\ \A q \in Above(o.path) : tree[q] = Dir
    [] o.does = "open"   -> tree[o.path] # Dir /\ \A q \in Above(o.path) : tree[q] = Dir
    [] o.does = "rm"     -> tree[o.path] # Absent /\ (tree[o.path] = Dir => o.what = Dir)
    [] o.does = "rmf"    -> tree[o.path] = Dir => o.what = Dir
    [] o.does = "test"   -> Whole(tree[o.path])
    [] o.does = "throw"  -> FALSE
    [] OTHER             -> TRUE

After(o) ==
  CASE o.does \in {"mkdirp", "mkdir"} ->
         [q \in Paths |-> IF q = o.path \/ q \in Above(o.path) THEN Dir ELSE tree[q]]
    [] o.does = "open" -> [tree EXCEPT ![o.path] = Torn]
    [] o.does \in {"fill", "receive"} -> [tree EXCEPT ![o.path] = o.what]
    [] o.does \in {"rm", "rmf"} ->
         [q \in Paths |-> IF q = o.path \/ q \in Below(o.path) THEN Absent ELSE tree[q]]
    [] OTHER -> tree

(* Temporary files are removed when the process ends by itself.             *)
AtExit(t) == [t EXCEPT ![Tmp] = Absent, ![Temp] = Absent]

-----------------------------------------------------------------------------
Init ==
  /\ tree \in Trees /\ recipe \in Recipes
  /\ at = 1 /\ todo = <<>> /\ status = "idle"
  /\ faults = [all |-> 0, now |-> 0] /\ runs = 0

Run ==
  /\ status \notin {"task", "running"} /\ runs < MaxRuns
  /\ status' = "task" /\ at' = 1 /\ todo' = <<>>
  /\ faults' = [faults EXCEPT !.now = 0] /\ runs' = runs + 1
  /\ UNCHANGED <<tree, recipe>>

Begin ==
  /\ status = "task"
  /\ todo' = Operations(Task)
  /\ status' = "running"
  /\ UNCHANGED <<tree, recipe, at, faults, runs>>

Perform ==
  /\ status = "running" /\ todo # <<>> /\ Possible(Head(todo))
  /\ tree' = After(Head(todo)) /\ todo' = Tail(todo)
  /\ UNCHANGED <<recipe, at, status, faults, runs>>

Stop(s, t) ==
  /\ status' = s /\ tree' = t /\ todo' = <<>>
  /\ UNCHANGED <<recipe, at, runs>>

Refuse ==
  /\ status = "running" /\ todo # <<>> /\ ~Possible(Head(todo))
  /\ Stop("failed", AtExit(tree))
  /\ UNCHANGED faults

Finish ==
  /\ status = "running" /\ todo = <<>>
  /\ IF at = Len(recipe) THEN status' = "ok" /\ tree' = AtExit(tree) /\ at' = at
     ELSE status' = "task" /\ tree' = tree /\ at' = at + 1
  /\ UNCHANGED <<recipe, todo, faults, runs>>

May(f) ==
  /\ f \in Faults /\ faults.all < MaxFaults
  /\ faults' = [all |-> faults.all + 1, now |-> faults.now + 1]

(* The request fails, or the disk is full while a file is written.          *)
Fail ==
  /\ status = "running" /\ todo # <<>>
  /\ \/ Head(todo).does = "request" /\ May("refused")
     \/ Head(todo).does \in {"fill", "receive"} /\ May("full")
  /\ Stop("failed", AtExit(tree))

(* The connection breaks while a file is received: `pipe' does not close    *)
(* the file, and what follows `finished' never runs.  The program waits for *)
(* as long as something else keeps it alive, and otherwise ends by itself.  *)
Hang ==
  /\ status = "running" /\ todo # <<>> /\ Head(todo).does = "receive"
  /\ May("cut")
  /\ \E t \in {tree, AtExit(tree)} : Stop("hung", t)

Crash ==
  /\ status \in {"task", "running"} /\ May("crash")
  /\ Stop("dead", tree)

Next == Run \/ Begin \/ Perform \/ Refuse \/ Finish \/ Fail \/ Hang \/ Crash

Spec == Init /\ [][Next]_vars

-----------------------------------------------------------------------------
(* What the tasks of a recipe are for, by their descriptions: the values a  *)
(* path may have after the last task that is about it.                      *)
Placed(p, v) == [q \in Above(p) \cup {p} |-> IF q = p THEN {v} ELSE {Dir}]
Over(f, g) == [q \in DOMAIN f \cup DOMAIN g |-> IF q \in DOMAIN f THEN f[q] ELSE g[q]]
Latest(fs) ==
  [q \in UNION {DOMAIN fs[i] : i \in DOMAIN fs} |-> fs[Max({i \in DOMAIN fs : q \in DOMAIN fs[i]})][q]]

Wants(t) ==
  CASE t.module = "write"    -> Placed(t.path, t.content)
    [] t.module = "copy"     -> Placed(CopyTo(t), Filled(t, t.from))
    [] t.module = "copyGlob" ->
         Latest([i \in DOMAIN t.files |-> Placed(t.to \o t.files[i], Filled(t, t.files[i]))])
    [] t.module = "rm"       ->
         [q \in UNION {Below(p) \cup {p} : p \in ToSet(t.paths)} |-> {Absent}]
    [] t.module = "rmGlob"   -> [q \in Below(t.under) |-> {Absent, Dir}]
    [] t.module = "mkdir"    -> Placed(t.path, Dir)
    [] t.module \in {"stat", "temp"} -> <<>>
    [] t.module = "download" ->
         IF t.extract = "none" THEN Placed(t.dest, t.content)
         ELSE Over(Latest([i \in DOMAIN Zipped |->
                             Placed(t.dest \o Zipped[i].path, Zipped[i].holds)]),
                   Placed(t.dest, Dir))
    [] t.module \in {"node", "esbuild"} -> Placed(t.path, t.content)

Wanted == Latest([i \in DOMAIN recipe |-> Wants(recipe[i])])

(* A run that ends well leaves the host as its recipe describes it, also    *)
(* after runs that left half a file behind (write reads what is there and   *)
(* compares, ESBuild is tried before it is used).                           *)
RepairedBySuccess ==
  status = "ok" => \A p \in DOMAIN Wanted : tree[p] \in Wanted[p]

(* Tasks that do not fail because of what an earlier run of them did: not   *)
(* so the extraction of a zip with directories, rm without force, a mkdir   *)
(* that is not recursive, and a Node.js whose download failed; nor is a     *)
(* file copied into a directory that is named without a slash.              *)
Repeatable(t) ==
  CASE t.module = "rm"       -> t.force
    [] t.module = "copy"     -> t.slash \/ tree[t.to] # Dir
    [] t.module = "mkdir"    -> t.recursive
    [] t.module = "download" -> t.extract # "zip"
    [] t.module = "node"     -> FALSE
    [] OTHER                 -> TRUE

(* A recipe of such tasks is repaired by running it again: if nothing goes  *)
(* wrong from outside, the next run ends well, whatever earlier ones left.  *)
RetryWorks ==
  status = "failed" /\ faults.now = 0 => \E i \in DOMAIN recipe : ~Repeatable(recipe[i])
=============================================================================
