----------------------------- MODULE ArchiveBuild -----------------------------
(***************************************************************************)
(* From recipe files to the recipes that run on a host: an archive is made *)
(* of root recipes and everything they depend on (Archive.create), a host  *)
(* gets its roots and their dependencies (#getRecipeDependenciesChain), its*)
(* agent instantiates and runs them (getInstantiatedRootRecipes, the module*)
(* `recipe').                                                              *)
(***************************************************************************)
EXTENDS RecipeSources, FiniteSets

CONSTANTS
  Projects,  \* what an archive may be made of
  Packed,    \* the directories with assets
  MaxDepth   \* the depth at which a chain of dependencies has used up the memory

ASSUME DepthAssumption == MaxDepth \in Nat \ {0}

(* A recipe file is one a directory holds.                                 *)
Files == UNION {{<<d, id>> : id \in Held[d]} : d \in DOMAIN Held}

(* The sources configured for a project, on the command line or by recipes.*)
Configured(p) == ToSet(p.cli) \cup UNION {ToSet(p.own[f]) : f \in Files}

IsList(s) == s \in Seq(ToSet(s))

(* The paths of a project lead to directories, if to empty ones; dependen- *)
(* cies are keyed by id; only directories may be relative to a recipe.     *)
ASSUME ProjectsAssumption ==
  \A p \in Projects :
    /\ p.args \in Seq(Files)
    /\ IsList(p.cli) /\ DOMAIN p.own = Files /\ \A f \in Files : IsList(p.own[f])
    /\ \A s \in Configured(p) :
         /\ DOMAIN s = DOMAIN NoSource /\ {s.git, s.cached, s.trusted} \subseteq BOOLEAN
         /\ s.git => s.base # None
         /\ \A d \in DOMAIN Held : <<Based(s, d).base, s.path>> \in DOMAIN Place
    /\ \A s \in ToSet(p.cli) : s.base # None /\ <<s.base, s.path>> \in DOMAIN Place
    /\ DOMAIN p.deps = Files /\ \A f \in Files : IsList(p.deps[f])
    /\ \A f \in Files : \A i, j \in DOMAIN p.deps[f] :
         p.deps[f][i].id = p.deps[f][j].id => i = j

ASSUME PlaceAssumption ==
  /\ Place \in [DOMAIN Place -> DOMAIN Held]
  /\ \A d \in DOMAIN Held : <<d, ".">> \in DOMAIN Place

VARIABLES
  project,  \* the recipes named on the command line, their sources and dependencies
  stage,    \* how far the archive is on its way
  loaded,   \* the root recipes loaded
  clones,   \* the git checkouts that are cached
  stack,    \* the recipes being archived, each a dependency of the one before it
  assets,   \* the assets archives written, in order: the directory each is made of
  archive,  \* the archive
  met,      \* the directories each unique id has stood for
  sent,     \* what the host gets of it
  chain,    \* the recipes whose dependencies are being collected for the host
  ran       \* which recipe each recipe ran for a dependency of its own

vars == <<project, stage, loaded, clones, stack, assets, archive, met, sent, chain, ran>>

Final == {"failed", "exhausted", "running", "refused"}
Stages == Final \cup {"loading", "building", "created", "collecting", "sent"}

(* roots: by file; dep: by unique id of a source and id of a recipe; order:*)
(* the unique ids, as they became keys.                                    *)
NoArchive == [roots |-> <<>>, dep |-> <<>>, order |-> <<>>]

Init ==
  /\ project \in Projects
  /\ stage = "loading"
  /\ loaded = {} /\ clones = <<>>
  /\ stack = <<>> /\ assets = <<>>
  /\ archive = NoArchive /\ met = {} /\ sent = NoArchive
  /\ chain = <<>> /\ ran = {}

-----------------------------------------------------------------------------
(* Creation.                                                               *)

Last1(s) == s[Len(s)]
Deps(file) == project.deps[file]

(* A recipe file, found in source `via', with the sources it sees.         *)
Recipe(file, via, context) ==
  [file |-> file, via |-> via,
   list |-> Combined(file[1], project.own[file], file \in project.ignore, context)]

(* Recipe.fromPath, for all roots at once.                                 *)
LoadRoot(i) ==
  /\ stage = "loading" /\ i \in DOMAIN project.args \ loaded
  /\ \E root \in {Recipe(project.args[i], NoSource, project.cli)} :
     \E v \in {ValidateDependencies(root.list, Deps(root.file), clones)} :
       /\ clones' = v.clones
       /\ stage' = IF v.ok THEN "loading" ELSE "failed"
  /\ loaded' = loaded \cup {i}
  /\ UNCHANGED <<project, stack, assets, archive, met, sent, chain, ran>>

BeginBuild ==
  /\ stage = "loading" /\ loaded = DOMAIN project.args
  /\ stage' = "building"
  /\ UNCHANGED <<project, loaded, clones, stack, assets, archive, met, sent, chain, ran>>

IndexOf(s, x) == IF x \in ToSet(s) THEN CHOOSE i \in DOMAIN s : s[i] = x ELSE 0

(* Mutant of Pack: once assets were archived, nothing is.                  *)
PackFirst(dir) ==
  /\ assets' = IF dir \in Packed /\ assets = <<>> THEN <<dir>> ELSE assets
  /\ UNCHANGED <<project, loaded, sent, chain, ran>>

(* The assets of a directory are archived once.                            *)
Pack(dir) ==
  /\ assets' = IF dir \in Packed \ ToSet(assets) THEN Append(assets, dir) ELSE assets
  /\ UNCHANGED <<project, loaded, sent, chain, ran>>

(* generateRecipeForArchiveEntry up to the recipe's dependencies.          *)
Frame(recipe, trusted, context, path) ==
  [recipe |-> recipe, next |-> 1, trusted |-> trusted, context |-> context, path |-> path,
   uids |-> <<>>, found |-> <<>>,
   assets |-> IF recipe.file[1] \in Packed THEN IndexOf(assets', recipe.file[1]) ELSE 0]

BeginRoot ==
  /\ stage = "building" /\ stack = <<>>
  /\ Cardinality(DOMAIN archive.roots) < Len(project.args)
  /\ LET file == project.args[Cardinality(DOMAIN archive.roots) + 1] IN
       /\ Pack(file[1])
       /\ stack' = <<Frame(Recipe(file, NoSource, project.cli), TRUE, project.cli, <<>>)>>
  /\ UNCHANGED <<stage, clones, archive, met>>

Top == Last1(stack)
Pending == stage = "building" /\ stack # <<>> /\ Top.next <= Len(Deps(Top.recipe.file))
Wanted == Deps(Top.recipe.file)[Top.next]
Visible == MergePrepend(Top.recipe.list, Top.context)

Fail(how) ==
  /\ stage' = how
  /\ UNCHANGED <<project, loaded, clones, stack, assets, archive, met, sent, chain, ran>>

(* Mutant of Trusts: trust is decided by the last source alone.            *)
TrustsLast(frame, via) == via.trusted

(* A source is trusted by a recipe that is not trusted itself to no avail. *)
Trusts(frame, via) == frame.trusted /\ via.trusted

(* Mutant of Recorded: the first source the caller sees.                   *)
RecordedFirst(id, via) == UniqueId(Visible[1])

(* What the caller's entry will say of a dependency.                       *)
Recorded(id, via) == UniqueId(via)

(* The next dependency is loaded and, in turn, archived.                   *)
Descend(child, visible, declared) ==
  LET id == Wanted.id
      caller == [Top EXCEPT !.next = @ + 1,
                            !.uids = With(@, id, Recorded(id, child.via)),
                            !.found = With(@, id, child.file)]
  IN /\ Pack(child.file[1])
     /\ stack' = Append(Front(stack) \o <<caller>>,
                        Frame(child, Trusts(Top, child.via), visible, Append(Top.path, declared)))
     /\ met' = met \cup {<<UniqueId(child.via), DirectoryOf(child.via)>>}
     /\ UNCHANGED <<stage, archive>>

(* The trust that the source a dependency is found in was given.           *)
Declared(visible, d) == Candidates(visible, d.from)[Stop(visible, d.id, d.from, clones)].trusted

Depend ==
  /\ Pending /\ Len(stack) < MaxDepth
  /\ \E visible \in {Visible} : \E f \in {Search(visible, Wanted.id, Wanted.from, clones)} :
       IF f.via = NoSource THEN Fail("failed")
       ELSE \E child \in {Recipe(<<DirectoryOf(f.via), Wanted.id>>, f.via, Propagated(visible))} :
            \E v \in {ValidateDependencies(child.list, Deps(child.file), f.clones)} :
              IF ~v.ok THEN Fail("failed")
              ELSE clones' = v.clones /\ Descend(child, visible, Declared(visible, Wanted))

(* Nothing stops recipes that depend on each other.                        *)
Exhaust == Pending /\ Len(stack) = MaxDepth /\ Fail("exhausted")

Entry(frame) ==
  [file |-> frame.recipe.file, vars |-> frame.trusted, path |-> frame.path,
   uids |-> frame.uids, found |-> frame.found, assets |-> frame.assets]

(* An entry of the same source and id is replaced: the check for duplicates*)
(* looks for the id among the sources.                                     *)
StoreDependency(frame) ==
  LET key == <<UniqueId(frame.recipe.via), frame.recipe.file[2]>> IN
  archive' = [archive EXCEPT
    !.dep = With(@, key, Entry(frame)),
    !.order = IF key[1] \in ToSet(@) THEN @ ELSE Append(@, key[1])]

(* A recipe enters the archive after everything it depends on.             *)
Store ==
  /\ stage = "building" /\ stack # <<>> /\ ~Pending
  /\ IF Top.recipe.via # NoSource
     THEN StoreDependency(Top) /\ UNCHANGED stage
     ELSE IF Top.recipe.file \in DOMAIN archive.roots
          THEN stage' = "failed" /\ UNCHANGED archive
          ELSE /\ archive' = [archive EXCEPT !.roots = With(@, Top.recipe.file, Entry(Top))]
               /\ UNCHANGED stage
  /\ stack' = Front(stack)
  /\ UNCHANGED <<project, loaded, clones, assets, met, sent, chain, ran>>

Write ==
  /\ stage = "building" /\ stack = <<>>
  /\ Cardinality(DOMAIN archive.roots) = Len(project.args)
  /\ stage' = "created"
  /\ UNCHANGED <<project, loaded, clones, stack, assets, archive, met, sent, chain, ran>>

-----------------------------------------------------------------------------
(* The provider.                                                           *)

(* The roots that target the host.                                         *)
Target(files) ==
  /\ stage = "created"
  /\ files # {}
  /\ sent' = [NoArchive EXCEPT !.roots = [f \in files |-> archive.roots[f]]]
  /\ chain' = LET own == Only(Reverse(project.args), files)
              IN [i \in DOMAIN own |-> [entry |-> archive.roots[own[i]], next |-> 1]]
  /\ stage' = "collecting"
  /\ UNCHANGED <<project, loaded, clones, stack, assets, archive, met, ran>>

Collected(key) == [entry |-> archive.dep[key], next |-> 1]

Behind(link) == link.next > Len(Deps(link.entry.file))

(* One dependency of the recipe at hand and, before the next, its own.     *)
Collect ==
  /\ stage = "collecting" /\ chain # <<>> /\ ~Behind(Last1(chain))
  /\ LET id == Deps(Last1(chain).entry.file)[Last1(chain).next].id
         key == <<Last1(chain).entry.uids[id], id>>
     IN IF key \notin DOMAIN archive.dep
        THEN stage' = "refused" /\ UNCHANGED <<sent, chain>>
        ELSE /\ chain' = Append(Front(chain) \o <<[Last1(chain) EXCEPT !.next = @ + 1]>>,
                                Collected(key))
             /\ sent' = [sent EXCEPT !.dep = With(@, key, archive.dep[key]),
                                     !.order = IF key[1] \in ToSet(@) THEN @ ELSE Append(@, key[1])]
             /\ UNCHANGED stage
  /\ UNCHANGED <<project, loaded, clones, stack, assets, archive, met, ran>>

(* Mutant of Collapse: the first root is not left.                         *)
CollapseInner ==
  /\ stage = "collecting" /\ Len(chain) > 1 /\ Behind(Last1(chain))
  /\ chain' = Front(chain)
  /\ UNCHANGED <<project, stage, loaded, clones, stack, assets, archive, met, sent, ran>>

Collapse ==
  /\ stage = "collecting" /\ chain # <<>> /\ Behind(Last1(chain))
  /\ chain' = Front(chain)
  /\ UNCHANGED <<project, stage, loaded, clones, stack, assets, archive, met, sent, ran>>

Send ==
  /\ stage = "collecting" /\ chain = <<>>
  /\ stage' = "sent"
  /\ UNCHANGED <<project, loaded, clones, stack, assets, archive, met, sent, chain, ran>>

-----------------------------------------------------------------------------
(* The agent.                                                              *)

(* A recipe of the archive is made again: its dependencies, each with the  *)
(* unique id of its source for a name, must be in the archive.             *)
Valid(entry) == \A id \in DOMAIN entry.uids : <<entry.uids[id], id>> \in DOMAIN sent.dep

Instantiate ==
  /\ stage = "sent"
  /\ stage' = IF \A f \in DOMAIN sent.roots : Valid(sent.roots[f]) THEN "running" ELSE "refused"
  /\ UNCHANGED <<project, loaded, clones, stack, assets, archive, met, sent, chain, ran>>

Absent == [file |-> None]

(* A task names a recipe by its id only: the first source that has it.     *)
AtRuntime(id) ==
  LET i == SelectInSeq(sent.order, LAMBDA uid : <<uid, id>> \in DOMAIN sent.dep)
  IN IF i = 0 THEN Absent ELSE sent.dep[<<sent.order[i], id>>]

Running == {sent.roots[f] : f \in DOMAIN sent.roots} \cup ({r.got : r \in ran} \ {Absent})

(* A recipe that runs runs one of its dependencies; tasks may be skipped.  *)
RunDependency(entry, id) ==
  /\ stage = "running" /\ entry \in Running /\ id \in DOMAIN entry.uids
  /\ LET got == IF AtRuntime(id) = Absent THEN Absent
                ELSE IF Valid(AtRuntime(id)) THEN AtRuntime(id) ELSE Absent
     IN /\ [by |-> entry, id |-> id, got |-> got] \notin ran
        /\ ran' = ran \cup {[by |-> entry, id |-> id, got |-> got]}
  /\ UNCHANGED <<project, stage, loaded, clones, stack, assets, archive, met, sent, chain>>

-----------------------------------------------------------------------------
Create == (\E i \in DOMAIN project.args : LoadRoot(i)) \/ BeginBuild
          \/ BeginRoot \/ Depend \/ Exhaust \/ Store \/ Write
Provide == (\E files \in SUBSET DOMAIN archive.roots : Target(files))
           \/ Collect \/ Collapse \/ Send
Agent == Instantiate \/ \E entry \in Running : \E id \in DOMAIN entry.uids : RunDependency(entry, id)

Next == Create \/ Provide \/ Agent

Spec == Init /\ [][Next]_vars

(* The three programs do their next step; nobody waits for anyone.         *)
FairSpec == Spec /\ WF_vars(Next)

-----------------------------------------------------------------------------
Entries(a) == {a.roots[f] : f \in DOMAIN a.roots} \cup {a.dep[k] : k \in DOMAIN a.dep}

(* No unique id stands for two directories.                                *)
SourcesApart == \A p, q \in met : p[1] = q[1] => p = q
(* No two sources of what the host gets have a recipe of the same id.      *)
OneSourceEach == \A k, l \in DOMAIN sent.dep : k[2] = l[2] => k = l
(* No two git sources use the cache for the same repository.               *)
GitSources == {s \in Configured(project) : s.git /\ s.cached}
ClonesApart == \A s, t \in GitSources : Url[s.base] = Url[t.base] => s = t

(* What is archived for a recipe is what it was validated with: the sources*)
(* of its callers, which are appended once more, change nothing            *)
(* (archive.ts:485, recipe.ts:148).                                        *)
FoundAsValidated ==
  ClonesApart =>
    \A i \in DOMAIN stack : \A d \in ToSet(Deps(stack[i].recipe.file)) :
      d.id \in DOMAIN stack[i].found =>
        DirectoryOf(Search(stack[i].recipe.list, d.id, d.from, clones).via) = stack[i].found[d.id][1]

(* What runs on the host for a dependency is what was found for it when    *)
(* the archive was made, as long as ids tell recipes and sources apart.    *)
RunsAsFound ==
  SourcesApart /\ OneSourceEach =>
    \A r \in ran : r.got # Absent => r.got.file = r.by.found[r.id]

(* "If true, will preserve loaded recipe group/host variables"             *)
(* (recipeSourceWrapper.schema.ts:11): they are kept by the recipes that   *)
(* only trusted sources led to.                                            *)
VarsByTrust ==
  ClonesApart =>
    \A e \in Entries(archive) : e.vars <=> \A i \in DOMAIN e.path : e.path[i]

(* A recipe has the assets of its own directory, if there are any, though  *)
(* archives of assets are shared by the recipes of a directory.            *)
AssetsAreOwn ==
  \A e \in Entries(archive) :
    IF e.file[1] \in Packed
    THEN e.assets \in DOMAIN assets /\ assets[e.assets] = e.file[1]
    ELSE e.assets = 0

Ids == UNION {Held[d] : d \in DOMAIN Held}
Acyclic ==
  \E rank \in [Ids -> 1 .. Cardinality(Ids)] :
    \A f \in DOMAIN project.deps : \A d \in ToSet(project.deps[f]) : rank[d.id] < rank[f[2]]

(* Recipes that do not depend on each other in a circle end up on the host *)
(* or are refused, whatever the depth at which they are nested.            *)
EndsUnlessCyclic == Acyclic => <>(stage \in Final \ {"exhausted"})
=============================================================================
