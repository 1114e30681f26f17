------------------------------- MODULE Variables -------------------------------
(***************************************************************************)
(* The variables of an inventory and a recipe. The inventory, its groups,  *)
(* its hosts and a recipe are containers of variables that are filled from *)
(* sources when they are first needed (VarsContainer.loadVars). A provider *)
(* fills them for the configurations it answers with, several at a time,   *)
(* and the agent runs the recipe with what it got; the command line fills  *)
(* them to run the recipe itself.                                          *)
(***************************************************************************)
EXTENDS VarsSources, FiniteSets

CONSTANTS
  Jobs,         \* requests to the provider, or recipes to run
  Inventories,  \* the inventories, each with the recipe that is run
  MaxFaults     \* how many loads may fail

ASSUME FaultsAssumption == MaxFaults \in Nat

Inline(c) == DOMAIN c.hosts
Sourced(c) == UNION {HostNames(s) : s \in ToSet(c.hostSources)}
HostIds(c) == Inline(c) \cup Sourced(c)

(* A host is one of those related to itself, variables are objects, and    *)
(* lists are lists.                                                        *)
IsContainer(c) == IsMap(c.vars) /\ IsList(c.sources)
ASSUME InventoriesAssumption ==
  \A c \in Inventories :
    /\ {"groups", "hostSources", "recipe"} \subseteq DOMAIN c
    /\ {"assets", "groupVars", "hostVars"} \subseteq DOMAIN c.recipe
    /\ IsContainer(c.inventory) /\ IsContainer(c.recipe) /\ IsList(c.recipe.load)
    /\ \A h \in DOMAIN c.hosts : IsContainer(c.hosts[h])
    /\ \A g \in DOMAIN c.groups : IsContainer(c.groups[g])
    /\ IsList(c.order) /\ IsList(c.hostSources)
    /\ \A h \in DOMAIN c.related :
         c.related[h] \in Seq(HostIds(c)) /\ h \in ToSet(c.related[h])

VARIABLES
  conf,     \* the inventory and the recipe, as they are written
  mode,     \* "provider" or "local", "down" when the inventory did not load
  origin,   \* the host source each host is from, 0 for the inventory itself
  held,     \* `#vars' of each container
  cached,   \* the containers with a `#varsCache'
  job,      \* what each job has left to load
  answer,   \* the inventory each request was answered with
  start,    \* the variables each run starts its tasks with
  faults,
  entered   \* the containers that two jobs were filling at once

vars == <<conf, mode, origin, held, cached, job, answer, start, faults, entered>>

-----------------------------------------------------------------------------
(* Containers: <<"host", h>>, <<"group", g>>, <<"inventory", "">> and the  *)
(* recipe; its module `load' has sources as well, which are not cached.    *)

InventoryC == <<"inventory", "">>
RecipeC == <<"recipe", "">>
LoadC == <<"load", "">>
HostC(h) == <<"host", h>>
GroupC(g) == <<"group", g>>

Containers(c) ==
  {InventoryC, RecipeC, LoadC} \cup {HostC(h) : h \in HostIds(c)}
    \cup {GroupC(g) : g \in DOMAIN c.groups}

NoVars == [vars |-> Nothing, sources |-> <<>>]
(* The container as it is written; a host of a source has no entry.        *)
Written(id) ==
  CASE id[1] = "inventory" -> conf.inventory
    [] id[1] = "recipe" -> conf.recipe
    [] id[1] = "load" -> [vars |-> Nothing, sources |-> conf.recipe.load]
    [] id[1] = "group" -> conf.groups[id[2]]
    [] OTHER -> IF origin[id[2]] = 0 THEN conf.hosts[id[2]] ELSE NoVars

(* What a container may hold once all its sources were loaded in order:   *)
(* each variable as the last of them gives it.                             *)
Results(sources) ==
  {c \in [DOMAIN sources -> UNION {SourceVars(s) : s \in ToSet(sources)}] :
     \A i \in DOMAIN sources : c[i] \in SourceVars(sources[i])}

Whole(id) ==
  IF id[1] = "host" /\ origin[id[2]] > 0
  THEN HostVarsLoaded(conf.hostSources[origin[id[2]]], id[2])
  ELSE {Assigned(Written(id).vars, c) : c \in Results(Written(id).sources)}

-----------------------------------------------------------------------------
(* Start: groups are loaded, hosts listed; of two sources that list a host *)
(* the one that answers last has it.                                       *)

NoJob == [kind |-> "none", host |-> "none", plan |-> <<>>, next |-> 0]

Init ==
  /\ conf \in Inventories
  /\ mode = "starting"
  /\ origin \in [HostIds(conf) -> 0 .. Len(conf.hostSources)]
  /\ \A h \in HostIds(conf) :
       IF h \in Sourced(conf) THEN origin[h] > 0 /\ h \in HostNames(conf.hostSources[origin[h]])
       ELSE origin[h] = 0
  /\ held = [id \in Containers(conf) |-> Written(id).vars]
  /\ cached = {}
  /\ job = [j \in Jobs |-> NoJob]
  /\ answer = [j \in Jobs |-> <<>>] /\ start = [j \in Jobs |-> <<>>]
  /\ faults = 0 /\ entered = {}

LoadStubsAndGroups ==
  /\ mode = "starting"
  /\ LET groups == {GroupC(g) : g \in DOMAIN conf.groups}
     IN IF (\E id \in groups : Whole(id) = {}) \/ ~\A s \in ToSet(conf.hostSources) : CanList(s)
        THEN mode' = "down" /\ UNCHANGED <<held, cached>>
        ELSE /\ mode' \in {"provider", "local"}
             /\ \E loaded \in [groups -> UNION {Whole(id) : id \in groups}] :
                  /\ \A id \in groups : loaded[id] \in Whole(id)
                  /\ held' = Over(loaded, held)
             /\ cached' = cached \cup groups
  /\ UNCHANGED <<conf, origin, job, answer, start, faults, entered>>

-----------------------------------------------------------------------------
(* Requests and runs.                                                      *)

GroupsOf(h) == {g \in DOMAIN conf.groups : h \in conf.groups[g].members}
Names(h) == GroupsOf(h) \cup {"all"}

(* GET /config: the host, the hosts its recipe names and those related.    *)
Request(j, h) ==
  /\ mode = "provider" /\ job[j].kind = "none"
  /\ job' = [job EXCEPT ![j] =
       [kind |-> "config", host |-> h, next |-> 0,
        plan |-> [i \in 1 .. Len(conf.related[h]) |-> HostC(conf.related[h][i])]]]
  /\ UNCHANGED <<conf, mode, origin, held, cached, answer, start, faults, entered>>

(* runRecipe, in a process of its own; a module `load' in the recipe.      *)
Run(j, h) ==
  /\ mode = "local" /\ \A k \in Jobs : job[k].kind = "none"
  /\ job' = [job EXCEPT ![j] =
       [kind |-> "run", host |-> h, next |-> 0,
        plan |-> [i \in 1 .. Len(conf.related[h]) |-> HostC(conf.related[h][i])]
                   \o <<InventoryC, RecipeC, LoadC>>]]
  /\ UNCHANGED <<conf, mode, origin, held, cached, answer, start, faults, entered>>

Loading(j, id) == job[j].plan # <<>> /\ Head(job[j].plan) = id
Filling(j, id) == Loading(j, id) /\ job[j].next > 0
Loaded(j) == [job EXCEPT ![j].plan = Tail(@), ![j].next = 0]

(* Mutant of Enter: the cache is set before it is filled.                  *)
EnterCaches(j) ==
  \E id \in Containers(conf) :
    /\ Loading(j, id) /\ job[j].next = 0
    /\ job' = IF id \in cached THEN Loaded(j) ELSE [job EXCEPT ![j].next = 1]
    /\ cached' = cached \cup {id}
    /\ UNCHANGED <<conf, mode, origin, held, answer, start, faults, entered>>

(* The cache is looked at once; internalLoadVars comes before the sources. *)
Enter(j) ==
  \E id \in Containers(conf) :
    /\ Loading(j, id) /\ job[j].next = 0
    /\ job' = IF id \in cached THEN Loaded(j) ELSE [job EXCEPT ![j].next = 1]
    /\ entered' = IF id \notin cached /\ \E k \in Jobs \ {j} : Filling(k, id)
                  THEN entered \cup {id} ELSE entered
    /\ UNCHANGED <<conf, mode, origin, held, cached, answer, start, faults>>

(* The host source gives the host a new object of variables.               *)
PopulateHostData(j, id) ==
  /\ id[1] = "host" /\ origin[id[2]] > 0
  /\ \E new \in HostVarsLoaded(conf.hostSources[origin[id[2]]], id[2]) :
       held' = [held EXCEPT ![id] = new]
  /\ cached' = cached \cup {id}
  /\ job' = Loaded(j)

(* A source is assigned into the one object there is; after the last of    *)
(* them the object is cached.                                              *)
AssignSource(j, id) ==
  LET sources == Written(id).sources
      last == job[j].next >= Len(sources)
  IN /\ ~(id[1] = "host" /\ origin[id[2]] > 0)
     /\ IF sources = <<>> THEN held' = held
        ELSE \E new \in SourceVars(sources[job[j].next]) :
               held' = [held EXCEPT ![id] = Over(new, @)]
     /\ cached' = IF last /\ id # LoadC THEN cached \cup {id} ELSE cached
     /\ job' = IF last THEN Loaded(j) ELSE [job EXCEPT ![j].next = @ + 1]

LoadVars(j) ==
  \E id \in Containers(conf) :
    /\ Filling(j, id)
    /\ PopulateHostData(j, id) \/ AssignSource(j, id)
    /\ UNCHANGED <<conf, mode, origin, answer, start, faults, entered>>

(* A load fails when a file or an answer is not there, or not this time:   *)
(* what was assigned before it stays, the next request loads again.        *)
CannotLoad(j) ==
  LET id == Head(job[j].plan)
  IN IF id[1] = "host" /\ origin[id[2]] > 0 THEN Whole(id) = {}
     ELSE Written(id).sources # <<>> /\ SourceVars(Written(id).sources[job[j].next]) = {}

LoadFails(j) ==
  /\ job[j].plan # <<>> /\ job[j].next > 0
  /\ \/ CannotLoad(j) /\ UNCHANGED faults
     \/ faults < MaxFaults /\ faults' = faults + 1
  /\ mode' = IF mode = "local" THEN "down" ELSE mode
  /\ job' = [job EXCEPT ![j] = NoJob]
  /\ UNCHANGED <<conf, origin, held, cached, answer, start, entered>>

-----------------------------------------------------------------------------
(* The answer to a request.                                                *)

(* Mutant of FilterHostVars: special groups are forgotten.                 *)
FilterHostVarsNamed(h, recipe) ==
  [recipe EXCEPT
    !.groupVars = [g \in DOMAIN @ \cap GroupsOf(h) |-> @[g]],
    !.hostVars = [k \in DOMAIN @ \cap {h} |-> @[k]]]

(* Variables of a recipe for a group the host is in, and for the host.     *)
FilterHostVars(h, recipe) ==
  [recipe EXCEPT
    !.groupVars = [g \in DOMAIN @ \cap Names(h) |-> @[g]],
    !.hostVars = [k \in DOMAIN @ \cap {h} |-> @[k]]]

(* The configuration of the inventory with other groups and host sources:  *)
(* those of the hosts it was asked for. A host is written with its         *)
(* relations, which the source of raw hosts takes for variables.           *)
SubInventory(hosts) ==
  [conf EXCEPT
    !.groups = [g \in {g \in DOMAIN @ : g # "all" /\ hosts \cap @[g].members # {}} |->
                  [vars |-> held[GroupC(g)], sources |-> <<>>, members |-> {}]],
    !.hostSources =
      <<[kind |-> "raw",
         hosts |-> [h \in hosts |-> Object([relations |-> Object(Nothing),
                                              vars |-> Object(held[HostC(h)])])]]>>]

Answer(j) ==
  /\ job[j].kind = "config" /\ job[j].plan = <<>>
  /\ LET h == job[j].host
         hosts == ToSet(conf.related[h])
     IN answer' = [answer EXCEPT ![j] =
          [host |-> h, hosts |-> hosts,
           inventory |-> [SubInventory(hosts) EXCEPT !.recipe = FilterHostVars(h, @)]]]
  /\ job' = [job EXCEPT ![j].kind = "answered"]
  /\ UNCHANGED <<conf, mode, origin, held, cached, start, faults, entered>>

-----------------------------------------------------------------------------
(* The variables of a run, later layers over earlier ones.                 *)

(* Groups in order of their names, the special ones among them.            *)
GroupLayers(names, varsOf) ==
  Assigned(Nothing, [i \in DOMAIN conf.order |->
    IF conf.order[i] \in names \cap DOMAIN varsOf THEN varsOf[conf.order[i]] ELSE Nothing])

(* aggregateBaseVarsForHost                                                *)
BaseVars(inventory, names, groupVars) == Over(GroupLayers(names, groupVars), inventory)

(* Mutant of RecipeVars: the variables of the host last but one.           *)
RecipeVarsHostLater(context, names, h, hostVars, recipe, recipeVars) ==
  LET own == IF h \in DOMAIN recipe.hostVars THEN recipe.hostVars[h] ELSE Nothing
  IN Over(recipeVars, Over(hostVars, Over(own,
       Over(GroupLayers(names, recipe.groupVars), context))))

(* Recipe.aggregateHostVars                                                *)
AssetsOf(recipe) == IF recipe.assets THEN Sole("assetsDir", [text |-> "dir"]) ELSE Nothing
OwnVars(recipe, h) == IF h \in DOMAIN recipe.hostVars THEN recipe.hostVars[h] ELSE Nothing
RecipeVars(context, names, h, hostVars, recipe, recipeVars) ==
  Over(recipeVars, Over(OwnVars(recipe, h), Over(hostVars,
    Over(GroupLayers(names, recipe.groupVars), Over(AssetsOf(recipe), context)))))

HeldGroups == [g \in DOMAIN conf.groups |-> held[GroupC(g)]]

StartVars(h) ==
  RecipeVars(BaseVars(held[InventoryC], Names(h), HeldGroups),
             Names(h), h, held[HostC(h)], conf.recipe, held[RecipeC])

(* The module `load' adds what it loaded.                                  *)
RunTasks(j) ==
  /\ job[j].kind = "run" /\ job[j].plan = <<>>
  /\ start' = [start EXCEPT ![j] = Over(held[LoadC], StartVars(job[j].host))]
  /\ job' = [job EXCEPT ![j].kind = "ran"]
  /\ UNCHANGED <<conf, mode, origin, held, cached, answer, faults, entered>>

Next ==
  \/ LoadStubsAndGroups
  \/ \E j \in Jobs :
       \/ \E h \in DOMAIN conf.related : Request(j, h) \/ Run(j, h)
       \/ Enter(j) \/ LoadVars(j) \/ LoadFails(j)
       \/ Answer(j) \/ RunTasks(j)

Spec == Init /\ [][Next]_vars
-----------------------------------------------------------------------------
(* Two sources of a container give one variable.                           *)
SharesNames(sources) ==
  \E i, k \in DOMAIN sources :
    i < k /\ \E f \in SourceVars(sources[i]), g \in SourceVars(sources[k]) : DOMAIN f \cap DOMAIN g # {}

Answered == {j \in Jobs : job[j].kind = "answered"}
RawHosts(j) == Head(answer[j].inventory.hostSources).hosts

(* However many requests load the variables of a host at once, and         *)
(* whichever loads failed before, an answer has all of them, each from the *)
(* last of the host's sources that gives it: unless two requests filled the*)
(* host at once and two of its sources give one variable (loadVars assigns *)
(* each source into the shared object).                                    *)
AnswersWhole ==
  \A j \in Answered : \A h \in answer[j].hosts :
    \/ HostC(h) \in entered /\ SharesNames(Written(HostC(h)).sources)
    \/ RawHosts(j)[h].vars.vars.vars \in Whole(HostC(h))

(* The layers of variables in the order of the code: inventory, groups by  *)
(* name, assets, the recipe's variables of groups, the host, the recipe's  *)
(* variables of the host, the recipe (aggregateHostVars), what it loads.   *)
Given(objects) == UNION {DOMAIN f : f \in objects}
Decides(layers, n, i) ==
  n \in Given(layers[i]) /\ \A k \in DOMAIN layers : n \in Given(layers[k]) => k <= i
ValuesOf(objects, n) == {f[n] : f \in {g \in objects : n \in DOMAIN g}}

GroupsWritten(names, varsOf) ==
  [i \in DOMAIN conf.order |->
     IF conf.order[i] \in names \cap DOMAIN varsOf THEN {varsOf[conf.order[i]]} ELSE {}]
GroupsWhole(names) ==
  [i \in DOMAIN conf.order |->
     IF conf.order[i] \in names \cap DOMAIN conf.groups THEN Whole(GroupC(conf.order[i])) ELSE {}]
Layers(h) ==
  <<Whole(InventoryC)>> \o GroupsWhole(Names(h)) \o <<{AssetsOf(conf.recipe)}>>
    \o GroupsWritten(Names(h), conf.recipe.groupVars)
    \o <<Whole(HostC(h))>> \o <<{OwnVars(conf.recipe, h)}>> \o <<Whole(RecipeC)>> \o <<Whole(LoadC)>>

(* In the order of the comments at recipe.ts:417 and inventory.ts:535 the  *)
(* group of all is below the other groups, in the inventory and in the     *)
(* recipe, and the recipe's below the inventory's other groups. Layers     *)
(* that the comments do not list as implemented are left out.              *)
Everybody(h) == Names(h) \cap {"all"}
Others(h) == Names(h) \ {"all"}
DocumentedLayers(h) ==
  <<Whole(InventoryC)>>
    \o GroupsWhole(Everybody(h)) \o GroupsWritten(Everybody(h), conf.recipe.groupVars)
    \o GroupsWhole(Others(h)) \o GroupsWritten(Others(h), conf.recipe.groupVars)
    \o <<Whole(HostC(h))>> \o <<{OwnVars(conf.recipe, h)}>>
Undocumented == Given({AssetsOf(conf.recipe)}) \cup Given(Whole(RecipeC)) \cup Given(Whole(LoadC))

(* The code departs from it. It puts the recipe's variables of all hosts   *)
(* over those of every group of the inventory (recipe.ts:456), and takes   *)
(* `all' for a group like the others, which sorts among them by name.      *)
OverruledByAll(h) ==
  Given({conf.recipe.groupVars[g] : g \in Everybody(h) \cap DOMAIN conf.recipe.groupVars})
    \cap UNION {Given(Whole(GroupC(g))) : g \in Others(h) \cap DOMAIN conf.groups}
AllComesFirst == \A i \in DOMAIN conf.order : conf.order[i] = "all" => i = 1

(* The last layer that gives a variable, written or loaded, decides.       *)
Decided(f, layers, leftOut) ==
  \A i \in DOMAIN layers : \A n \in Given(layers[i]) \ leftOut :
    Decides(layers, n, i) => n \in DOMAIN f /\ f[n] \in ValuesOf(layers[i], n)

(* A run starts with variables of which each has the value that the last   *)
(* layer to give it has, in the order of the code, and in that of the      *)
(* comments as well: unless the recipe gives it for all hosts and a group  *)
(* of the inventory too, or a group sorts before `all'                     *)
(* (aggregateBaseVarsForHost, Recipe.aggregateHostVars).                   *)
StartsLayered ==
  \A j \in Jobs : job[j].kind = "ran" =>
    LET h == job[j].host
    IN /\ Decided(start[j], Layers(h), {})
       /\ AllComesFirst =>
            Decided(start[j], DocumentedLayers(h), Undocumented \cup OverruledByAll(h))

(* The recipe an agent gets has the variables for its host that it has on  *)
(* the command line, and none for other hosts and groups                   *)
(* (filterHostVarsBlockForHost).                                           *)
RecipeVarsAreOwn ==
  \A j \in Answered :
    LET h == answer[j].host
        sent == answer[j].inventory.recipe
        over(recipe) == RecipeVars(Nothing, Names(h), h, Nothing, recipe, Nothing)
    IN /\ over(sent) = over(conf.recipe)
       /\ DOMAIN sent.hostVars \subseteq {h} /\ DOMAIN sent.groupVars \subseteq Names(h)
=============================================================================
