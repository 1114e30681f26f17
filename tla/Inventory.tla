------------------------------ MODULE Inventory ------------------------------
(***************************************************************************)
(* Hosts, groups and the patterns that name them                           *)
(* (components/inventory.ts, inventoryHost.ts, util/hostPattern.ts).       *)
(*                                                                         *)
(* An inventory is a record, a method an operator that returns the record  *)
(* it leaves behind: looking something up fills the cache of group members *)
(* and marks groups as visited.  A pattern is the sequence of its comma    *)
(* separated elements, an element a modifier and a name.                   *)
(***************************************************************************)
EXTENDS Naturals, FiniteSets, SequencesExt

CONSTANTS
  HostIds,   \* the hostnames there are
  Groups,    \* the groups an inventory defines
  Globs,     \* the names with special characters
  Matched,   \* the hostnames and groups a glob matches
  Rank,      \* the natural order of names
  Unset      \* a cache has no entry

Special == {"all", "grouped", "ungrouped"}
Names == HostIds \cup Groups \cup Globs \cup Special
Elements == [mod : {"", "&", "!"}, name : Names]

ASSUME NamesAssumption ==
  /\ HostIds \cap Groups = {} /\ (HostIds \cup Groups) \cap (Globs \cup Special) = {}
  /\ Matched \in [Globs -> SUBSET (HostIds \cup Groups)]
  /\ Rank \in [Names -> Nat] /\ \A a, b \in Names : Rank[a] = Rank[b] => a = b

Plain(n) == [mod |-> "", name |-> n]
All == Plain("all")

MatchedBy(n) == IF n \in Globs THEN Matched[n] ELSE {n}     \* HostPattern.matchString

InOrder(S) == SetToSortSeq(S, LAMBDA a, b : Rank[a] < Rank[b])
Folded(op(_, _), base, S) == FoldLeft(op, base, InOrder(S))

(* What is in xs and not in old, once and in order.                        *)
Distinct(xs, old) ==
  FoldLeft(LAMBDA ys, x : IF x \in old \cup ToSet(ys) THEN ys ELSE Append(ys, x), <<>>, xs)

-----------------------------------------------------------------------------
(* Mutant of SortPatterns: elements are taken as they are written.         *)
SortPatternsNot(p) == p

Weight(e) == CASE e.mod = "" -> 0 [] e.mod = "&" -> 1 [] e.mod = "!" -> 2

SortPatterns(p) ==
  SortSeq(p, LAMBDA a, b : \/ Weight(a) < Weight(b)
                           \/ Weight(a) = Weight(b) /\ Rank[a.name] < Rank[b.name])

(* Mutant of Combine: `&' adds.                                            *)
CombineAdds(e, base, matched) == IF e.mod = "!" THEN base \ matched ELSE base \cup matched

Combine(e, base, matched) ==
  CASE e.mod = "!" -> base \ matched
    [] e.mod = "&" -> base \cap matched
    [] e.mod = ""  -> base \cup matched

(***************************************************************************)
(* A lookup: the inventory, the groups visited so far (`visitedCache') and *)
(* the hosts the last call returned.                                       *)
(***************************************************************************)
Lookup(v, seen) == [v |-> v, seen |-> seen, found |-> {}]
Found(hs, s) == [s EXCEPT !.found = hs]
AlsoFound(hs, s) == [s EXCEPT !.found = @ \cup hs]

RECURSIVE HostsByGroup(_, _), HostsByPattern(_, _), HostsByElement(_, _, _), Matching(_, _)

(* Calls in order, their results merged.                                   *)
Merged(call(_, _), s, xs) ==
  FoldLeft(LAMBDA t, x : AlsoFound(t.found, call(x, t)), Found({}, s), xs)

(* An entry that is the name of a group is that group, whether visited or  *)
(* not; every other entry is a pattern.  The result is cached.             *)
Cached(g, s) == [s EXCEPT !.v.cache[g] = s.found]

HostsByGroup(g, s) ==
  LET entry(p, t) == IF p \in {<<Plain(h)>> : h \in ToSet(s.v.groups)}
                     THEN HostsByGroup(p[1].name, t) ELSE HostsByPattern(p, t)
  IN IF s.v.cache[g] # Unset THEN Found(s.v.cache[g], s)
     ELSE Cached(g, Merged(entry, s, s.v.pattern[g]))

HostsByPattern(p, s) ==
  FoldLeft(LAMBDA t, e : HostsByElement(e, t.found, t), Found({}, s), SortPatterns(p))

Combined(e, base, s) == Found(Combine(e, base, s.found), s)

(* The name of a host alone is that host, and what came before is dropped. *)
HostsByElement(e, base, s) ==
  IF e.mod = "" /\ e.name \in s.v.hosts
  THEN Found({e.name}, s)
  ELSE Combined(e, base, Matching(e.name, s))

(* Groups that were visited before are passed over.                        *)
VisitGroups(gs, s) ==
  LET visit(g, t) == IF g \in t.seen THEN Found({}, t)
                     ELSE HostsByGroup(g, [t EXCEPT !.seen = @ \cup {g}])
  IN Merged(visit, s, gs)

(* Hosts are matched too, unless a name without special characters was     *)
(* that of a group with hosts.                                             *)
HostsNamed(n, s) ==
  IF n \in Globs \/ s.found = {} THEN AlsoFound(s.v.hosts \cap MatchedBy(n), s) ELSE s

(* #getHostsByMatchingHostPatternWithoutForceInclusion                     *)
Matching(n, s) ==
  CASE n = "all" -> Found(s.v.hosts, s)
    [] n = "grouped" -> VisitGroups(s.v.groups, s)
    [] n = "ungrouped" ->
         [HostsByPattern(<<All, [mod |-> "!", name |-> "grouped"]>>, [s EXCEPT !.seen = {}])
            EXCEPT !.seen = s.seen]
    [] OTHER -> HostsNamed(n, VisitGroups(InOrder(ToSet(s.v.groups) \cap MatchedBy(n)), s))

-----------------------------------------------------------------------------
LookFor(h, s) == [s EXCEPT !.member = @ \/ h \in s.found]

(* Every entry of every group is looked up, with one visited cache; a      *)
(* group that was visited on the way is passed over.                       *)
GroupNamesForHost(h, v) ==
  LET entry(t, p) == LookFor(h, HostsByPattern(p, t))
      visited(g, t) == [t EXCEPT !.seen = @ \cup {g}, !.names = IF t.member THEN @ \cup {g} ELSE @]
      group(t, g) ==
        IF g \in t.seen THEN t
        ELSE visited(g, FoldLeft(entry, [t EXCEPT !.member = FALSE], t.v.pattern[g]))
  IN FoldLeft(group, Lookup(v, {}) @@ [names |-> {}, member |-> FALSE], v.groups)

(* loadGroupNamesFromInventory: once for a host.                           *)
LoadGroupNames(v, h) ==
  LET loaded(s) == [s.v EXCEPT !.names[h] = s.names]
  IN IF v.names[h] # Unset THEN v ELSE loaded(GroupNamesForHost(h, v))

ProcessHosts(v) == Folded(LoadGroupNames, v, v.hosts)

SetHost(v, h) == ProcessHosts([v EXCEPT !.hosts = @ \cup {h}])

(* A configuration: the groups in order, their entries, the relations that *)
(* groups have written and hosts in a variable (`__relations': what is     *)
(* written as `relations' of a host is dropped), the hosts under `hosts'   *)
(* and those of host sources.                                              *)
LoadInventory(c) ==
  ProcessHosts([hosts |-> c.static \cup c.sourced,
                cache |-> [g \in Groups |-> Unset],
                names |-> [h \in HostIds |-> Unset]] @@ c)
-----------------------------------------------------------------------------
(* createRawSubInventoryConfig                                             *)

(* The relations of a host, and of the groups it is in; `self' is <<>>.    *)
RelationsOf(v, h) ==
  v.relations[h]
    \o FlattenSeq([i \in 1 .. Cardinality(v.names[h]) |->
         LET g == InOrder(v.names[h])[i]
         IN [j \in DOMAIN v.relations[g] |->
               IF v.relations[g][j] = <<>> THEN <<Plain(g)>> ELSE v.relations[g][j]]])

(* What no host before had as a relation.                                  *)
NewRelations(s, h) == Distinct(RelationsOf(s.v, h), s.relations)
Entered(s, h) ==
  [s EXCEPT !.hosts = @ \cup {h}, !.groups = @ \cup s.v.names[h],
            !.relations = @ \cup ToSet(RelationsOf(s.v, h))]

RECURSIVE Populate(_, _)

(* Mutant of Populate: the relations of related hosts are left out.        *)
PopulateOnce(s, h) ==
  LET with(t) == [t EXCEPT !.hosts = @ \cup t.found]
  IN FoldLeft(LAMBDA t, p : with(HostsByPattern(p, t)), Entered(s, h), NewRelations(s, h))

(* #recursivelyPopulateSubInventoryFields: every new relation is looked    *)
(* up, and every host that is found is next.                               *)
Populate(s, h) ==
  LET next(t, k) == IF k \in t.hosts THEN t ELSE Populate(t, k)
      with(t) == Folded(next, t, t.found)
  IN FoldLeft(LAMBDA t, p : with(HostsByPattern(p, t)), Entered(s, h), NewRelations(s, h))

SubInventory(v, h, hs) ==
  FoldLeft(Populate, Lookup(v, {}) @@ [relations |-> {}, hosts |-> {}, groups |-> {}],
           <<h>> \o InOrder(hs \ {h}))

(* The groups are sent without their patterns, everything else as it is    *)
(* configured, and the hosts found as a host source, which hides those of  *)
(* the configuration and makes one variable of all that a host had: the    *)
(* relations are in it, where nobody looks for them.                       *)
Configuration(s) ==
  [groups |-> SelectSeq(s.v.groups, LAMBDA g : g \in s.groups),
   pattern |-> [g \in Groups |-> <<>>],
   relations |-> [x \in HostIds \cup Groups |-> IF x \in s.hosts THEN <<>> ELSE s.v.relations[x]],
   static |-> s.v.static,
   sourced |-> s.hosts]
=============================================================================
