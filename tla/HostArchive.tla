----------------------------- MODULE HostArchive -----------------------------
(***************************************************************************)
(* What a host gets from GET /config: the root recipes that target it and  *)
(* the part of the inventory they need (commands/compileArchiveForHost.ts, *)
(* Archive.getArchiveForHostname, Inventory.createRawSubInventoryConfig),  *)
(* and the inventory its agent makes of it.                                *)
(*                                                                         *)
(* All requests share the provider's inventory, its caches included.       *)
(***************************************************************************)
EXTENDS Inventory

CONSTANTS
  Requests,     \* the requests for /config, each made once
  Inventories,  \* the inventories the provider may be configured with
  Archives      \* the archives: root recipes in order, with targets and otherHosts

ASSUME ArchiveAssumption ==
  \A a \in Archives : \A i \in 1 .. Len(a) :
    /\ a[i].targets \in Seq(Elements)
    /\ \A j \in 1 .. Len(a[i].others) : a[i].others[j] \in Seq(Elements)

VARIABLES
  archive,  \* the root recipes
  inv,      \* the provider's inventory
  pc,       \* where each request is
  host,     \* the host that asks
  seen,     \* the groups visited while its archive is put together
  chosen,   \* the recipes it gets, by their place in the archive
  others,   \* the patterns of otherHosts still to be looked up
  extra,    \* the other hosts found so far
  sent,     \* the inventory configuration it gets
  local     \* the inventory its agent loads

vars == <<archive, inv, pc, host, seen, chosen, others, extra, sent, local>>

-----------------------------------------------------------------------------
NotYet == "not yet"
Places == {"new", "loading", "others", "answered", "loaded"}

Init ==
  /\ archive \in Archives
  /\ inv \in {LoadInventory(c) : c \in Inventories}
  /\ pc = [r \in Requests |-> "new"]
  /\ host = [r \in Requests |-> NotYet]
  /\ seen = [r \in Requests |-> {}]
  /\ chosen = [r \in Requests |-> {}]
  /\ others = [r \in Requests |-> <<>>]
  /\ extra = [r \in Requests |-> {}]
  /\ sent = [r \in Requests |-> NotYet]
  /\ local = [r \in Requests |-> NotYet]

Goto(r, l) == pc' = [pc EXCEPT ![r] = l]

(* A host the inventory does not know becomes part of it.                  *)
Arrive(r, h) ==
  /\ pc[r] = "new"
  /\ host' = [host EXCEPT ![r] = h]
  /\ inv' = IF h \in inv.hosts THEN inv ELSE SetHost(inv, h)
  /\ Goto(r, "loading")
  /\ UNCHANGED <<archive, seen, chosen, others, extra, sent, local>>

(* The recipes whose targets hold host h, with the groups visited before.  *)
Selection(v, groups, h) ==
  LET picked(s, i) == [s EXCEPT !.picked = IF h \in s.found THEN @ \cup {i} ELSE @]
      select(s, i) == picked(HostsByPattern(archive[i].targets, s), i)
  IN FoldLeft(select, Lookup(v, groups) @@ [picked |-> {}], [i \in 1 .. Len(archive) |-> i])

OthersOf(recipes) ==
  Distinct(FlattenSeq([i \in 1 .. Len(archive) |-> IF i \in recipes THEN archive[i].others ELSE <<>>]),
           {})

(* Mutant of SelectRecipes: every request adds to the groups of the last.  *)
SelectRecipesSharing(r) ==
  /\ pc[r] = "loading"
  /\ \E s \in {Selection(inv, UNION {seen[q] : q \in Requests}, host[r])} :
       /\ inv' = s.v
       /\ seen' = [seen EXCEPT ![r] = s.seen]
       /\ chosen' = [chosen EXCEPT ![r] = s.picked]
       /\ others' = [others EXCEPT ![r] = OthersOf(s.picked)]
  /\ Goto(r, "others")
  /\ UNCHANGED <<archive, host, extra, sent, local>>

SelectRecipes(r) ==
  /\ pc[r] = "loading"
  /\ \E s \in {Selection(inv, {}, host[r])} :
       /\ inv' = s.v
       /\ seen' = [seen EXCEPT ![r] = s.seen]
       /\ chosen' = [chosen EXCEPT ![r] = s.picked]
       /\ others' = [others EXCEPT ![r] = OthersOf(s.picked)]
  /\ Goto(r, "others")
  /\ UNCHANGED <<archive, host, extra, sent, local>>

(* One pattern of otherHosts; the variables of what it finds are awaited.  *)
LoadOthers(r) ==
  /\ pc[r] = "others" /\ others[r] # <<>>
  /\ \E s \in {HostsByPattern(Head(others[r]), Lookup(inv, seen[r]))} :
       /\ inv' = s.v
       /\ seen' = [seen EXCEPT ![r] = s.seen]
       /\ extra' = [extra EXCEPT ![r] = @ \cup s.found]
  /\ others' = [others EXCEPT ![r] = Tail(@)]
  /\ UNCHANGED <<archive, pc, host, chosen, sent, local>>

(* createRawSubInventoryConfig for the host and the other hosts.           *)
SendConfig(r) ==
  /\ pc[r] = "others" /\ others[r] = <<>>
  /\ \E s \in {SubInventory(inv, host[r], extra[r])} :
       /\ inv' = s.v
       /\ sent' = [sent EXCEPT ![r] = Configuration(s)]
  /\ Goto(r, "answered")
  /\ UNCHANGED <<archive, host, seen, chosen, others, extra, local>>

(* The agent: new Inventory and loadHostStubsAndGroups.                    *)
LoadLocal(r) ==
  /\ pc[r] = "answered"
  /\ local' = [local EXCEPT ![r] = LoadInventory(sent[r])]
  /\ Goto(r, "loaded")
  /\ UNCHANGED <<archive, inv, host, seen, chosen, others, extra, sent>>

Next ==
  \E r \in Requests :
    \/ \E h \in HostIds : Arrive(r, h)
    \/ SelectRecipes(r) \/ LoadOthers(r) \/ SendConfig(r) \/ LoadLocal(r)

Spec == Init /\ [][Next]_vars

-----------------------------------------------------------------------------
(* What patterns and groups mean, without caches and visited groups.       *)

Named(hs, members, n) ==
  CASE n = "all"       -> hs
    [] n = "grouped"   -> UNION {members[g] : g \in Groups}
    [] n = "ungrouped" -> hs \ UNION {members[g] : g \in Groups}
    [] OTHER -> (hs \cap MatchedBy(n)) \cup UNION {members[g] : g \in Groups \cap MatchedBy(n)}

(* One of the plain elements names the host, every `&' does, no `!' does.  *)
Denoted(hs, members, p) ==
  {h \in hs : /\ \E i \in DOMAIN p : p[i].mod = "" /\ h \in Named(hs, members, p[i].name)
              /\ \A i \in DOMAIN p : p[i].mod = "&" => h \in Named(hs, members, p[i].name)
              /\ \A i \in DOMAIN p : p[i].mod = "!" => h \notin Named(hs, members, p[i].name)}

(* Groups name groups: their members, to the depth there are groups.       *)
Members(v, hs) ==
  LET upto[n \in 0 .. Cardinality(Groups)] ==
        [g \in Groups |-> IF n = 0 THEN {}
                          ELSE UNION {Denoted(hs, upto[n - 1], p) : p \in ToSet(v.pattern[g])}]
  IN upto[Cardinality(Groups)]

Known(v) == v.static \cup v.sourced
Entries(v) == UNION {ToSet(v.pattern[g]) : g \in Groups}
Excludes(p) == \E i \in DOMAIN p : p[i].mod = "!" \/ p[i].name = "ungrouped"

(* The groups an element looks up.                                         *)
Visits(e) == IF e.name = "grouped" THEN Groups ELSE Groups \cap MatchedBy(e.name)
NamesGroups(p) == \E i \in DOMAIN p : Visits(p[i]) # {}

(* No group has an entry that looks up groups but by the name of one.      *)
NestsByName(v) == \A p \in Entries(v) : NamesGroups(p) => \E g \in Groups : p = <<Plain(g)>>

Asked == {r \in Requests : pc[r] \notin {"new", "loading"}}

-----------------------------------------------------------------------------
(* A host never gets a recipe that does not target it, however groups nest *)
(* and whatever the caches hold, as long as nothing is named by exclusion  *)
(* (getArchiveForHostname).                                                *)
OnlyTargeted ==
  (\A p \in Entries(inv) : ~Excludes(p)) =>
    \A r \in Asked : \A i \in chosen[r] :
      Excludes(archive[i].targets)
        \/ host[r] \in Denoted(inv.hosts, Members(inv, inv.hosts), archive[i].targets)

(* What the provider's inventory knows from the start gets the same        *)
(* recipes whoever asked before, known or not, and in whatever order: the  *)
(* shared caches do not show (hostsByGroup, setHost).                      *)
AnswerIsOwn ==
  NestsByName(inv) =>
    \A r \in Asked : host[r] \in Known(inv) =>
      chosen[r] = Selection(LoadInventory(inv), {}, host[r]).picked

(* A recipe that looks up no group twice, and none that a recipe before    *)
(* it looked up, goes to exactly the hosts its targets name (`targets').   *)
LooksUpAlone(i) ==
  \A j \in 1 .. i : \A a \in DOMAIN archive[j].targets, b \in DOMAIN archive[i].targets :
    <<j, a>> # <<i, b>> => Visits(archive[j].targets[a]) \cap Visits(archive[i].targets[b]) = {}

NamesOneHostOrNone(p) == Len(p) = 1 \/ \A a \in DOMAIN p : p[a].mod = "" => p[a].name \notin HostIds

RecipesReached ==
  NestsByName(inv) =>
    \A r \in Asked, i \in 1 .. Len(archive) :
      host[r] \in Known(inv) /\ LooksUpAlone(i) /\ NamesOneHostOrNone(archive[i].targets)
      => (i \in chosen[r]
            <=> host[r] \in Denoted(Known(inv), Members(inv, Known(inv)), archive[i].targets))

(* The agent's inventory holds every host that a relation of one of its    *)
(* hosts names, directly or by way of others (createRawSubInventoryConfig).*)
RelationsClosed ==
  NestsByName(inv) =>
    \A r \in Requests : pc[r] = "loaded" =>
      \A h \in sent[r].sourced : \A p \in ToSet(RelationsOf(inv, h)) :
        Len(p) = 1 => Denoted(Known(inv), Members(inv, Known(inv)), p) \subseteq local[r].hosts
=============================================================================
