--------------------------- MODULE VariablesProofs ---------------------------
(***************************************************************************)
(* Proofs about Variables, for any inventories, sources, files and answers,*)
(* and about VarScopes, for any recipes, renderers and interleavings.      *)
(*                                                                         *)
(* A container that is being filled agrees with what its sources gave as   *)
(* far as they were read (Agrees, FillInv), whatever a load that failed    *)
(* has left in it; what no source gives is as it is written (FrameInv).    *)
(* Two loads of it at once do no harm if no two of its sources give one    *)
(* variable.  Since every result of a source gives the same variables, a   *)
(* container that was filled to the end is whole (WholeAtLast).            *)
(*                                                                         *)
(* Where recipes run, what was rendered has no source of a template, and   *)
(* what is still to be rendered puts none out but after a filter that      *)
(* waits (GoodRender). Of two lists of tasks, one inside the other, the    *)
(* inner has an object of its own from when it starts, or is a finally     *)
(* list whose variables are known to be late (Apart, GoodStack).           *)
(***************************************************************************)
EXTENDS Variables, VarScopes, FiniteSetTheorems, WellFoundedInduction, TLAPS

(* The containers that jobs fill.                                          *)
Ids == {InventoryC, RecipeC, LoadC} \cup {HostC(h) : h \in HostIds(conf)}
FromHostSource(id) == id[1] = "host" /\ origin[id[2]] > 0
JobStates ==
  [kind : {"none", "config", "answered", "run", "ran"},
   host : DOMAIN conf.related \cup {"none"}, plan : Seq(Ids), next : Nat]

StateInv ==
  /\ conf \in Inventories
  /\ mode \in {"starting", "provider", "local", "down"}
  /\ origin \in [HostIds(conf) -> 0 .. Len(conf.hostSources)]
  /\ \A h \in HostIds(conf) : origin[h] = 0 => h \in Inline(conf)
  /\ IsMap(held) /\ DOMAIN held = Containers(conf)
  /\ cached \subseteq Containers(conf) \ {LoadC}
  /\ entered \subseteq Containers(conf)
  /\ IsMap(answer) /\ DOMAIN answer = Jobs
  /\ IsMap(start) /\ DOMAIN start = Jobs
  /\ faults \in Nat
JobInv ==
  /\ job \in [Jobs -> JobStates]
  /\ \A j \in Jobs :
       /\ job[j].kind # "none" => job[j].host \in DOMAIN conf.related
       /\ job[j].kind \notin {"config", "run"} => job[j].plan = <<>>
       /\ job[j].plan = <<>> => job[j].next = 0
TypeInv == StateInv /\ JobInv

(* The provider serves many jobs, the command line runs one.               *)
ModeInv ==
  /\ \A j \in Jobs : job[j].kind \in {"config", "answered"} => mode = "provider"
  /\ \A j \in Jobs : job[j].kind \in {"run", "ran"} => mode = "local"
  /\ mode # "provider" =>
       /\ entered = {}
       /\ \A j, k \in Jobs : j = k \/ job[j].kind = "none" \/ job[k].kind = "none"

(* What no source gives is as it is written.                               *)
AllGiven(sources) == UNION {Given(SourceVars(s)) : s \in ToSet(sources)}
Framed(f, w) ==
  /\ IsMap(f)
  /\ DOMAIN w.vars \subseteq DOMAIN f
  /\ DOMAIN f \subseteq DOMAIN w.vars \cup AllGiven(w.sources)
  /\ \A n \in DOMAIN w.vars \ AllGiven(w.sources) : f[n] = w.vars[n]
FrameInv == \A id \in Ids : FromHostSource(id) \/ Framed(held[id], Written(id))

(* The first k sources, and an object that has what they gave.             *)
Before(sources, k) == [i \in 1 .. k - 1 |-> sources[i]]
Agrees(f, c) ==
  \A i \in DOMAIN c : \A n \in DOMAIN c[i] :
    IsLast(i, Giving(c, n)) => n \in DOMAIN f /\ f[n] = c[i][n]
Made(f, sources, k) == \E c \in Results(Before(sources, k)) : Agrees(f, c)
Mixed(id) == id \in entered /\ SharesNames(Written(id).sources)

FillInv ==
  \A j \in Jobs : \A id \in Ids :
    Filling(j, id) /\ ~FromHostSource(id) =>
      /\ job[j].next <= Len(Written(id).sources) \/ job[j].next = 1
      /\ Mixed(id) \/ Made(held[id], Written(id).sources, job[j].next)

(* Two that fill a container at once are remembered.                       *)
EnteredInv ==
  \A j \in Jobs : \A id \in Ids :
    Filling(j, id) =>
      /\ id \in cached => id \in entered
      /\ \A k \in Jobs \ {j} : Filling(k, id) => id \in entered

CachedInv == \A id \in cached \cap Ids : Mixed(id) \/ held[id] \in Whole(id)

GroupsInv ==
  mode \in {"provider", "local"} => \A g \in DOMAIN conf.groups : held[GroupC(g)] \in Whole(GroupC(g))

(* What a job has done of its plan.                                        *)
PlanInv ==
  \A j \in Jobs : job[j].kind = "config" =>
    \A h \in ToSet(conf.related[job[j].host]) : HostC(h) \in ToSet(job[j].plan) \cup cached

Needed(h) == {InventoryC, RecipeC, LoadC, HostC(h)}
RunInv ==
  \A j \in Jobs : job[j].kind = "run" =>
    \A id \in Needed(job[j].host) : id \in ToSet(job[j].plan) \/ held[id] \in Whole(id)

Inv ==
  /\ TypeInv /\ ModeInv /\ FrameInv /\ FillInv /\ EnteredInv /\ CachedInv
  /\ GroupsInv /\ PlanInv /\ RunInv

-----------------------------------------------------------------------------
(* Numbers and objects.                                                    *)

(* A set of numbers that is not empty has a least element.                 *)
LEMMA LeastNumber ==
  ASSUME NEW T, T \subseteq Nat, T # {}
  PROVE  \E n \in T : \A m \in T : n <= m
<1>1. IsWellFoundedOn({p \in Nat \X Nat : p[1] < p[2]}, Nat)
  BY NatLessThanWellFounded DEF OpToRel
<1>2. PICK n \in T : \A m \in T : ~ (<<m, n>> \in {p \in Nat \X Nat : p[1] < p[2]})
  BY <1>1, WFMin
<1>3. ASSUME NEW m \in T PROVE n <= m
  <2>1. m \in Nat /\ n \in Nat
    OBVIOUS
  <2>2. <<m, n>> \in Nat \X Nat /\ <<m, n>>[1] = m /\ <<m, n>>[2] = n
    BY <2>1
  <2>3. ~ (m < n)
    <3> SUFFICES ASSUME m < n PROVE <<m, n>> \in {p \in Nat \X Nat : p[1] < p[2]}
      BY <1>2
    <3> QED
      BY <2>2
  <2> QED
    BY <2>1, <2>3
<1> QED
  BY <1>3

(* The positions of a list at which a variable is given have a last one.   *)
LEMMA LastOne ==
  ASSUME NEW N \in Nat, NEW T, T \subseteq 1 .. N, T # {}
  PROVE  \E i \in T : IsLast(i, T)
<1> DEFINE U == {m \in Nat : N - m \in T}
<1>1. U # {}
  <2>1. PICK t \in T : TRUE
    OBVIOUS
  <2>2. N - t \in Nat /\ N - (N - t) = t
    BY <2>1
  <2> QED
    BY <2>2
<1>2. PICK m \in U : \A k \in U : m <= k
  BY <1>1, LeastNumber
<1>3. ASSUME NEW t \in T PROVE t <= N - m
  <2>1. N - t \in Nat /\ N - (N - t) = t /\ t \in Nat
    OBVIOUS
  <2>2. m <= N - t
    BY <2>1, <1>2
  <2> QED
    BY <2>1, <2>2
<1> QED
  BY <1>2, <1>3 DEF IsLast

LEMMA OneLast ==
  ASSUME NEW T, T \subseteq Nat, NEW i, NEW k, IsLast(i, T), IsLast(k, T)
  PROVE  i = k
BY DEF IsLast

(* What Object.assign makes of an object and a list of others.             *)
LEMMA AssignedGives ==
  ASSUME NEW f, NEW c, NEW N \in Nat, DOMAIN c = 1 .. N, NEW n
  PROVE  LET a == Assigned(f, c) IN
         /\ \A i \in DOMAIN c : n \in DOMAIN c[i] => n \in DOMAIN a
         /\ \A i \in DOMAIN c : IsLast(i, Giving(c, n)) => a[n] = c[i][n]
         /\ n \in DOMAIN f /\ Giving(c, n) = {} => a[n] = f[n]
<1> DEFINE a == Assigned(f, c)
<1>1. DOMAIN a = DOMAIN f \cup UNION {DOMAIN c[i] : i \in DOMAIN c}
  BY DEF Assigned
<1>2. n \in DOMAIN a => a[n] = IF Giving(c, n) = {} THEN f[n]
                              ELSE c[CHOOSE i \in DOMAIN c : IsLast(i, Giving(c, n))][n]
  BY DEF Assigned
<1>3. Giving(c, n) \subseteq Nat
  BY DEF Giving
<1>4. ASSUME NEW i \in DOMAIN c, IsLast(i, Giving(c, n)) PROVE a[n] = c[i][n]
  <2>1. n \in DOMAIN c[i] /\ Giving(c, n) # {}
    BY <1>4 DEF IsLast, Giving
  <2>2. i = CHOOSE k \in DOMAIN c : IsLast(k, Giving(c, n))
    BY <1>4, <1>3, OneLast
  <2>3. n \in DOMAIN a
    BY <2>1, <1>1
  <2> QED
    BY <2>1, <2>2, <2>3, <1>2
<1> HIDE DEF a
<1>5. \A i \in DOMAIN c : n \in DOMAIN c[i] => n \in DOMAIN a
  BY <1>1
<1>6. n \in DOMAIN f /\ Giving(c, n) = {} => a[n] = f[n]
  BY <1>1, <1>2
<1> QED
  BY <1>4, <1>5, <1>6 DEF a

LEMMA AssignedDomain ==
  ASSUME NEW f, NEW c
  PROVE  /\ DOMAIN Assigned(f, c) = DOMAIN f \cup UNION {DOMAIN c[i] : i \in DOMAIN c}
         /\ IsMap(Assigned(f, c))
BY DEF Assigned, IsMap

LEMMA AssignedAgrees ==
  ASSUME NEW f, NEW c, NEW N \in Nat, DOMAIN c = 1 .. N
  PROVE  Agrees(Assigned(f, c), c)
<1> SUFFICES ASSUME NEW i \in DOMAIN c, NEW n \in DOMAIN c[i], IsLast(i, Giving(c, n))
             PROVE  n \in DOMAIN Assigned(f, c) /\ Assigned(f, c)[n] = c[i][n]
  BY DEF Agrees
<1> QED
  BY AssignedGives

(* It is the only object of the kind.                                      *)
LEMMA AssignedOnly ==
  ASSUME NEW f, NEW g, NEW c, NEW N \in Nat, DOMAIN c = 1 .. N, IsMap(g), Agrees(g, c),
         DOMAIN g = DOMAIN f \cup UNION {DOMAIN c[i] : i \in DOMAIN c},
         \A n \in DOMAIN f : Giving(c, n) = {} => g[n] = f[n]
  PROVE  g = Assigned(f, c)
<1> DEFINE a == Assigned(f, c)
<1>1. DOMAIN a = DOMAIN g /\ IsMap(a)
  BY AssignedDomain
<1>2. ASSUME NEW n \in DOMAIN g PROVE g[n] = a[n]
  <2>1. CASE Giving(c, n) = {}
    <3>1. n \in DOMAIN f
      BY <2>1 DEF Giving
    <3> QED
      BY <2>1, <3>1, AssignedGives
  <2>2. CASE Giving(c, n) # {}
    <3>1. Giving(c, n) \subseteq 1 .. N
      BY DEF Giving
    <3>2. PICK i \in Giving(c, n) : IsLast(i, Giving(c, n))
      BY <3>1, <2>2, LastOne
    <3>3. i \in DOMAIN c /\ n \in DOMAIN c[i]
      BY DEF Giving
    <3>4. a[n] = c[i][n]
      BY <3>2, <3>3, AssignedGives
    <3>5. g[n] = c[i][n]
      BY <3>2, <3>3 DEF Agrees
    <3> QED
      BY <3>4, <3>5
  <2> QED
    BY <2>1, <2>2
<1> HIDE DEF a
<1>3. g = a
  BY <1>1, <1>2 DEF IsMap
<1> QED
  BY <1>3 DEF a

LEMMA OverIs ==
  ASSUME NEW new, NEW f
  PROVE  /\ DOMAIN Over(new, f) = DOMAIN new \cup DOMAIN f
         /\ \A n \in DOMAIN new : Over(new, f)[n] = new[n]
         /\ \A n \in DOMAIN f : n \notin DOMAIN new => Over(new, f)[n] = f[n]
         /\ IsMap(Over(new, f))
BY DEF Over, IsMap

LEMMA OverAt ==
  ASSUME NEW new, NEW f, NEW n
  PROVE  /\ n \in DOMAIN new => n \in DOMAIN Over(new, f) /\ Over(new, f)[n] = new[n]
         /\ n \in DOMAIN f => n \in DOMAIN Over(new, f)
         /\ n \in DOMAIN f \ DOMAIN new => Over(new, f)[n] = f[n]
BY DEF Over


-----------------------------------------------------------------------------
(* Sources.  All results of a source give the same variables.              *)

(* Every entry is in every order.                                          *)
LEMMA EntriesFinite ==
  ASSUME NEW s
  PROVE  IsFiniteSet(EntryIds(s))
<1>1. IsFiniteSet(ToSet(FileOrder))
  <2>1. FileOrder \in Seq(ToSet(FileOrder))
    BY ListsAssumption
  <2> DEFINE N == Len(FileOrder)
  <2>2. N \in Nat /\ DOMAIN FileOrder = 1 .. N
    BY <2>1
  <2>3. FileOrder \in Surjection(1 .. N, ToSet(FileOrder))
    BY <2>1, <2>2 DEF Surjection, ToSet
  <2>4. IsFiniteSet(1 .. N)
    BY <2>2, FS_Interval
  <2> QED
    BY <2>3, <2>4, FS_Surjection
<1>2. IsFiniteSet(ToSet(FileOrder) \cap s.matches)
  BY <1>1, FS_Subset
<1>3. IsFiniteSet(ListedIds(s))
  BY ListsAssumption, FS_EmptySet DEF ListedIds, IsListed
<1> QED
  BY <1>2, <1>3 DEF EntryIds

LEMMA OrdersOnto ==
  ASSUME NEW S, IsFiniteSet(S), NEW order \in SetToSeqs(S)
  PROVE  /\ Cardinality(S) \in Nat /\ DOMAIN order = 1 .. Cardinality(S)
         /\ {order[i] : i \in DOMAIN order} = S
<1> DEFINE N == Cardinality(S)
<1>1. N \in Nat
  BY FS_CardinalityType
<1>2. order \in [1 .. N -> S] /\ \A i, j \in 1 .. N : i # j => order[i] # order[j]
  BY DEF SetToSeqs
<1>3. order \in Injection(1 .. N, S)
  BY <1>2 DEF Injection, IsInjective
<1>4. Cardinality(1 .. N) = N
  BY <1>1, FS_Interval
<1>5. order \in Surjection(1 .. N, S)
  BY <1>3, <1>4, FS_Injection
<1> QED
  BY <1>1, <1>2, <1>5 DEF Surjection

(* The entries that a source loads in one order or another.                *)
EntryOf(s, id) == [name |-> EntryName(s, id), value |-> CHOOSE v \in LoadEntry(s, id) : TRUE]
LEMMA EntriesLoaded ==
  ASSUME NEW s, NEW entries \in LoadAllEntries(s)
  PROVE  /\ \E N \in Nat : DOMAIN entries = 1 .. N
         /\ {entries[i] : i \in DOMAIN entries} = {EntryOf(s, id) : id \in EntryIds(s)}
<1>1. PICK order \in SetToSeqs(EntryIds(s)) : entries = [i \in DOMAIN order |-> EntryOf(s, order[i])]
  BY DEF LoadAllEntries, EntryOf
<1>2. /\ Cardinality(EntryIds(s)) \in Nat /\ DOMAIN order = 1 .. Cardinality(EntryIds(s))
      /\ {order[i] : i \in DOMAIN order} = EntryIds(s)
  BY EntriesFinite, OrdersOnto
<1>3. DOMAIN entries = DOMAIN order /\ \A i \in DOMAIN order : entries[i] = EntryOf(s, order[i])
  BY <1>1
<1>4. ASSUME NEW i \in DOMAIN entries PROVE entries[i] \in {EntryOf(s, id) : id \in EntryIds(s)}
  BY <1>2, <1>3
<1>5. ASSUME NEW id \in EntryIds(s) PROVE EntryOf(s, id) \in {entries[i] : i \in DOMAIN entries}
  BY <1>2, <1>3
<1> QED
  BY <1>2, <1>3, <1>4, <1>5

LEMMA ManyGive ==
  ASSUME NEW s, NEW entries \in LoadAllEntries(s)
  PROVE  DOMAIN FromMany(s, entries) =
           IF s.flatten THEN UNION {DOMAIN Processed(EntryOf(s, id).value) : id \in EntryIds(s)}
           ELSE {EntryOf(s, id).name : id \in EntryIds(s)}
<1>1. {entries[i] : i \in DOMAIN entries} = {EntryOf(s, id) : id \in EntryIds(s)}
  BY EntriesLoaded
<1>2. CASE ~s.flatten
  <2>1. ToSet(entries) = {EntryOf(s, id) : id \in EntryIds(s)}
    BY <1>1 DEF ToSet
  <2>2. {e.name : e \in ToSet(entries)} = {EntryOf(s, id).name : id \in EntryIds(s)}
    BY <2>1
  <2> QED
    BY <1>2, <2>2 DEF FromMany
<1>3. CASE s.flatten
  <2> DEFINE objects == [i \in DOMAIN entries |-> Processed(entries[i].value)]
  <2>1. DOMAIN FromMany(s, entries) = DOMAIN Nothing \cup UNION {DOMAIN objects[i] : i \in DOMAIN objects}
    BY <1>3, AssignedDomain DEF FromMany
  <2>2. DOMAIN Nothing = {}
    BY DEF Nothing
  <2>3. UNION {DOMAIN objects[i] : i \in DOMAIN objects}
        = UNION {DOMAIN Processed(e.value) : e \in {entries[i] : i \in DOMAIN entries}}
    OBVIOUS
  <2>4. UNION {DOMAIN Processed(e.value) : e \in {EntryOf(s, id) : id \in EntryIds(s)}}
        = UNION {DOMAIN Processed(EntryOf(s, id).value) : id \in EntryIds(s)}
    OBVIOUS
  <2> QED
    BY <1>1, <1>3, <2>1, <2>2, <2>3, <2>4
<1> QED
  BY <1>2, <1>3

LEMMA OneFile == ASSUME NEW s, NEW v \in LoadFile(s), NEW w \in LoadFile(s) PROVE v = w
BY DEF LoadFile
LEMMA OneBody == ASSUME NEW s, NEW v \in LoadHttp(s), NEW w \in LoadHttp(s) PROVE v = w
BY DEF LoadHttp

LEMMA SourceGives ==
  ASSUME NEW s, NEW f \in SourceVars(s), NEW g \in SourceVars(s)
  PROVE  DOMAIN f = DOMAIN g
<1>1. CASE s.kind \in {"glob", "httpList"}
  <2>1. PICK d \in LoadAllEntries(s) : f = FromMany(s, d)
    BY <1>1 DEF SourceVars
  <2>2. PICK e \in LoadAllEntries(s) : g = FromMany(s, e)
    BY <1>1 DEF SourceVars
  <2> QED
    BY <2>1, <2>2, ManyGive
<1>2. CASE s.kind \notin {"glob", "httpList"}
  <2>1. CASE s.kind = "http"
    BY <1>2, <2>1, OneBody DEF SourceVars
  <2>2. CASE s.kind # "http"
    BY <1>2, <2>2, OneFile DEF SourceVars
  <2> QED
    BY <2>1, <2>2
<1> QED
  BY <1>1, <1>2

(* A host source has one answer for a host.                                *)
LEMMA OneHost ==
  ASSUME NEW s, NEW h, NEW f \in HostVarsLoaded(s, h), NEW g \in HostVarsLoaded(s, h)
  PROVE  f = g
<1>1. ASSUME NEW v \in HostSourceVars(s, h), NEW w \in HostSourceVars(s, h) PROVE v = w
  <2>1. CASE s.kind = "raw"
    BY <1>1, <2>1 DEF HostSourceVars
  <2>2. CASE s.kind = "file"
    BY <1>1, <2>2, OneFile DEF HostSourceVars
  <2>3. CASE s.kind = "glob"
    BY <1>1, <2>3, OneFile DEF HostSourceVars, LoadGlobEntry
  <2>4. CASE s.kind \notin {"raw", "file", "glob"}
    BY <1>1, <2>4, OneBody DEF HostSourceVars, LoadListEntry
  <2> QED
    BY <2>1, <2>2, <2>3, <2>4
<1> QED
  BY <1>1 DEF HostVarsLoaded

-----------------------------------------------------------------------------
(* Containers.                                                             *)

LEMMA ListFacts ==
  ASSUME NEW l, IsList(l)
  PROVE  /\ Len(l) \in Nat /\ DOMAIN l = 1 .. Len(l) /\ l \in Seq(ToSet(l))
         /\ \A i \in DOMAIN l : l[i] \in ToSet(l)
         /\ l = <<>> <=> Len(l) = 0
BY DEF IsList, ToSet

LEMMA ResultFacts ==
  ASSUME NEW sources, NEW c \in Results(sources)
  PROVE  DOMAIN c = DOMAIN sources /\ \A i \in DOMAIN sources : c[i] \in SourceVars(sources[i])
BY DEF Results

(* What the results of all sources give.                                   *)
LEMMA ResultsGive ==
  ASSUME NEW sources, NEW c \in Results(sources)
  PROVE  UNION {DOMAIN c[i] : i \in DOMAIN c} = UNION {Given(SourceVars(s)) : s \in ToSet(sources)}
<1>1. DOMAIN c = DOMAIN sources /\ \A i \in DOMAIN sources : c[i] \in SourceVars(sources[i])
  BY ResultFacts
<1>2. \A i \in DOMAIN sources : Given(SourceVars(sources[i])) = DOMAIN c[i]
  <2> SUFFICES ASSUME NEW i \in DOMAIN sources PROVE Given(SourceVars(sources[i])) = DOMAIN c[i]
    OBVIOUS
  <2>1. c[i] \in SourceVars(sources[i])
    BY <1>1
  <2>2. \A f \in SourceVars(sources[i]) : DOMAIN f = DOMAIN c[i]
    BY <2>1, SourceGives
  <2> QED
    BY <2>1, <2>2 DEF Given
<1>3. {Given(SourceVars(s)) : s \in ToSet(sources)} = {Given(SourceVars(sources[i])) : i \in DOMAIN sources}
  BY DEF ToSet
<1>4. {Given(SourceVars(sources[i])) : i \in DOMAIN sources} = {DOMAIN c[i] : i \in DOMAIN c}
  BY <1>1, <1>2
<1> QED
  BY <1>3, <1>4

LEMMA WholeGives ==
  ASSUME NEW id, NEW f \in Whole(id), NEW g \in Whole(id)
  PROVE  DOMAIN f = DOMAIN g
<1>1. CASE FromHostSource(id)
  <2> DEFINE s == conf.hostSources[origin[id[2]]]
  <2>1. f \in HostVarsLoaded(s, id[2]) /\ g \in HostVarsLoaded(s, id[2])
    BY <1>1 DEF Whole, FromHostSource
  <2> HIDE DEF s
  <2> QED
    BY <2>1, OneHost
<1>2. CASE ~FromHostSource(id)
  <2>1. PICK c \in Results(Written(id).sources) : f = Assigned(Written(id).vars, c)
    BY <1>2 DEF Whole, FromHostSource
  <2>2. PICK d \in Results(Written(id).sources) : g = Assigned(Written(id).vars, d)
    BY <1>2 DEF Whole, FromHostSource
  <2>3. UNION {DOMAIN c[i] : i \in DOMAIN c} = UNION {DOMAIN d[i] : i \in DOMAIN d}
    BY ResultsGive
  <2> QED
    BY <2>1, <2>2, <2>3, AssignedDomain
<1> QED
  BY <1>1, <1>2

(* Nothing is asked of a container before its first source.                *)
LEMMA BeforeFacts ==
  ASSUME NEW sources, IsList(sources), NEW k \in 1 .. Len(sources) + 1,
         NEW c \in Results(Before(sources, k))
  PROVE  /\ DOMAIN c = 1 .. k - 1 /\ DOMAIN c \subseteq DOMAIN sources
         /\ \A i \in 1 .. k - 1 : c[i] \in SourceVars(sources[i])
<1>1. DOMAIN Before(sources, k) = 1 .. k - 1 /\ \A i \in 1 .. k - 1 : Before(sources, k)[i] = sources[i]
  BY DEF Before
<1>2. Len(sources) \in Nat /\ DOMAIN sources = 1 .. Len(sources)
  BY ListFacts
<1> QED
  BY <1>1, <1>2, ResultFacts

LEMMA BeforeResults ==
  ASSUME NEW sources, IsList(sources), NEW k \in 1 .. Len(sources) + 1,
         NEW c, IsMap(c), DOMAIN c = 1 .. k - 1,
         \A i \in 1 .. k - 1 : c[i] \in SourceVars(sources[i])
  PROVE  c \in Results(Before(sources, k))
<1> DEFINE b == Before(sources, k)
<1>1. DOMAIN b = 1 .. k - 1 /\ \A i \in 1 .. k - 1 : b[i] = sources[i]
  BY DEF Before
<1>2. \A i \in DOMAIN b : b[i] \in ToSet(b)
  BY DEF ToSet
<1> HIDE DEF b
<1>3. \A i \in DOMAIN b : c[i] \in SourceVars(b[i])
  BY <1>1
<1>4. \A i \in DOMAIN b : c[i] \in UNION {SourceVars(s) : s \in ToSet(b)}
  BY <1>2, <1>3
<1>5. c \in [DOMAIN b -> UNION {SourceVars(s) : s \in ToSet(b)}]
  BY <1>1, <1>4 DEF IsMap
<1> QED
  BY <1>3, <1>5 DEF Results, b

LEMMA BeforeAll ==
  ASSUME NEW sources, IsList(sources)
  PROVE  Before(sources, Len(sources) + 1) = sources
<1>1. Len(sources) \in Nat /\ sources \in Seq(ToSet(sources))
  BY ListFacts
<1>2. (Len(sources) + 1) - 1 = Len(sources)
  BY <1>1
<1> QED
  BY <1>1, <1>2 DEF Before

LEMMA MadeFirst ==
  ASSUME NEW sources, NEW f, IsList(sources)
  PROVE  Made(f, sources, 1)
<1> DEFINE c == [i \in 1 .. 0 |-> 0]
<1>1. DOMAIN c = 1 .. 1 - 1 /\ IsMap(c) /\ \A i \in 1 .. 1 - 1 : FALSE
  BY DEF IsMap
<1>2. 1 \in 1 .. Len(sources) + 1
  BY ListFacts
<1> HIDE DEF c
<1>3. c \in Results(Before(sources, 1))
  BY <1>1, <1>2, BeforeResults
<1>4. Agrees(f, c)
  BY <1>1 DEF Agrees
<1> QED
  BY <1>3, <1>4 DEF Made

(* The next source is assigned.                                            *)
LEMMA MadeNext ==
  ASSUME NEW sources, NEW f, IsList(sources), NEW k \in 1 .. Len(sources),
         Made(f, sources, k), NEW new \in SourceVars(sources[k])
  PROVE  Made(Over(new, f), sources, k + 1)
<1>1. PICK c \in Results(Before(sources, k)) : Agrees(f, c)
  BY DEF Made
<1> DEFINE d == [i \in 1 .. k |-> IF i = k THEN new ELSE c[i]]
<1>2. Len(sources) \in Nat /\ DOMAIN sources = 1 .. Len(sources)
  BY ListFacts
<1>3. k \in 1 .. Len(sources) + 1 /\ k + 1 \in 1 .. Len(sources) + 1 /\ (k + 1) - 1 = k
  BY <1>2
<1>4. DOMAIN c = 1 .. k - 1 /\ \A i \in 1 .. k - 1 : c[i] \in SourceVars(sources[i])
  BY <1>1, <1>3, BeforeFacts
<1>5. d \in Results(Before(sources, k + 1))
  <2>1. DOMAIN d = 1 .. k /\ IsMap(d)
    BY DEF IsMap
  <2>2. \A i \in 1 .. k : d[i] \in SourceVars(sources[i])
    BY <1>3, <1>4
  <2> HIDE DEF d
  <2> QED
    BY <2>1, <2>2, <1>3, BeforeResults
<1>6. Agrees(Over(new, f), d)
  <2> SUFFICES ASSUME NEW i \in DOMAIN d, NEW n \in DOMAIN d[i], IsLast(i, Giving(d, n))
               PROVE  n \in DOMAIN Over(new, f) /\ Over(new, f)[n] = d[i][n]
    BY DEF Agrees
  <2>1. CASE i = k
    <3>1. d[i] = new
      BY <2>1
    <3> HIDE DEF d
    <3> QED
      BY <3>1, OverAt
  <2>2. CASE i # k
    <3>1. i \in DOMAIN c /\ d[i] = c[i] /\ n \in DOMAIN c[i] /\ k \in DOMAIN d /\ d[k] = new
      BY <2>2, <1>4, <1>3
    <3>2. n \notin DOMAIN new
      <4> SUFFICES ASSUME n \in DOMAIN new PROVE FALSE
        OBVIOUS
      <4>1. k \in Giving(d, n)
        BY <3>1 DEF Giving
      <4>2. k <= i
        BY <4>1 DEF IsLast
      <4> QED
        BY <4>2, <2>2, <1>3
    <3>3. Giving(c, n) \subseteq Giving(d, n)
      BY <1>4, <1>3 DEF Giving
    <3>4. IsLast(i, Giving(c, n))
      BY <3>1, <3>3 DEF IsLast, Giving
    <3>5. n \in DOMAIN f /\ f[n] = c[i][n]
      BY <1>1, <3>1, <3>4 DEF Agrees
    <3> HIDE DEF d
    <3> QED
      BY <3>1, <3>2, <3>5, OverAt
  <2> QED
    BY <2>1, <2>2
<1> QED
  BY <1>5, <1>6 DEF Made

(* Another load assigns a source again: it does no harm when no two sources*)
(* give one variable.                                                      *)
LEMMA MadeAgain ==
  ASSUME NEW sources, NEW f, IsList(sources), ~SharesNames(sources),
         NEW k \in 1 .. Len(sources) + 1, Made(f, sources, k),
         NEW m \in DOMAIN sources, NEW new \in SourceVars(sources[m])
  PROVE  Made(Over(new, f), sources, k)
<1>1. PICK c \in Results(Before(sources, k)) : Agrees(f, c)
  BY DEF Made
<1>2. \A i \in DOMAIN sources : i # m =>
         \A g \in SourceVars(sources[i]) : DOMAIN g \cap DOMAIN new = {}
  <2>1. DOMAIN sources = 1 .. Len(sources) /\ Len(sources) \in Nat
    BY ListFacts
  <2> QED
    BY <2>1 DEF SharesNames
<1> DEFINE d == [i \in 1 .. k - 1 |-> IF i = m THEN new ELSE c[i]]
<1>3. /\ DOMAIN c = 1 .. k - 1 /\ DOMAIN c \subseteq DOMAIN sources
      /\ \A i \in 1 .. k - 1 : c[i] \in SourceVars(sources[i])
  BY <1>1, BeforeFacts
<1>4. d \in Results(Before(sources, k))
  <2>1. DOMAIN d = 1 .. k - 1 /\ IsMap(d)
    BY DEF IsMap
  <2>2. \A i \in 1 .. k - 1 : d[i] \in SourceVars(sources[i])
    BY <1>3
  <2> HIDE DEF d
  <2> QED
    BY <2>1, <2>2, BeforeResults
<1>5. Agrees(Over(new, f), d)
  <2> SUFFICES ASSUME NEW i \in DOMAIN d, NEW n \in DOMAIN d[i], IsLast(i, Giving(d, n))
               PROVE  n \in DOMAIN Over(new, f) /\ Over(new, f)[n] = d[i][n]
    BY DEF Agrees
  <2>1. CASE i = m
    <3>1. d[i] = new
      BY <2>1
    <3> HIDE DEF d
    <3> QED
      BY <3>1, OverAt
  <2>2. CASE i # m
    <3>1. i \in DOMAIN c /\ d[i] = c[i] /\ n \in DOMAIN c[i]
      BY <2>2, <1>3
    <3>2. n \notin DOMAIN new
      BY <3>1, <1>2, <1>3, <2>2
    <3>3. Giving(c, n) \subseteq Giving(d, n)
      <4> SUFFICES ASSUME NEW l \in Giving(c, n) PROVE l \in Giving(d, n)
        OBVIOUS
      <4>1. l \in DOMAIN c /\ n \in DOMAIN c[l]
        BY DEF Giving
      <4>2. l = i
        <5> SUFFICES ASSUME l # i PROVE FALSE
          OBVIOUS
        <5>1. i \in DOMAIN sources /\ l \in DOMAIN sources
          BY <3>1, <4>1, <1>3
        <5>2. i \in Nat /\ l \in Nat
          BY <3>1, <4>1, <1>3
        <5>3. SharesNames(sources)
          BY <5>1, <5>2, <3>1, <4>1, <1>3 DEF SharesNames
        <5> QED
          BY <5>3
      <4> QED
        BY <4>2 DEF IsLast
    <3>4. IsLast(i, Giving(c, n))
      BY <3>1, <3>3 DEF IsLast, Giving
    <3>5. n \in DOMAIN f /\ f[n] = c[i][n]
      BY <1>1, <3>1, <3>4 DEF Agrees
    <3> HIDE DEF d
    <3> QED
      BY <3>1, <3>2, <3>5, OverAt
  <2> QED
    BY <2>1, <2>2
<1> QED
  BY <1>4, <1>5 DEF Made

(* What is not given by a source stays as it is written.                   *)
LEMMA FramedWritten ==
  ASSUME NEW w, IsMap(w.vars)
  PROVE  Framed(w.vars, w)
BY DEF Framed

LEMMA FramedOver ==
  ASSUME NEW w, NEW f, Framed(f, w), NEW m \in DOMAIN w.sources,
         NEW new \in SourceVars(w.sources[m])
  PROVE  Framed(Over(new, f), w)
<1>1. DOMAIN new \subseteq AllGiven(w.sources)
  BY DEF AllGiven, Given, ToSet
<1>2. DOMAIN Over(new, f) = DOMAIN new \cup DOMAIN f /\ IsMap(Over(new, f))
  BY OverIs
<1>3. \A n \in DOMAIN w.vars \ AllGiven(w.sources) : Over(new, f)[n] = f[n]
  <2> SUFFICES ASSUME NEW n \in DOMAIN w.vars \ AllGiven(w.sources)
               PROVE  Over(new, f)[n] = f[n]
    OBVIOUS
  <2>1. n \in DOMAIN f /\ n \notin DOMAIN new
    BY <1>1 DEF Framed
  <2> QED
    BY <2>1, OverAt
<1> QED
  BY <1>1, <1>2, <1>3 DEF Framed

(* A container is whole when it has what all its sources gave.             *)
LEMMA WholeAtLast ==
  ASSUME NEW id, NEW f, ~FromHostSource(id), IsList(Written(id).sources), Framed(f, Written(id)),
         Made(f, Written(id).sources, Len(Written(id).sources) + 1)
  PROVE  f \in Whole(id)
<1> DEFINE sources == Written(id).sources
           v == Written(id).vars
<1>1. PICK c \in Results(sources) : Agrees(f, c)
  BY BeforeAll DEF Made
<1>2. UNION {DOMAIN c[i] : i \in DOMAIN c} = AllGiven(sources)
  BY ResultsGive DEF AllGiven
<1>3. Len(sources) \in Nat /\ DOMAIN c = 1 .. Len(sources)
  BY ListFacts, ResultFacts
<1>4. AllGiven(sources) \subseteq DOMAIN f
  <2> SUFFICES ASSUME NEW n \in AllGiven(sources) PROVE n \in DOMAIN f
    OBVIOUS
  <2>1. Giving(c, n) # {} /\ Giving(c, n) \subseteq 1 .. Len(sources)
    BY <1>2, <1>3 DEF Giving
  <2>2. PICK i \in Giving(c, n) : IsLast(i, Giving(c, n))
    BY <2>1, <1>3, LastOne
  <2> QED
    BY <2>2, <1>1 DEF Agrees, Giving
<1>5. DOMAIN f = DOMAIN v \cup UNION {DOMAIN c[i] : i \in DOMAIN c}
  BY <1>2, <1>4 DEF Framed
<1>6. \A n \in DOMAIN v : Giving(c, n) = {} => f[n] = v[n]
  BY <1>2 DEF Framed, Giving
<1>7. IsMap(f)
  BY DEF Framed
<1>8. f = Assigned(v, c)
  <2>1. PICK N \in Nat : DOMAIN c = 1 .. N
    BY <1>3
  <2>2. Agrees(f, c)
    BY <1>1
  <2> HIDE DEF v, sources
  <2> QED
    BY <2>1, <2>2, <1>5, <1>6, <1>7, AssignedOnly
<1> QED
  BY <1>8 DEF Whole, FromHostSource

LEMMA LastOfWhole ==
  ASSUME NEW id, ~FromHostSource(id), IsList(Written(id).sources), NEW f \in Whole(id)
  PROVE  Made(f, Written(id).sources, Len(Written(id).sources) + 1)
<1>1. PICK c \in Results(Written(id).sources) : f = Assigned(Written(id).vars, c)
  BY DEF Whole, FromHostSource
<1>2. Len(Written(id).sources) \in Nat /\ DOMAIN c = 1 .. Len(Written(id).sources)
  BY ListFacts, ResultFacts
<1>3. Agrees(f, c)
  BY <1>1, <1>2, AssignedAgrees
<1> QED
  BY <1>3, BeforeAll DEF Made

-----------------------------------------------------------------------------
(* What is written.                                                        *)

GroupIds == {GroupC(g) : g \in DOMAIN conf.groups}

LEMMA ConfFacts ==
  ASSUME StateInv
  PROVE  /\ {"groups", "hostSources", "recipe"} \subseteq DOMAIN conf
         /\ {"assets", "groupVars", "hostVars"} \subseteq DOMAIN conf.recipe
         /\ IsContainer(conf.inventory) /\ IsContainer(conf.recipe) /\ IsList(conf.recipe.load)
         /\ \A h \in DOMAIN conf.hosts : IsContainer(conf.hosts[h])
         /\ \A g \in DOMAIN conf.groups : IsContainer(conf.groups[g])
         /\ IsList(conf.order) /\ IsList(conf.hostSources)
         /\ \A h \in DOMAIN conf.related :
              conf.related[h] \in Seq(HostIds(conf)) /\ h \in ToSet(conf.related[h])
BY InventoriesAssumption DEF StateInv

LEMMA NothingFacts == IsMap(Nothing) /\ DOMAIN Nothing = {} /\ IsList(<<>>)
BY DEF Nothing, IsMap, IsList

LEMMA WrittenFacts ==
  ASSUME StateInv, NEW id \in Ids \cup GroupIds
  PROVE  IsMap(Written(id).vars) /\ IsList(Written(id).sources)
<1>1. CASE id = InventoryC
  BY <1>1, ConfFacts DEF Written, IsContainer, InventoryC
<1>2. CASE id = RecipeC
  BY <1>2, ConfFacts DEF Written, IsContainer, RecipeC
<1>3. CASE id = LoadC
  BY <1>3, ConfFacts, NothingFacts DEF Written, IsContainer, LoadC
<1>4. CASE id \in GroupIds
  <2>1. PICK g \in DOMAIN conf.groups : id = GroupC(g)
    BY <1>4 DEF GroupIds
  <2>2. Written(id) = conf.groups[g]
    BY <2>1 DEF Written, GroupC
  <2> QED
    BY <2>2, ConfFacts DEF IsContainer
<1>5. ASSUME NEW h \in HostIds(conf), id = HostC(h) PROVE IsMap(Written(id).vars) /\ IsList(Written(id).sources)
  <2>1. Written(id) = IF origin[h] = 0 THEN conf.hosts[h] ELSE NoVars
    BY <1>5 DEF Written, HostC
  <2>2. CASE origin[h] = 0
    BY <2>1, <2>2, ConfFacts DEF StateInv, Inline, IsContainer
  <2>3. CASE origin[h] # 0
    BY <2>1, <2>3, NothingFacts DEF NoVars
  <2> QED
    BY <2>2, <2>3
<1> QED
  BY <1>1, <1>2, <1>3, <1>4, <1>5 DEF Ids

LEMMA IdsApart ==
  /\ Ids \cup GroupIds = Containers(conf)
  /\ Ids \cap GroupIds = {}
  /\ \A id \in GroupIds : ~FromHostSource(id)
  /\ ~FromHostSource(LoadC) /\ LoadC \in Ids
<1>1. Ids \cup GroupIds = Containers(conf)
  BY DEF Ids, GroupIds, Containers
<1>2. Ids \cap GroupIds = {}
  <2> SUFFICES ASSUME NEW id \in Ids, NEW g \in DOMAIN conf.groups, id = GroupC(g) PROVE FALSE
    BY DEF GroupIds
  <2>1. id[1] = "group"
    BY DEF GroupC
  <2>2. id[1] \in {"inventory", "recipe", "load", "host"}
    <3>1. InventoryC[1] = "inventory" /\ RecipeC[1] = "recipe" /\ LoadC[1] = "load"
      BY DEF InventoryC, RecipeC, LoadC
    <3>2. ASSUME NEW h \in HostIds(conf), id = HostC(h) PROVE id[1] = "host"
      BY <3>2 DEF HostC
    <3> QED
      BY <3>1, <3>2 DEF Ids
  <2> QED
    BY <2>1, <2>2
<1>3. ASSUME NEW id \in GroupIds PROVE ~FromHostSource(id)
  BY DEF GroupIds, GroupC, FromHostSource
<1>4. ~FromHostSource(LoadC) /\ LoadC \in Ids
  BY DEF FromHostSource, LoadC, Ids
<1> QED
  BY <1>1, <1>2, <1>3, <1>4

(* What is written, and where hosts are from, does not change.             *)
LEMMA Rigid ==
  ASSUME conf' = conf, origin' = origin
  PROVE  /\ Ids' = Ids /\ JobStates' = JobStates /\ GroupIds' = GroupIds
         /\ \A id : Written(id)' = Written(id)
         /\ \A id : Whole(id)' = Whole(id)
         /\ \A id : FromHostSource(id)' <=> FromHostSource(id)
<1>1. Ids' = Ids /\ GroupIds' = GroupIds
  BY DEF Ids, GroupIds
<1>2. ASSUME NEW id PROVE Written(id)' = Written(id)
  BY DEF Written
<1>3. ASSUME NEW id PROVE Whole(id)' = Whole(id)
  BY <1>2 DEF Whole
<1>4. ASSUME NEW id PROVE FromHostSource(id)' <=> FromHostSource(id)
  BY DEF FromHostSource
<1>5. JobStates' = JobStates
  BY <1>1 DEF JobStates
<1> QED
  BY <1>1, <1>2, <1>3, <1>4, <1>5

-----------------------------------------------------------------------------
(* The plan of a job.                                                      *)

LEMMA PlanFacts ==
  ASSUME TypeInv, NEW j \in Jobs, job[j].plan # <<>>
  PROVE  /\ Head(job[j].plan) \in Ids /\ Tail(job[j].plan) \in Seq(Ids)
         /\ ToSet(job[j].plan) = {Head(job[j].plan)} \cup ToSet(Tail(job[j].plan))
         /\ job[j].kind \in {"config", "run"} /\ job[j].host \in DOMAIN conf.related
<1>1. job[j] \in JobStates
  BY DEF TypeInv, JobInv
<1>2. job[j].plan \in Seq(Ids)
  BY <1>1 DEF JobStates
<1> DEFINE p == job[j].plan
<1>3. Head(p) \in Ids /\ Tail(p) \in Seq(Ids) /\ Len(p) \in Nat \ {0} /\ Len(Tail(p)) = Len(p) - 1
  BY <1>2
<1>4. Head(p) = p[1] /\ \A i \in 1 .. Len(p) - 1 : Tail(p)[i] = p[i + 1]
  BY <1>2
<1>5. ToSet(p) = {p[i] : i \in 1 .. Len(p)} /\ ToSet(Tail(p)) = {Tail(p)[i] : i \in 1 .. Len(p) - 1}
  <2>1. DOMAIN p = 1 .. Len(p) /\ DOMAIN Tail(p) = 1 .. Len(p) - 1
    BY <1>2, <1>3
  <2> HIDE DEF p
  <2> QED
    BY <2>1 DEF ToSet
<1>6. ToSet(p) = {Head(p)} \cup ToSet(Tail(p))
  <2> HIDE DEF p
  <2>1. ASSUME NEW i \in 1 .. Len(p) PROVE p[i] \in {Head(p)} \cup ToSet(Tail(p))
    <3>1. CASE i = 1
      BY <3>1, <1>4
    <3>2. CASE i # 1
      <4>1. i - 1 \in 1 .. Len(p) - 1 /\ (i - 1) + 1 = i
        BY <3>2, <1>3
      <4>2. Tail(p)[i - 1] = p[i]
        BY <4>1, <1>4
      <4> QED
        BY <4>1, <4>2, <1>5
    <3> QED
      BY <3>1, <3>2
  <2>2. ASSUME NEW i \in 1 .. Len(p) - 1 PROVE Tail(p)[i] \in ToSet(p)
    <3>1. i + 1 \in 1 .. Len(p)
      BY <1>3
    <3> QED
      BY <3>1, <1>4, <1>5
  <2>3. Head(p) \in ToSet(p)
    BY <1>3, <1>4, <1>5
  <2> QED
    BY <2>1, <2>2, <2>3, <1>5
<1>7. job[j].kind \in {"config", "run"} /\ job[j].host \in DOMAIN conf.related
  BY DEF TypeInv, JobInv
<1> QED
  BY <1>3, <1>6, <1>7

LEMMA WithPlan ==
  ASSUME NEW s \in JobStates, NEW p, NEW n
  PROVE  [s EXCEPT !.plan = p, !.next = n] = [kind |-> s.kind, host |-> s.host, plan |-> p, next |-> n]
<1>1. PICK a, b, c, d : s = [kind |-> a, host |-> b, plan |-> c, next |-> d]
  BY DEF JobStates
<1>2. [s EXCEPT !.plan = p] = [kind |-> a, host |-> b, plan |-> p, next |-> d]
  BY <1>1
<1>3. [[kind |-> a, host |-> b, plan |-> p, next |-> d] EXCEPT !.next = n]
      = [kind |-> a, host |-> b, plan |-> p, next |-> n]
  OBVIOUS
<1>4. [s EXCEPT !.plan = p, !.next = n] = [[s EXCEPT !.plan = p] EXCEPT !.next = n]
  OBVIOUS
<1>5. s.kind = a /\ s.host = b
  BY <1>1
<1> QED
  BY <1>2, <1>3, <1>4, <1>5

LEMMA LoadedIs ==
  ASSUME TypeInv, NEW j \in Jobs, job[j].plan # <<>>
  PROVE  /\ Loaded(j) \in [Jobs -> JobStates]
         /\ \A k \in Jobs \ {j} : Loaded(j)[k] = job[k]
         /\ Loaded(j)[j].kind = job[j].kind /\ Loaded(j)[j].host = job[j].host
         /\ Loaded(j)[j].plan = Tail(job[j].plan) /\ Loaded(j)[j].next = 0
<1>1. job \in [Jobs -> JobStates] /\ job[j] \in JobStates
  BY DEF TypeInv, JobInv
<1>2. Tail(job[j].plan) \in Seq(Ids)
  BY PlanFacts
<1>3. Loaded(j) = [job EXCEPT ![j] = [job[j] EXCEPT !.plan = Tail(job[j].plan), !.next = 0]]
  BY <1>1 DEF Loaded, JobStates
<1>4. [job[j] EXCEPT !.plan = Tail(job[j].plan), !.next = 0]
        = [kind |-> job[j].kind, host |-> job[j].host, plan |-> Tail(job[j].plan), next |-> 0]
  BY <1>1, WithPlan
<1>5. [kind |-> job[j].kind, host |-> job[j].host, plan |-> Tail(job[j].plan), next |-> 0] \in JobStates
  BY <1>1, <1>2 DEF JobStates
<1> QED
  BY <1>1, <1>3, <1>4, <1>5

LEMMA NextIs ==
  ASSUME TypeInv, NEW j \in Jobs, NEW n \in Nat
  PROVE  LET new == [job EXCEPT ![j].next = n] IN
         /\ new \in [Jobs -> JobStates]
         /\ \A k \in Jobs \ {j} : new[k] = job[k]
         /\ new[j].kind = job[j].kind /\ new[j].host = job[j].host
         /\ new[j].plan = job[j].plan /\ new[j].next = n
<1>1. job \in [Jobs -> JobStates] /\ job[j] \in JobStates
  BY DEF TypeInv, JobInv
<1>2. [job EXCEPT ![j].next = n]
      = [job EXCEPT ![j] = [kind |-> job[j].kind, host |-> job[j].host, plan |-> job[j].plan, next |-> n]]
  <2>1. PICK a, b, c, d : job[j] = [kind |-> a, host |-> b, plan |-> c, next |-> d]
    BY <1>1 DEF JobStates
  <2>2. [job[j] EXCEPT !.next = n]
        = [kind |-> job[j].kind, host |-> job[j].host, plan |-> job[j].plan, next |-> n]
    BY <2>1
  <2>3. [job EXCEPT ![j].next = n] = [job EXCEPT ![j] = [job[j] EXCEPT !.next = n]]
    BY <1>1
  <2> QED
    BY <2>2, <2>3
<1>3. [kind |-> job[j].kind, host |-> job[j].host, plan |-> job[j].plan, next |-> n] \in JobStates
  BY <1>1 DEF JobStates
<1> QED
  BY <1>1, <1>2, <1>3

-----------------------------------------------------------------------------
(* The invariant holds in the beginning.                                   *)

LEMMA InitInv ==
  ASSUME Init
  PROVE  Inv
<1>1. StateInv
  <2>1. \A h \in HostIds(conf) : origin[h] = 0 => h \in Inline(conf)
    BY DEF Init, HostIds
  <2>2. LoadC \notin {} /\ IsMap(held) /\ DOMAIN held = Containers(conf)
    BY DEF Init, IsMap
  <2>3. IsMap(answer) /\ DOMAIN answer = Jobs /\ IsMap(start) /\ DOMAIN start = Jobs
    BY DEF Init, IsMap
  <2> QED
    BY <2>1, <2>2, <2>3 DEF StateInv, Init
<1>2. \A j \in Jobs : job[j] = NoJob
  BY DEF Init
<1>3. NoJob \in JobStates /\ NoJob.plan = <<>> /\ NoJob.next = 0 /\ NoJob.kind = "none"
  BY DEF NoJob, JobStates
<1>4. JobInv
  BY <1>2, <1>3 DEF JobInv, Init
<1>5. ModeInv
  BY <1>2, <1>3 DEF ModeInv, Init
<1>6. FrameInv
  <2> SUFFICES ASSUME NEW id \in Ids PROVE Framed(held[id], Written(id))
    BY DEF FrameInv
  <2>1. held[id] = Written(id).vars
    BY IdsApart DEF Init
  <2>2. IsMap(Written(id).vars)
    BY <1>1, WrittenFacts
  <2> QED
    BY <2>1, <2>2, FramedWritten
<1>7. \A j \in Jobs : \A id : ~Filling(j, id)
  BY <1>2, <1>3 DEF Filling, Loading
<1>8. FillInv /\ EnteredInv
  BY <1>7 DEF FillInv, EnteredInv
<1>9. CachedInv /\ GroupsInv /\ PlanInv /\ RunInv
  BY <1>2, <1>3 DEF CachedInv, GroupsInv, PlanInv, RunInv, Init
<1> QED
  BY <1>1, <1>4, <1>5, <1>6, <1>8, <1>9 DEF Inv, TypeInv

-----------------------------------------------------------------------------
(* Steps that leave the objects as they are.                               *)

LEMMA KeepsHeld ==
  ASSUME Inv, conf' = conf, origin' = origin, held' = held, cached' = cached,
         entered \subseteq entered', mode' \in {mode, "down"}
  PROVE  FrameInv' /\ CachedInv' /\ GroupsInv'
<1>1. FrameInv'
  BY Rigid DEF Inv, FrameInv
<1>2. ASSUME NEW id, Mixed(id) PROVE Mixed(id)'
  BY <1>2, Rigid DEF Mixed
<1>3. CachedInv'
  BY <1>2, Rigid DEF Inv, CachedInv
<1>4. GroupsInv'
  BY Rigid DEF Inv, GroupsInv
<1> QED
  BY <1>1, <1>3, <1>4

(* A job that fills nothing after the step.                                *)
LEMMA KeepsFilling ==
  ASSUME Inv, conf' = conf, origin' = origin, held' = held, cached' = cached,
         entered \subseteq entered', NEW j \in Jobs, job'[j].next = 0,
         \A k \in Jobs \ {j} : job'[k] = job[k]
  PROVE  FillInv' /\ EnteredInv'
<1>1. ASSUME NEW k \in Jobs, NEW id PROVE Filling(k, id)' <=> k # j /\ Filling(k, id)
  BY DEF Filling, Loading
<1>2. ASSUME NEW id, Mixed(id) PROVE Mixed(id)'
  BY <1>2, Rigid DEF Mixed
<1>3. FillInv'
  <2> SUFFICES ASSUME NEW k \in Jobs, NEW id \in Ids, Filling(k, id)', ~FromHostSource(id)
               PROVE  /\ job'[k].next <= Len(Written(id).sources) \/ job'[k].next = 1
                      /\ Mixed(id)' \/ Made(held'[id], Written(id).sources, job'[k].next)
    BY Rigid DEF FillInv
  <2>1. k # j /\ Filling(k, id) /\ job'[k] = job[k]
    BY <1>1
  <2> QED
    BY <2>1, <1>2 DEF Inv, FillInv
<1>4. EnteredInv'
  BY <1>1, Rigid DEF Inv, EnteredInv
<1> QED
  BY <1>3, <1>4

(* Jobs that the step leaves alone keep to their plans.                    *)
LEMMA KeepsPlans ==
  ASSUME Inv, conf' = conf, origin' = origin, cached \subseteq cached', NEW j \in Jobs,
         \A k \in Jobs \ {j} : job'[k] = job[k],
         job'[j].kind = "config" =>
           \A h \in ToSet(conf.related[job'[j].host]) : HostC(h) \in ToSet(job'[j].plan) \cup cached'
  PROVE  PlanInv'
<1> SUFFICES ASSUME NEW k \in Jobs, job'[k].kind = "config",
                    NEW h \in ToSet(conf.related[job'[k].host])
             PROVE  HostC(h) \in ToSet(job'[k].plan) \cup cached'
  BY DEF PlanInv, HostC
<1>1. CASE k = j
  BY <1>1
<1>2. CASE k # j
  BY <1>2 DEF Inv, PlanInv
<1> QED
  BY <1>1, <1>2

LEMMA KeepsRuns ==
  ASSUME Inv, conf' = conf, origin' = origin, NEW j \in Jobs,
         \A k \in Jobs \ {j} : job'[k] = job[k],
         \A k \in Jobs \ {j} : job[k].kind = "run" => held' = held,
         job'[j].kind = "run" =>
           \A id \in Needed(job'[j].host) : id \in ToSet(job'[j].plan) \/ held'[id] \in Whole(id)
  PROVE  RunInv'
<1> SUFFICES ASSUME NEW k \in Jobs, job'[k].kind = "run", NEW id \in Needed(job'[k].host)
             PROVE  id \in ToSet(job'[k].plan) \/ held'[id] \in Whole(id)
  BY Rigid DEF RunInv, Needed
<1>1. CASE k = j
  BY <1>1
<1>2. CASE k # j
  BY <1>2 DEF Inv, RunInv
<1> QED
  BY <1>1, <1>2

LEMMA ToSetConcat ==
  ASSUME NEW S, NEW a \in Seq(S), NEW b \in Seq(S)
  PROVE  a \o b \in Seq(S) /\ ToSet(a) \cup ToSet(b) \subseteq ToSet(a \o b)
<1>1. a \o b \in Seq(S) /\ Len(a \o b) = Len(a) + Len(b) /\ Len(a) \in Nat /\ Len(b) \in Nat
  OBVIOUS
<1>2. /\ \A i \in 1 .. Len(a) : (a \o b)[i] = a[i]
      /\ \A i \in 1 .. Len(b) : (a \o b)[Len(a) + i] = b[i]
  OBVIOUS
<1>3. DOMAIN a = 1 .. Len(a) /\ DOMAIN b = 1 .. Len(b) /\ DOMAIN (a \o b) = 1 .. Len(a) + Len(b)
  BY <1>1
<1>4. ASSUME NEW i \in 1 .. Len(a) PROVE a[i] \in ToSet(a \o b)
  <2>1. i \in 1 .. Len(a) + Len(b)
    BY <1>1
  <2> QED
    BY <2>1, <1>2, <1>3 DEF ToSet
<1>5. ASSUME NEW i \in 1 .. Len(b) PROVE b[i] \in ToSet(a \o b)
  <2>1. Len(a) + i \in 1 .. Len(a) + Len(b)
    BY <1>1
  <2> QED
    BY <2>1, <1>2, <1>3 DEF ToSet
<1> QED
  BY <1>1, <1>3, <1>4, <1>5 DEF ToSet

(* The hosts at the beginning of a plan.                                   *)
HostPlan(h) == [i \in 1 .. Len(conf.related[h]) |-> HostC(conf.related[h][i])]
LEMMA HostPlanFacts ==
  ASSUME StateInv, NEW h \in DOMAIN conf.related
  PROVE  /\ HostPlan(h) \in Seq(Ids)
         /\ \A k \in ToSet(conf.related[h]) : HostC(k) \in ToSet(HostPlan(h))
         /\ HostC(h) \in ToSet(HostPlan(h))
<1> DEFINE r == conf.related[h]
<1>1. r \in Seq(HostIds(conf)) /\ h \in ToSet(r)
  BY ConfFacts
<1>2. Len(r) \in Nat /\ DOMAIN r = 1 .. Len(r) /\ \A i \in 1 .. Len(r) : r[i] \in HostIds(conf)
  BY <1>1
<1>3. DOMAIN HostPlan(h) = 1 .. Len(r) /\ \A i \in 1 .. Len(r) : HostPlan(h)[i] = HostC(r[i])
  BY DEF HostPlan
<1>4. \A i \in 1 .. Len(r) : HostPlan(h)[i] \in Ids
  BY <1>2, <1>3 DEF Ids
<1>5. HostPlan(h) \in Seq(Ids)
  <2>1. PICK n \in Nat : n = Len(r)
    BY <1>2
  <2>2. HostPlan(h) = [i \in 1 .. n |-> HostC(r[i])] /\ \A i \in 1 .. n : HostC(r[i]) \in Ids
    BY <2>1, <1>3, <1>4 DEF HostPlan
  <2> HIDE DEF r
  <2> QED
    BY <2>2
<1> HIDE DEF r
<1>6. ASSUME NEW k \in ToSet(r) PROVE HostC(k) \in ToSet(HostPlan(h))
  BY <1>2, <1>3, <1>6 DEF ToSet
<1> QED
  BY <1>1, <1>5, <1>6 DEF r

-----------------------------------------------------------------------------
(* The steps.                                                              *)

LEMMA NobodyRuns ==
  ASSUME TypeInv, ModeInv, mode \in {"starting", "down"}
  PROVE  \A j \in Jobs : job[j].kind = "none" /\ job[j].plan = <<>> /\ job[j].next = 0
<1> SUFFICES ASSUME NEW j \in Jobs
             PROVE  job[j].kind = "none" /\ job[j].plan = <<>> /\ job[j].next = 0
  OBVIOUS
<1>1. job[j] \in JobStates
  BY DEF TypeInv, JobInv
<1>2. job[j].kind \in {"none", "config", "answered", "run", "ran"}
  BY <1>1 DEF JobStates
<1> QED
  BY <1>2 DEF TypeInv, JobInv, ModeInv

LEMMA StartsInv ==
  ASSUME Inv, LoadStubsAndGroups
  PROVE  Inv'
<1>1. conf' = conf /\ origin' = origin /\ job' = job /\ entered' = entered /\ mode = "starting"
  BY DEF LoadStubsAndGroups
<1>2. \A j \in Jobs : job[j].kind = "none" /\ job[j].plan = <<>> /\ job[j].next = 0
  BY <1>1, NobodyRuns DEF Inv
<1>3. entered = {}
  BY <1>1 DEF Inv, ModeInv
<1>4. mode' \in {"down", "provider", "local"}
  BY DEF LoadStubsAndGroups
<1>5. /\ IsMap(held') /\ DOMAIN held' = Containers(conf)
      /\ cached' \subseteq cached \cup GroupIds
      /\ \A id \in Ids : held'[id] = held[id]
      /\ mode' \in {"provider", "local"} => \A id \in GroupIds : held'[id] \in Whole(id)
  <2>1. CASE mode' = "down" /\ UNCHANGED <<held, cached>>
    BY <2>1 DEF Inv, TypeInv, StateInv
  <2>2. CASE ~(mode' = "down" /\ UNCHANGED <<held, cached>>)
    <3>1. PICK loaded \in [GroupIds -> UNION {Whole(id) : id \in GroupIds}] :
            (\A id \in GroupIds : loaded[id] \in Whole(id)) /\ held' = Over(loaded, held)
      BY <2>2 DEF GroupIds, LoadStubsAndGroups
    <3>2. cached' = cached \cup GroupIds
      BY <2>2 DEF GroupIds, LoadStubsAndGroups
    <3>3. DOMAIN loaded = GroupIds
      BY <3>1
    <3>4. DOMAIN held' = Containers(conf) /\ IsMap(held')
      <4>1. DOMAIN held = Containers(conf) /\ GroupIds \subseteq Containers(conf)
        BY IdsApart DEF Inv, TypeInv, StateInv
      <4>2. DOMAIN Over(loaded, held) = GroupIds \cup Containers(conf) /\ IsMap(Over(loaded, held))
        BY <3>3, <4>1, OverIs
      <4> QED
        BY <3>1, <4>1, <4>2
    <3>5. ASSUME NEW id \in Ids PROVE held'[id] = held[id]
      <4>1. id \in DOMAIN held \ DOMAIN loaded
        BY <3>3, IdsApart DEF Inv, TypeInv, StateInv
      <4> QED
        BY <4>1, <3>1, OverAt
    <3>6. ASSUME NEW id \in GroupIds PROVE held'[id] \in Whole(id)
      BY <3>1, <3>3, OverAt
    <3> QED
      BY <3>2, <3>4, <3>5, <3>6
  <2> QED
    BY <2>1, <2>2
<1>6. StateInv'
  <2>1. cached' \subseteq Containers(conf) \ {LoadC}
    BY <1>5, IdsApart DEF Inv, TypeInv, StateInv
  <2>2. IsMap(answer)' /\ (DOMAIN answer = Jobs)' /\ IsMap(start)' /\ (DOMAIN start = Jobs)' /\ faults' \in Nat
    BY DEF LoadStubsAndGroups, Inv, TypeInv, StateInv
  <2> QED
    BY <1>1, <1>4, <1>5, <2>1, <2>2 DEF Inv, TypeInv, StateInv
<1>7. JobInv'
  BY <1>1, Rigid DEF Inv, TypeInv, JobInv
<1>8. ModeInv'
  BY <1>1, <1>2, <1>3 DEF ModeInv
<1>9. FrameInv'
  BY <1>1, <1>5, Rigid DEF Inv, FrameInv
<1>10. \A j \in Jobs : \A id : ~Filling(j, id)'
  BY <1>1, <1>2 DEF Filling, Loading
<1>11. FillInv' /\ EnteredInv'
  BY <1>10 DEF FillInv, EnteredInv
<1>12. CachedInv'
  <2> SUFFICES ASSUME NEW id \in cached' \cap Ids PROVE held'[id] \in Whole(id)
    BY <1>1, Rigid DEF CachedInv
  <2>1. id \in cached \cap Ids
    BY <1>5, IdsApart
  <2> QED
    BY <2>1, <1>3, <1>5 DEF Inv, CachedInv, Mixed
<1>13. GroupsInv'
  <2> SUFFICES ASSUME mode' \in {"provider", "local"}, NEW g \in DOMAIN conf.groups
               PROVE  held'[GroupC(g)] \in Whole(GroupC(g))
    BY <1>1, Rigid DEF GroupsInv, GroupC
  <2> QED
    BY <1>5 DEF GroupIds
<1>14. PlanInv' /\ RunInv'
  BY <1>1, <1>2 DEF PlanInv, RunInv
<1> QED
  BY <1>6, <1>7, <1>8, <1>9, <1>11, <1>12, <1>13, <1>14 DEF Inv, TypeInv

(* Steps of a job that change that job and what is known of it.            *)
LEMMA JobStepInv ==
  ASSUME Inv, conf' = conf, origin' = origin, held' = held, cached' = cached, entered' = entered,
         mode' \in {mode, "down"}, faults' \in Nat,
         IsMap(answer'), DOMAIN answer' = Jobs, IsMap(start'), DOMAIN start' = Jobs,
         NEW j \in Jobs, job' \in [Jobs -> JobStates], \A k \in Jobs \ {j} : job'[k] = job[k],
         job'[j].next = 0, job'[j].kind # "none" => job'[j].host \in DOMAIN conf.related,
         job'[j].kind \notin {"config", "run"} => job'[j].plan = <<>>,
         ModeInv', PlanInv', RunInv'
  PROVE  Inv'
<1>1. StateInv'
  BY DEF Inv, TypeInv, StateInv
<1>2. JobInv'
  <2>1. job' \in [Jobs -> JobStates']
    BY Rigid
  <2> SUFFICES ASSUME NEW k \in Jobs
               PROVE  /\ job'[k].kind # "none" => job'[k].host \in DOMAIN conf.related
                      /\ job'[k].kind \notin {"config", "run"} => job'[k].plan = <<>>
                      /\ job'[k].plan = <<>> => job'[k].next = 0
    BY <2>1 DEF JobInv
  <2>2. CASE k = j
    BY <2>2
  <2>3. CASE k # j
    BY <2>3 DEF Inv, TypeInv, JobInv
  <2> QED
    BY <2>2, <2>3
<1>3. FrameInv' /\ CachedInv' /\ GroupsInv'
  BY KeepsHeld
<1>4. FillInv' /\ EnteredInv'
  BY KeepsFilling
<1> QED
  BY <1>1, <1>2, <1>3, <1>4 DEF Inv, TypeInv

LEMMA JobIs ==
  ASSUME TypeInv, NEW j \in Jobs
  PROVE  /\ job[j] \in JobStates /\ job \in [Jobs -> JobStates]
         /\ job[j].kind \in {"none", "config", "answered", "run", "ran"}
         /\ job[j].host \in DOMAIN conf.related \cup {"none"}
         /\ job[j].plan \in Seq(Ids) /\ job[j].next \in Nat
<1>1. job[j] \in JobStates /\ job \in [Jobs -> JobStates]
  BY DEF TypeInv, JobInv
<1> QED
  BY <1>1 DEF JobStates

LEMMA RequestInv ==
  ASSUME Inv, NEW j \in Jobs, NEW h \in DOMAIN conf.related, Request(j, h)
  PROVE  Inv'
<1> DEFINE new == [kind |-> "config", host |-> h, next |-> 0, plan |-> HostPlan(h)]
<1>1. /\ mode = "provider" /\ mode' = mode /\ conf' = conf /\ origin' = origin /\ held' = held
      /\ cached' = cached /\ entered' = entered /\ answer' = answer /\ start' = start /\ faults' = faults
  BY DEF Request
<1>2. job' = [job EXCEPT ![j] = new]
  BY DEF Request, HostPlan
<1>3. HostPlan(h) \in Seq(Ids) /\ \A k \in ToSet(conf.related[h]) : HostC(k) \in ToSet(HostPlan(h))
  BY HostPlanFacts DEF Inv, TypeInv
<1>4. new \in JobStates
  BY <1>3 DEF JobStates
<1>5. /\ job' \in [Jobs -> JobStates] /\ \A k \in Jobs \ {j} : job'[k] = job[k]
      /\ job'[j].kind = "config" /\ job'[j].host = h /\ job'[j].next = 0 /\ job'[j].plan = HostPlan(h)
  BY <1>2, <1>4, JobIs DEF Inv
<1>6. ModeInv'
  BY <1>1, <1>5 DEF Inv, ModeInv
<1>7. PlanInv'
  BY <1>1, <1>3, <1>5, KeepsPlans
<1>8. RunInv'
  BY <1>1, <1>5, KeepsRuns
<1>9. /\ mode' \in {mode, "down"} /\ faults' \in Nat
      /\ IsMap(answer') /\ DOMAIN answer' = Jobs /\ IsMap(start') /\ DOMAIN start' = Jobs
  BY <1>1 DEF Inv, TypeInv, StateInv
<1> QED
  BY <1>1, <1>5, <1>6, <1>7, <1>8, <1>9, JobStepInv

LEMMA RunIsInv ==
  ASSUME Inv, NEW j \in Jobs, NEW h \in DOMAIN conf.related, Run(j, h)
  PROVE  Inv'
<1> DEFINE rest == <<InventoryC, RecipeC, LoadC>>
           plan == HostPlan(h) \o rest
           new == [kind |-> "run", host |-> h, next |-> 0, plan |-> plan]
<1>1. /\ mode = "local" /\ mode' = mode /\ conf' = conf /\ origin' = origin /\ held' = held
      /\ cached' = cached /\ entered' = entered /\ answer' = answer /\ start' = start /\ faults' = faults
      /\ \A k \in Jobs : job[k].kind = "none"
  BY DEF Run
<1>2. job' = [job EXCEPT ![j] = new]
  BY DEF Run, HostPlan
<1>3. HostPlan(h) \in Seq(Ids) /\ HostC(h) \in ToSet(HostPlan(h))
  BY HostPlanFacts DEF Inv, TypeInv
<1>4. rest \in Seq(Ids) /\ {InventoryC, RecipeC, LoadC} \subseteq ToSet(rest)
  <2>1. {InventoryC, RecipeC, LoadC} \subseteq Ids
    BY DEF Ids
  <2>2. DOMAIN rest = 1 .. 3 /\ rest[1] = InventoryC /\ rest[2] = RecipeC /\ rest[3] = LoadC
    OBVIOUS
  <2>3. rest \in Seq(Ids)
    BY <2>1
  <2> HIDE DEF rest
  <2>4. rest[1] \in ToSet(rest) /\ rest[2] \in ToSet(rest) /\ rest[3] \in ToSet(rest)
    BY <2>2 DEF ToSet
  <2> QED
    BY <2>2, <2>3, <2>4
<1> HIDE DEF rest
<1>5. plan \in Seq(Ids) /\ Needed(h) \subseteq ToSet(plan)
  BY <1>3, <1>4, ToSetConcat DEF Needed
<1> HIDE DEF plan
<1>6. new \in JobStates
  BY <1>5 DEF JobStates
<1>7. /\ job' \in [Jobs -> JobStates] /\ \A k \in Jobs \ {j} : job'[k] = job[k]
      /\ job'[j].kind = "run" /\ job'[j].host = h /\ job'[j].next = 0 /\ job'[j].plan = plan
  BY <1>2, <1>6, JobIs DEF Inv
<1>8. ModeInv'
  BY <1>1, <1>7 DEF Inv, ModeInv
<1>9. PlanInv'
  BY <1>1, <1>7, KeepsPlans
<1>10. RunInv'
  BY <1>1, <1>5, <1>7, KeepsRuns
<1>11. /\ mode' \in {mode, "down"} /\ faults' \in Nat
       /\ IsMap(answer') /\ DOMAIN answer' = Jobs /\ IsMap(start') /\ DOMAIN start' = Jobs
  BY <1>1 DEF Inv, TypeInv, StateInv
<1> QED
  BY <1>1, <1>7, <1>8, <1>9, <1>10, <1>11, JobStepInv

LEMMA FailInv ==
  ASSUME Inv, NEW j \in Jobs, LoadFails(j)
  PROVE  Inv'
<1>1. /\ conf' = conf /\ origin' = origin /\ held' = held /\ cached' = cached /\ entered' = entered
      /\ answer' = answer /\ start' = start /\ faults' \in {faults, faults + 1}
      /\ mode' = IF mode = "local" THEN "down" ELSE mode
      /\ job[j].plan # <<>> /\ job' = [job EXCEPT ![j] = NoJob]
  BY DEF LoadFails
<1>2. NoJob \in JobStates /\ NoJob.plan = <<>> /\ NoJob.next = 0 /\ NoJob.kind = "none"
  BY DEF NoJob, JobStates
<1>4. ModeInv'
  <2>1. job[j].kind \in {"config", "run"}
    BY <1>1, PlanFacts DEF Inv
  <2>2. job'[j].kind = "none" /\ \A k \in Jobs : job'[k].kind \in {"none", job[k].kind}
    BY <1>1, <1>2, JobIs DEF Inv
  <2>3. \A k \in Jobs : mode = "local" => job'[k].kind = "none"
    <3> SUFFICES ASSUME NEW k \in Jobs, mode = "local", k # j PROVE job[k].kind = "none"
      BY <2>2
    <3> QED
      BY <2>1 DEF Inv, ModeInv
  <2> QED
    BY <1>1, <2>2, <2>3 DEF Inv, ModeInv
<1>5. job'[j].kind = "none" /\ job'[j].next = 0 /\ job'[j].plan = <<>>
  BY <1>1, <1>2, JobIs DEF Inv
<1>6. \A k \in Jobs \ {j} : job'[k] = job[k]
  BY <1>1
<1>7. PlanInv'
  BY <1>1, <1>5, <1>6, KeepsPlans
<1>8. RunInv'
  BY <1>1, <1>5, <1>6, KeepsRuns
<1>9. /\ mode' \in {mode, "down"} /\ faults' \in Nat
      /\ IsMap(answer') /\ DOMAIN answer' = Jobs /\ IsMap(start') /\ DOMAIN start' = Jobs
  BY <1>1 DEF Inv, TypeInv, StateInv
<1>10. job' \in [Jobs -> JobStates]
  BY <1>1, <1>2, JobIs DEF Inv
<1> QED
  BY <1>1, <1>4, <1>5, <1>6, <1>7, <1>8, <1>9, <1>10, JobStepInv

LEMMA KindIs ==
  ASSUME TypeInv, NEW j \in Jobs, NEW kind \in {"none", "config", "answered", "run", "ran"}
  PROVE  LET new == [job EXCEPT ![j].kind = kind] IN
         /\ new \in [Jobs -> JobStates]
         /\ \A k \in Jobs \ {j} : new[k] = job[k]
         /\ new[j].kind = kind /\ new[j].host = job[j].host
         /\ new[j].plan = job[j].plan /\ new[j].next = job[j].next
<1>1. job \in [Jobs -> JobStates] /\ job[j] \in JobStates
  BY JobIs
<1>2. PICK a, b, c, d : job[j] = [kind |-> a, host |-> b, plan |-> c, next |-> d]
  BY <1>1 DEF JobStates
<1>3. [job[j] EXCEPT !.kind = kind] = [kind |-> kind, host |-> b, plan |-> c, next |-> d]
  BY <1>2
<1>4. [job EXCEPT ![j].kind = kind] = [job EXCEPT ![j] = [job[j] EXCEPT !.kind = kind]]
  BY <1>1
<1>5. [kind |-> kind, host |-> b, plan |-> c, next |-> d] \in JobStates
  BY <1>1, <1>2 DEF JobStates
<1> QED
  BY <1>1, <1>2, <1>3, <1>4, <1>5

(* The last step of a job.                                                 *)
LEMMA EndsInv ==
  ASSUME Inv, NEW j \in Jobs, Answer(j) \/ RunTasks(j)
  PROVE  Inv'
<1>1. /\ conf' = conf /\ origin' = origin /\ held' = held /\ cached' = cached /\ entered' = entered
      /\ faults' = faults /\ mode' = mode /\ job[j].plan = <<>>
  BY DEF Answer, RunTasks
<1>2. /\ IsMap(answer') /\ DOMAIN answer' = Jobs /\ IsMap(start') /\ DOMAIN start' = Jobs
  BY DEF Answer, RunTasks, Inv, TypeInv, StateInv, IsMap
<1>3. \/ job[j].kind = "config" /\ job' = [job EXCEPT ![j].kind = "answered"]
      \/ job[j].kind = "run" /\ job' = [job EXCEPT ![j].kind = "ran"]
  BY DEF Answer, RunTasks
<1>4. /\ job' \in [Jobs -> JobStates] /\ \A k \in Jobs \ {j} : job'[k] = job[k]
      /\ job'[j].host = job[j].host /\ job'[j].plan = <<>> /\ job'[j].next = job[j].next
      /\ \/ job[j].kind = "config" /\ job'[j].kind = "answered"
         \/ job[j].kind = "run" /\ job'[j].kind = "ran"
  <2>1. TypeInv
    BY DEF Inv
  <2>2. CASE job[j].kind = "config" /\ job' = [job EXCEPT ![j].kind = "answered"]
    BY <2>1, <2>2, <1>1, KindIs
  <2>3. CASE job[j].kind = "run" /\ job' = [job EXCEPT ![j].kind = "ran"]
    BY <2>1, <2>3, <1>1, KindIs
  <2> QED
    BY <2>2, <2>3, <1>3
<1>5. job'[j].next = 0 /\ job'[j].host \in DOMAIN conf.related
  BY <1>1, <1>4 DEF Inv, TypeInv, JobInv
<1>6. ModeInv'
  BY <1>1, <1>4 DEF Inv, ModeInv
<1>7. PlanInv'
  BY <1>1, <1>4, KeepsPlans
<1>8. RunInv'
  BY <1>1, <1>4, KeepsRuns
<1>9. mode' \in {mode, "down"} /\ faults' \in Nat
  BY <1>1 DEF Inv, TypeInv, StateInv
<1>10. job'[j].kind \notin {"config", "run"} => job'[j].plan = <<>>
  BY <1>4
<1> QED
  BY <1>1, <1>2, <1>4, <1>5, <1>6, <1>7, <1>8, <1>9, <1>10, JobStepInv

(* What a container needs when it is done with.                            *)
LEMMA NotMixed ==
  ASSUME Inv, NEW j \in Jobs, job[j].kind = "run", NEW id
  PROVE  ~Mixed(id) /\ id \notin entered /\ \A k \in Jobs \ {j} : job[k].kind = "none" /\ job[k].plan = <<>>
<1>1. mode = "local"
  BY DEF Inv, ModeInv
<1>2. entered = {} /\ \A k \in Jobs \ {j} : job[k].kind = "none"
  BY <1>1 DEF Inv, ModeInv
<1>3. \A k \in Jobs \ {j} : job[k].plan = <<>>
  BY <1>2 DEF Inv, TypeInv, JobInv
<1> QED
  BY <1>2, <1>3 DEF Mixed

(* A container is done with: it is in the cache, or its objects are whole. *)
LEMMA DonePlan ==
  ASSUME Inv, conf' = conf, origin' = origin, NEW j \in Jobs, job[j].plan # <<>>,
         NEW id, id = Head(job[j].plan), job' = Loaded(j),
         cached \subseteq cached', id \in cached' \cup {LoadC} \/ job[j].kind = "run",
         job[j].kind = "run" =>
           /\ held'[id] \in Whole(id)
           /\ \A other \in Ids : other # id => held'[other] = held[other],
         \A k \in Jobs \ {j} : job[k].kind = "run" => held' = held
  PROVE  PlanInv' /\ RunInv'
<1>1. ToSet(job[j].plan) = {id} \cup ToSet(Tail(job[j].plan)) /\ job[j].host \in DOMAIN conf.related
  BY PlanFacts DEF Inv
<1>2. /\ \A k \in Jobs \ {j} : job'[k] = job[k]
      /\ job'[j].kind = job[j].kind /\ job'[j].host = job[j].host /\ job'[j].plan = Tail(job[j].plan)
  BY LoadedIs DEF Inv
<1>3. PlanInv'
  <2>1. ASSUME job'[j].kind = "config", NEW h \in ToSet(conf.related[job'[j].host])
        PROVE  HostC(h) \in ToSet(job'[j].plan) \cup cached'
    <3>1. HostC(h) \in ToSet(job[j].plan) \cup cached
      BY <2>1, <1>2 DEF Inv, PlanInv
    <3>2. HostC(h) # LoadC
      BY DEF HostC, LoadC
    <3> QED
      BY <3>1, <3>2, <2>1, <1>1, <1>2
  <2> QED
    BY <2>1, <1>2, KeepsPlans
<1>4. RunInv'
  <2>1. ASSUME job'[j].kind = "run", NEW other \in Needed(job'[j].host)
        PROVE  other \in ToSet(job'[j].plan) \/ held'[other] \in Whole(other)
    <3>1. other \in ToSet(job[j].plan) \/ held[other] \in Whole(other)
      BY <2>1, <1>2 DEF Inv, RunInv
    <3>2. other \in Ids
      <4>1. conf.related[job[j].host] \in Seq(HostIds(conf)) /\ job[j].host \in ToSet(conf.related[job[j].host])
        BY <1>1, ConfFacts DEF Inv, TypeInv
      <4>2. job[j].host \in HostIds(conf)
        BY <4>1 DEF ToSet
      <4> QED
        BY <4>2, <1>2, <2>1 DEF Needed, Ids
    <3> QED
      BY <3>1, <3>2, <2>1, <1>1, <1>2
  <2> QED
    BY <2>1, <1>2, KeepsRuns
<1> QED
  BY <1>3, <1>4

LEMMA EnterInv ==
  ASSUME Inv, NEW j \in Jobs, Enter(j)
  PROVE  Inv'
<1>1. PICK id \in Containers(conf) :
        /\ Loading(j, id) /\ job[j].next = 0
        /\ job' = IF id \in cached THEN Loaded(j) ELSE [job EXCEPT ![j].next = 1]
        /\ entered' = IF id \notin cached /\ \E k \in Jobs \ {j} : Filling(k, id)
                      THEN entered \cup {id} ELSE entered
  BY DEF Enter
<1>2. /\ conf' = conf /\ origin' = origin /\ held' = held /\ cached' = cached /\ mode' = mode
      /\ answer' = answer /\ start' = start /\ faults' = faults
  BY DEF Enter
<1>3. job[j].plan # <<>> /\ id = Head(job[j].plan) /\ id \in Ids /\ job[j].kind \in {"config", "run"}
  BY <1>1, PlanFacts DEF Inv, Loading
<1>4. /\ mode' \in {mode, "down"} /\ faults' \in Nat
      /\ IsMap(answer') /\ DOMAIN answer' = Jobs /\ IsMap(start') /\ DOMAIN start' = Jobs
  BY <1>2 DEF Inv, TypeInv, StateInv
<1>5. job[j].host \in DOMAIN conf.related
  BY <1>3, PlanFacts DEF Inv
<1>6. CASE id \in cached
  <2>1. job' = Loaded(j) /\ entered' = entered
    BY <1>1, <1>6
  <2>2. /\ job' \in [Jobs -> JobStates] /\ \A k \in Jobs \ {j} : job'[k] = job[k]
        /\ job'[j].kind = job[j].kind /\ job'[j].host = job[j].host /\ job'[j].next = 0
    BY <2>1, <1>3, LoadedIs DEF Inv
  <2>3. job[j].kind = "run" => held'[id] \in Whole(id)
    BY <1>2, <1>3, <1>6, NotMixed DEF Inv, CachedInv
  <2>4. PlanInv' /\ RunInv'
    BY <1>2, <1>3, <1>6, <2>1, <2>3, DonePlan
  <2>5. ModeInv'
    BY <1>2, <2>1, <2>2 DEF Inv, ModeInv
  <2> QED
    BY <1>2, <1>3, <1>4, <1>5, <2>1, <2>2, <2>4, <2>5, JobStepInv
<1>7. CASE id \notin cached
  <2>1. /\ job' \in [Jobs -> JobStates] /\ \A k \in Jobs \ {j} : job'[k] = job[k]
        /\ job'[j].kind = job[j].kind /\ job'[j].host = job[j].host
        /\ job'[j].plan = job[j].plan /\ job'[j].next = 1
    BY <1>1, <1>7, NextIs DEF Inv
  <2>2. /\ entered \subseteq entered' /\ entered' \subseteq Containers(conf)
        /\ \A k \in Jobs \ {j} : Filling(k, id) => id \in entered'
    BY <1>1, <1>7 DEF Inv, TypeInv, StateInv
  <2>3. StateInv'
    BY <1>2, <1>4, <2>2 DEF Inv, TypeInv, StateInv
  <2>4. JobInv'
    <3>1. job' \in [Jobs -> JobStates']
      BY <1>2, <2>1, Rigid
    <3> SUFFICES ASSUME NEW k \in Jobs
                 PROVE  /\ job'[k].kind # "none" => job'[k].host \in DOMAIN conf.related
                        /\ job'[k].kind \notin {"config", "run"} => job'[k].plan = <<>>
                        /\ job'[k].plan = <<>> => job'[k].next = 0
      BY <1>2, <3>1 DEF JobInv
    <3>2. CASE k = j
      BY <3>2, <1>3, <1>5, <2>1
    <3>3. CASE k # j
      BY <3>3, <2>1 DEF Inv, TypeInv, JobInv
    <3> QED
      BY <3>2, <3>3
  <2>5. mode # "provider" => entered' = entered
    <3> SUFFICES ASSUME mode # "provider", NEW k \in Jobs \ {j}, Filling(k, id) PROVE FALSE
      BY <1>1
    <3>1. job[j].kind = "run"
      BY <1>3 DEF Inv, ModeInv
    <3>2. job[k].plan = <<>>
      BY <3>1, NotMixed
    <3> QED
      BY <3>2 DEF Filling, Loading
  <2>6. ModeInv'
    BY <1>2, <2>1, <2>5 DEF Inv, ModeInv
  <2>7. FrameInv' /\ CachedInv' /\ GroupsInv'
    BY <1>2, <1>4, <2>2, KeepsHeld
  <2>8. ASSUME NEW k \in Jobs, NEW other \in Ids
        PROVE  Filling(k, other)' <=> Filling(k, other) \/ (k = j /\ other = id)
    BY <2>1, <1>1, <1>3 DEF Filling, Loading
  <2>9. ASSUME NEW other, Mixed(other) PROVE Mixed(other)'
    BY <2>9, <2>2, <1>2, Rigid DEF Mixed
  <2>10. FillInv'
    <3> SUFFICES ASSUME NEW k \in Jobs, NEW other \in Ids, Filling(k, other)', ~FromHostSource(other)
                 PROVE  /\ job'[k].next <= Len(Written(other).sources) \/ job'[k].next = 1
                        /\ Mixed(other)' \/ Made(held'[other], Written(other).sources, job'[k].next)
      BY <1>2, Rigid DEF FillInv
    <3>1. CASE k = j
      <4>1. other = id
        BY <3>1, <1>1, <2>8 DEF Filling
      <4>2. IsList(Written(id).sources)
        BY <1>3, WrittenFacts DEF Inv, TypeInv
      <4> QED
        BY <3>1, <4>1, <4>2, <2>1, MadeFirst
    <3>2. CASE k # j
      <4>1. Filling(k, other) /\ job'[k] = job[k]
        BY <3>2, <2>1, <2>8
      <4> QED
        BY <4>1, <2>9, <1>2 DEF Inv, FillInv
    <3> QED
      BY <3>1, <3>2
  <2>11. EnteredInv'
    <3> SUFFICES ASSUME NEW k \in Jobs, NEW other \in Ids, Filling(k, other)'
                 PROVE  /\ other \in cached => other \in entered'
                        /\ \A l \in Jobs \ {k} : Filling(l, other)' => other \in entered'
      BY <1>2, Rigid DEF EnteredInv
    <3>1. CASE k = j /\ other = id
      BY <3>1, <1>7, <2>2, <2>8
    <3>2. CASE ~(k = j /\ other = id)
      <4>1. Filling(k, other)
        BY <3>2, <2>8
      <4>2. other \in cached => other \in entered'
        BY <4>1, <2>2 DEF Inv, EnteredInv
      <4>3. ASSUME NEW l \in Jobs \ {k}, Filling(l, other)' PROVE other \in entered'
        <5>1. CASE Filling(l, other)
          BY <4>1, <5>1, <2>2 DEF Inv, EnteredInv
        <5>2. CASE l = j /\ other = id
          BY <4>1, <5>2, <2>2
        <5> QED
          BY <4>3, <5>1, <5>2, <2>8
      <4> QED
        BY <4>2, <4>3
    <3> QED
      BY <3>1, <3>2
  <2>12. PlanInv'
    BY <1>2, <2>1, KeepsPlans DEF Inv, PlanInv
  <2>13. RunInv'
    BY <1>2, <2>1, KeepsRuns DEF Inv, RunInv
  <2> QED
    BY <2>3, <2>4, <2>6, <2>7, <2>10, <2>11, <2>12, <2>13 DEF Inv, TypeInv
<1> QED
  BY <1>6, <1>7

(* What the object of a container is after a source was assigned into it.  *)
LEMMA SourceAssigned ==
  ASSUME Inv, NEW j \in Jobs, NEW id \in Ids, Filling(j, id), ~FromHostSource(id), NEW f,
         LET sources == Written(id).sources IN
           \/ sources = <<>> /\ f = held[id]
           \/ /\ sources # <<>>
              /\ \E new \in SourceVars(sources[job[j].next]) : f = Over(new, held[id])
  PROVE  LET sources == Written(id).sources
             last == job[j].next >= Len(sources)
         IN /\ Framed(f, Written(id))
            /\ id \in cached \/ last => Mixed(id) \/ f \in Whole(id)
            /\ ~last => job[j].next + 1 <= Len(sources)
                        /\ (Mixed(id) \/ Made(f, sources, job[j].next + 1))
            /\ \A k \in Jobs \ {j} :
                 Filling(k, id) => Mixed(id) \/ Made(f, sources, job[k].next)
<1> DEFINE sources == Written(id).sources
<1>1. IsList(sources) /\ Framed(held[id], Written(id))
  BY WrittenFacts DEF Inv, TypeInv, FrameInv
<1>2. Len(sources) \in Nat /\ DOMAIN sources = 1 .. Len(sources) /\ (sources = <<>> <=> Len(sources) = 0)
  BY <1>1, ListFacts
<1>3. ASSUME NEW k \in Jobs, Filling(k, id)
      PROVE  /\ job[k].next \in 1 .. Len(sources) + 1
             /\ Len(sources) > 0 => job[k].next \in 1 .. Len(sources)
             /\ Len(sources) = 0 => job[k].next = 1
             /\ Mixed(id) \/ Made(held[id], sources, job[k].next)
  <2>1. job[k].next \in Nat /\ job[k].next > 0
    BY <1>3, JobIs DEF Inv, Filling
  <2>2. /\ job[k].next <= Len(sources) \/ job[k].next = 1
        /\ Mixed(id) \/ Made(held[id], sources, job[k].next)
    BY <1>3 DEF Inv, FillInv
  <2> HIDE DEF sources
  <2> QED
    BY <2>1, <2>2, <1>2
<1>4. \A k \in Jobs \ {j} : Filling(k, id) => id \in entered
  BY DEF Inv, EnteredInv
<1>5. id \in cached => id \in entered
  BY DEF Inv, EnteredInv
<1>6. id \in cached => Mixed(id) \/ Made(held[id], sources, Len(sources) + 1)
  BY <1>1, LastOfWhole DEF Inv, CachedInv
<1>7. id \in entered => Mixed(id) \/ ~SharesNames(sources)
  BY DEF Mixed
<1>8. Framed(f, Written(id)) /\ Made(f, sources, Len(sources) + 1) => f \in Whole(id)
  BY <1>1, WholeAtLast
<1>9. CASE sources = <<>>
  <2>1. f = held[id] /\ job[j].next = 1 /\ Len(sources) = 0
    BY <1>2, <1>3, <1>9
  <2>2. Mixed(id) \/ Made(f, sources, Len(sources) + 1)
    BY <2>1, <1>3
  <2>3. job[j].next >= Len(sources)
    BY <2>1
  <2> HIDE DEF sources
  <2>4. /\ Framed(f, Written(id)) /\ (Mixed(id) \/ f \in Whole(id))
        /\ \A k \in Jobs \ {j} : Filling(k, id) => Mixed(id) \/ Made(f, sources, job[k].next)
    BY <2>1, <2>2, <1>1, <1>3, <1>8
  <2> QED
    BY <2>3, <2>4 DEF sources
<1>10. CASE sources # <<>>
  <2>1. PICK new \in SourceVars(sources[job[j].next]) : f = Over(new, held[id])
    BY <1>10
  <2>2. Len(sources) > 0 /\ job[j].next \in 1 .. Len(sources) /\ job[j].next \in DOMAIN sources
    BY <1>2, <1>3, <1>10
  <2>3. Framed(f, Written(id))
    BY <2>1, <2>2, <1>1, FramedOver
  <2>4. Mixed(id) \/ Made(f, sources, job[j].next + 1)
    BY <1>1, <1>3, <2>1, <2>2, MadeNext
  <2>5. ASSUME NEW n \in 1 .. Len(sources) + 1, Made(held[id], sources, n), ~SharesNames(sources)
        PROVE  Made(f, sources, n)
    BY <2>5, <1>1, <2>1, <2>2, MadeAgain
  <2>6. ASSUME NEW k \in Jobs \ {j}, Filling(k, id) PROVE Mixed(id) \/ Made(f, sources, job[k].next)
    BY <2>5, <2>6, <1>3, <1>4, <1>7
  <2>7. id \in cached => Mixed(id) \/ f \in Whole(id)
    <3>1. Len(sources) + 1 \in 1 .. Len(sources) + 1
      BY <1>2
    <3> QED
      BY <3>1, <2>3, <2>5, <1>5, <1>6, <1>7, <1>8
  <2>8. CASE job[j].next >= Len(sources)
    <3>1. job[j].next = Len(sources)
      BY <2>2, <2>8, <1>2
    <3>2. Mixed(id) \/ f \in Whole(id)
      BY <3>1, <2>3, <2>4, <1>8
    <3> HIDE DEF sources
    <3>3. Framed(f, Written(id)) /\ (Mixed(id) \/ f \in Whole(id))
          /\ \A k \in Jobs \ {j} : Filling(k, id) => Mixed(id) \/ Made(f, sources, job[k].next)
      BY <3>2, <2>3, <2>6
    <3> QED
      BY <3>3, <2>8 DEF sources
  <2>9. CASE ~(job[j].next >= Len(sources))
    <3>1. job[j].next + 1 <= Len(sources)
      BY <2>2, <2>9, <1>2
    <3>2. /\ Framed(f, Written(id)) /\ (id \in cached => Mixed(id) \/ f \in Whole(id))
          /\ Mixed(id) \/ Made(f, sources, job[j].next + 1)
          /\ \A k \in Jobs \ {j} : Filling(k, id) => Mixed(id) \/ Made(f, sources, job[k].next)
      BY <2>3, <2>4, <2>6, <2>7
    <3> HIDE DEF sources
    <3> QED
      BY <3>1, <3>2, <2>9 DEF sources
  <2> QED
    BY <2>8, <2>9
<1> QED
  BY <1>9, <1>10

(* A load of a container that is not the last one, or is.                  *)
LEMMA LoadCases ==
  ASSUME Inv, NEW j \in Jobs, LoadVars(j)
  PROVE  \E id \in Ids : \E f :
           /\ Filling(j, id) /\ id = Head(job[j].plan) /\ job[j].plan # <<>>
           /\ held' = [held EXCEPT ![id] = f]
           /\ cached \subseteq cached' /\ cached' \subseteq cached \cup {id}
           /\ LoadC \in cached' => LoadC \in cached
           /\ ~FromHostSource(id) => Framed(f, Written(id))
           /\ id \in cached' => Mixed(id) \/ f \in Whole(id)
           /\ \A k \in Jobs \ {j} :
                Filling(k, id) /\ ~FromHostSource(id) => Mixed(id) \/ Made(f, Written(id).sources, job[k].next)
           /\ \/ /\ job' = Loaded(j)
                 /\ id # LoadC => id \in cached'
                 /\ Mixed(id) \/ f \in Whole(id)
              \/ /\ ~FromHostSource(id) /\ cached' = cached
                 /\ job' = [job EXCEPT ![j].next = @ + 1]
                 /\ job[j].next + 1 <= Len(Written(id).sources)
                 /\ Mixed(id) \/ Made(f, Written(id).sources, job[j].next + 1)
<1>1. PICK id \in Containers(conf) :
        /\ Filling(j, id)
        /\ PopulateHostData(j, id) \/ AssignSource(j, id)
  BY DEF LoadVars
<1>2. job[j].plan # <<>> /\ id = Head(job[j].plan) /\ id \in Ids
  BY <1>1, PlanFacts DEF Inv, Filling, Loading
<1>3. IsMap(held) /\ id \in DOMAIN held
  BY <1>2, IdsApart DEF Inv, TypeInv, StateInv
<1>4. CASE PopulateHostData(j, id)
  <2>1. PICK f \in HostVarsLoaded(conf.hostSources[origin[id[2]]], id[2]) : held' = [held EXCEPT ![id] = f]
    BY <1>4 DEF PopulateHostData
  <2>2. FromHostSource(id) /\ f \in Whole(id) /\ cached' = cached \cup {id} /\ job' = Loaded(j)
    BY <1>4, <2>1 DEF PopulateHostData, FromHostSource, Whole
  <2>3. id # LoadC
    BY <2>2, IdsApart
  <2> QED
    BY <1>1, <1>2, <2>1, <2>2, <2>3
<1>5. CASE AssignSource(j, id)
  <2> DEFINE sources == Written(id).sources
             last == job[j].next >= Len(sources)
  <2>1. /\ ~FromHostSource(id)
        /\ IF sources = <<>> THEN held' = held
           ELSE \E new \in SourceVars(sources[job[j].next]) : held' = [held EXCEPT ![id] = Over(new, @)]
        /\ cached' = IF last /\ id # LoadC THEN cached \cup {id} ELSE cached
        /\ job' = IF last THEN Loaded(j) ELSE [job EXCEPT ![j].next = @ + 1]
    BY <1>5 DEF AssignSource, FromHostSource
  <2>2. \E f : /\ held' = [held EXCEPT ![id] = f]
               /\ \/ sources = <<>> /\ f = held[id]
                  \/ /\ sources # <<>>
                     /\ \E new \in SourceVars(sources[job[j].next]) : f = Over(new, held[id])
    <3> HIDE DEF sources, last
    <3>1. CASE sources = <<>>
      <4>1. held' = [held EXCEPT ![id] = held[id]]
        BY <2>1, <3>1, <1>3 DEF IsMap
      <4> QED
        BY <4>1, <3>1
    <3>2. CASE sources # <<>>
      <4>1. PICK new \in SourceVars(sources[job[j].next]) : held' = [held EXCEPT ![id] = Over(new, @)]
        BY <2>1, <3>2
      <4>2. held' = [held EXCEPT ![id] = Over(new, held[id])]
        BY <4>1, <1>3
      <4> QED
        BY <4>2, <3>2
    <3> QED
      BY <3>1, <3>2
  <2>3. PICK f : /\ held' = [held EXCEPT ![id] = f]
                 /\ \/ sources = <<>> /\ f = held[id]
                    \/ /\ sources # <<>>
                       /\ \E new \in SourceVars(sources[job[j].next]) : f = Over(new, held[id])
    BY <2>2
  <2>4. /\ Framed(f, Written(id))
        /\ id \in cached \/ last => Mixed(id) \/ f \in Whole(id)
        /\ ~last => job[j].next + 1 <= Len(sources) /\ (Mixed(id) \/ Made(f, sources, job[j].next + 1))
        /\ \A k \in Jobs \ {j} : Filling(k, id) => Mixed(id) \/ Made(f, sources, job[k].next)
    BY <1>1, <1>2, <2>1, <2>3, SourceAssigned
  <2> HIDE DEF last
  <2>5. /\ cached \subseteq cached' /\ cached' \subseteq cached \cup {id}
        /\ LoadC \in cached' => LoadC \in cached
        /\ id \in cached' => Mixed(id) \/ f \in Whole(id)
    BY <2>1, <2>4
  <2>6. CASE last
    <3>1. job' = Loaded(j) /\ (id # LoadC => id \in cached') /\ (Mixed(id) \/ f \in Whole(id))
      BY <2>1, <2>4, <2>6
    <3> QED
      BY <1>1, <1>2, <2>1, <2>3, <2>4, <2>5, <3>1
  <2>7. CASE ~last
    <3>1. /\ cached' = cached /\ job' = [job EXCEPT ![j].next = @ + 1]
          /\ job[j].next + 1 <= Len(sources) /\ (Mixed(id) \/ Made(f, sources, job[j].next + 1))
      BY <2>1, <2>4, <2>7
    <3> QED
      BY <1>1, <1>2, <2>1, <2>3, <2>4, <2>5, <3>1
  <2> QED
    BY <2>6, <2>7
<1> QED
  BY <1>1, <1>4, <1>5

LEMMA LoadInv ==
  ASSUME Inv, NEW j \in Jobs, LoadVars(j)
  PROVE  Inv'
<1>1. PICK id \in Ids : \E f :
        /\ Filling(j, id) /\ id = Head(job[j].plan) /\ job[j].plan # <<>>
        /\ held' = [held EXCEPT ![id] = f]
        /\ cached \subseteq cached' /\ cached' \subseteq cached \cup {id}
        /\ LoadC \in cached' => LoadC \in cached
        /\ ~FromHostSource(id) => Framed(f, Written(id))
        /\ id \in cached' => Mixed(id) \/ f \in Whole(id)
        /\ \A k \in Jobs \ {j} :
             Filling(k, id) /\ ~FromHostSource(id) => Mixed(id) \/ Made(f, Written(id).sources, job[k].next)
        /\ \/ /\ job' = Loaded(j)
              /\ id # LoadC => id \in cached'
              /\ Mixed(id) \/ f \in Whole(id)
           \/ /\ ~FromHostSource(id) /\ cached' = cached
              /\ job' = [job EXCEPT ![j].next = @ + 1]
              /\ job[j].next + 1 <= Len(Written(id).sources)
              /\ Mixed(id) \/ Made(f, Written(id).sources, job[j].next + 1)
  BY LoadCases
<1>2. /\ Filling(j, id) /\ id = Head(job[j].plan) /\ job[j].plan # <<>>
      /\ cached \subseteq cached' /\ cached' \subseteq cached \cup {id}
      /\ LoadC \in cached' => LoadC \in cached
  BY <1>1
<1>3. /\ ~FromHostSource(id) => Framed(held'[id], Written(id))
      /\ id \in cached' => Mixed(id) \/ held'[id] \in Whole(id)
      /\ \A k \in Jobs \ {j} :
           Filling(k, id) /\ ~FromHostSource(id) => Mixed(id) \/ Made(held'[id], Written(id).sources, job[k].next)
      /\ \/ /\ job' = Loaded(j)
            /\ id # LoadC => id \in cached'
            /\ Mixed(id) \/ held'[id] \in Whole(id)
         \/ /\ ~FromHostSource(id) /\ cached' = cached
            /\ job' = [job EXCEPT ![j].next = @ + 1]
            /\ job[j].next + 1 <= Len(Written(id).sources)
            /\ Mixed(id) \/ Made(held'[id], Written(id).sources, job[j].next + 1)
      /\ \A other \in Containers(conf) : other # id => held'[other] = held[other]
      /\ IsMap(held') /\ DOMAIN held' = Containers(conf)
  <2>1. PICK f :
        /\ held' = [held EXCEPT ![id] = f]
        /\ ~FromHostSource(id) => Framed(f, Written(id))
        /\ id \in cached' => Mixed(id) \/ f \in Whole(id)
        /\ \A k \in Jobs \ {j} :
             Filling(k, id) /\ ~FromHostSource(id) => Mixed(id) \/ Made(f, Written(id).sources, job[k].next)
        /\ \/ /\ job' = Loaded(j)
              /\ id # LoadC => id \in cached'
              /\ Mixed(id) \/ f \in Whole(id)
           \/ /\ ~FromHostSource(id) /\ cached' = cached
              /\ job' = [job EXCEPT ![j].next = @ + 1]
              /\ job[j].next + 1 <= Len(Written(id).sources)
              /\ Mixed(id) \/ Made(f, Written(id).sources, job[j].next + 1)
    BY <1>1
  <2>2. IsMap(held) /\ DOMAIN held = Containers(conf) /\ id \in DOMAIN held
    BY IdsApart DEF Inv, TypeInv, StateInv
  <2>3. /\ held'[id] = f /\ DOMAIN held' = Containers(conf) /\ IsMap(held')
        /\ \A other \in Containers(conf) : other # id => held'[other] = held[other]
    BY <2>1, <2>2 DEF IsMap
  <2> QED
    BY <2>1, <2>3
<1>4. /\ conf' = conf /\ origin' = origin /\ mode' = mode /\ entered' = entered
      /\ answer' = answer /\ start' = start /\ faults' = faults
  BY DEF LoadVars
<1>5. job[j].next \in Nat /\ job[j].next > 0 /\ job[j].kind \in {"config", "run"} /\ job[j].host \in DOMAIN conf.related
  BY <1>2, JobIs, PlanFacts DEF Inv, Filling
<1>6. /\ job' \in [Jobs -> JobStates] /\ \A k \in Jobs \ {j} : job'[k] = job[k]
      /\ job'[j].kind = job[j].kind /\ job'[j].host = job[j].host
      /\ \/ job' = Loaded(j) /\ job'[j].next = 0
         \/ /\ job' # Loaded(j)
            /\ job'[j].next = job[j].next + 1 /\ job'[j].plan = job[j].plan
  <2>1. /\ Loaded(j) \in [Jobs -> JobStates] /\ \A k \in Jobs \ {j} : Loaded(j)[k] = job[k]
        /\ Loaded(j)[j].kind = job[j].kind /\ Loaded(j)[j].host = job[j].host /\ Loaded(j)[j].next = 0
    BY <1>2, LoadedIs DEF Inv
  <2>2. CASE job' = Loaded(j)
    BY <2>1, <2>2
  <2>3. CASE job' # Loaded(j)
    <3> DEFINE n == job[j].next + 1
    <3>1. n \in Nat /\ job' = [job EXCEPT ![j].next = n]
      <4>1. job' = [job EXCEPT ![j].next = @ + 1]
        BY <1>3, <2>3
      <4>2. [job EXCEPT ![j].next = @ + 1] = [job EXCEPT ![j].next = n]
        BY JobIs DEF Inv
      <4> QED
        BY <4>1, <4>2, <1>5
    <3> HIDE DEF n
    <3>2. /\ job' \in [Jobs -> JobStates] /\ \A k \in Jobs \ {j} : job'[k] = job[k]
          /\ job'[j].kind = job[j].kind /\ job'[j].host = job[j].host
          /\ job'[j].plan = job[j].plan /\ job'[j].next = n
      BY <3>1, NextIs DEF Inv
    <3> QED
      BY <3>2, <2>3 DEF n
  <2> QED
    BY <2>2, <2>3
<1>7. StateInv'
  <2>1. cached' \subseteq Containers(conf) \ {LoadC}
    BY <1>2, IdsApart DEF Inv, TypeInv, StateInv
  <2> QED
    BY <1>3, <1>4, <2>1 DEF Inv, TypeInv, StateInv
<1>8. JobInv'
  <2>1. job' \in [Jobs -> JobStates']
    BY <1>4, <1>6, Rigid
  <2> SUFFICES ASSUME NEW k \in Jobs
               PROVE  /\ job'[k].kind # "none" => job'[k].host \in DOMAIN conf.related
                      /\ job'[k].kind \notin {"config", "run"} => job'[k].plan = <<>>
                      /\ job'[k].plan = <<>> => job'[k].next = 0
    BY <1>4, <2>1 DEF JobInv
  <2>2. CASE k = j
    BY <2>2, <1>2, <1>5, <1>6
  <2>3. CASE k # j
    BY <2>3, <1>6 DEF Inv, TypeInv, JobInv
  <2> QED
    BY <2>2, <2>3
<1>9. ModeInv'
  <2>1. \A k \in Jobs : job'[k].kind = job[k].kind
    BY <1>6
  <2> QED
    BY <2>1, <1>4 DEF Inv, ModeInv
<1>10. FrameInv'
  <2> SUFFICES ASSUME NEW other \in Ids, ~FromHostSource(other) PROVE Framed(held'[other], Written(other))
    BY <1>4, Rigid DEF FrameInv
  <2>1. CASE other = id
    BY <2>1, <1>3
  <2>2. CASE other # id
    BY <2>2, <1>3, IdsApart DEF Inv, FrameInv
  <2> QED
    BY <2>1, <2>2
<1>11. ASSUME NEW k \in Jobs, NEW other \in Ids, Filling(k, other)'
       PROVE  /\ Filling(k, other)
              /\ k # j => job'[k] = job[k]
              /\ k = j => /\ other = id /\ job' # Loaded(j) /\ job'[j].next = job[j].next + 1
                          /\ cached' = cached /\ ~FromHostSource(id)
                          /\ job[j].next + 1 <= Len(Written(id).sources)
                          /\ Mixed(id) \/ Made(held'[id], Written(id).sources, job[j].next + 1)
  <2>1. CASE k # j
    BY <2>1, <1>6, <1>11 DEF Filling, Loading
  <2>2. CASE k = j
    <3>1. job' # Loaded(j) /\ job'[j].next = job[j].next + 1 /\ job'[j].plan = job[j].plan
      BY <2>2, <1>6, <1>11 DEF Filling
    <3>2. other = id
      BY <2>2, <3>1, <1>2, <1>11 DEF Filling, Loading
    <3> QED
      BY <2>2, <3>1, <3>2, <1>2, <1>3
  <2> QED
    BY <2>1, <2>2
<1>12. \A other : Mixed(other)' <=> Mixed(other)
  BY <1>4, Rigid DEF Mixed
<1>13. FillInv'
  <2> SUFFICES ASSUME NEW k \in Jobs, NEW other \in Ids, Filling(k, other)', ~FromHostSource(other)
               PROVE  /\ job'[k].next <= Len(Written(other).sources) \/ job'[k].next = 1
                      /\ Mixed(other) \/ Made(held'[other], Written(other).sources, job'[k].next)
    BY <1>4, <1>12, Rigid DEF FillInv
  <2>1. CASE k = j
    BY <2>1, <1>11
  <2>2. CASE k # j /\ other = id
    <3>1. Filling(k, id) /\ job'[k] = job[k] /\ ~FromHostSource(id)
      BY <2>2, <1>11
    <3>2. job[k].next <= Len(Written(id).sources) \/ job[k].next = 1
      BY <3>1 DEF Inv, FillInv
    <3> QED
      BY <2>2, <3>1, <3>2, <1>3
  <2>3. CASE k # j /\ other # id
    <3>1. Filling(k, other) /\ job'[k] = job[k]
      BY <2>3, <1>11
    <3>2. held'[other] = held[other]
      BY <2>3, <1>3, IdsApart
    <3> QED
      BY <3>1, <3>2 DEF Inv, FillInv
  <2> QED
    BY <2>1, <2>2, <2>3
<1>14. EnteredInv'
  <2> SUFFICES ASSUME NEW k \in Jobs, NEW other \in Ids, Filling(k, other)'
               PROVE  /\ other \in cached' => other \in entered
                      /\ \A l \in Jobs \ {k} : Filling(l, other)' => other \in entered
    BY <1>4, Rigid DEF EnteredInv
  <2>1. Filling(k, other)
    BY <1>11
  <2>2. \A l \in Jobs \ {k} : Filling(l, other)' => other \in entered
    BY <2>1, <1>11 DEF Inv, EnteredInv
  <2>3. ASSUME other \in cached' PROVE other \in entered
    <3>1. CASE other \in cached
      BY <3>1, <2>1 DEF Inv, EnteredInv
    <3>2. CASE other \notin cached
      <4>1. other = id /\ k # j
        BY <3>2, <2>3, <1>2, <1>11
      <4> QED
        BY <4>1, <2>1, <1>2 DEF Inv, EnteredInv
    <3> QED
      BY <3>1, <3>2
  <2> QED
    BY <2>2, <2>3
<1>15. CachedInv'
  <2> SUFFICES ASSUME NEW other \in cached' \cap Ids PROVE Mixed(other) \/ held'[other] \in Whole(other)
    BY <1>4, <1>12, Rigid DEF CachedInv
  <2>1. CASE other = id
    BY <2>1, <1>3
  <2>2. CASE other # id
    BY <2>2, <1>2, <1>3, IdsApart DEF Inv, CachedInv
  <2> QED
    BY <2>1, <2>2
<1>16. GroupsInv'
  <2> SUFFICES ASSUME mode \in {"provider", "local"}, NEW g \in DOMAIN conf.groups
               PROVE  held'[GroupC(g)] \in Whole(GroupC(g))
    BY <1>4, Rigid DEF GroupsInv, GroupC
  <2>1. GroupC(g) \in GroupIds /\ GroupC(g) # id /\ GroupC(g) \in Containers(conf)
    BY IdsApart DEF GroupIds
  <2> QED
    BY <2>1, <1>3 DEF Inv, GroupsInv
<1>17. \A k \in Jobs \ {j} : job[k].kind # "run"
  BY <1>5, NotMixed
<1>18. PlanInv' /\ RunInv'
  <2>1. CASE job' = Loaded(j)
    <3>1. id \in cached' \cup {LoadC} /\ (Mixed(id) \/ held'[id] \in Whole(id))
      <4>1. CASE /\ id # LoadC => id \in cached'
                 /\ Mixed(id) \/ held'[id] \in Whole(id)
        BY <4>1
      <4>2. CASE job' = [job EXCEPT ![j].next = @ + 1]
        <5>1. job'[j].next = job[j].next + 1
          BY <4>2, JobIs DEF Inv
        <5> QED
          BY <5>1, <2>1, <1>2, <1>5, LoadedIs DEF Inv
      <4> QED
        BY <4>1, <4>2, <1>3
    <3>2. job[j].kind = "run" => held'[id] \in Whole(id)
      BY <3>1, NotMixed
    <3>3. \A other \in Ids : other # id => held'[other] = held[other]
      BY <1>3, IdsApart
    <3> QED
      BY <2>1, <3>1, <3>2, <3>3, <1>2, <1>4, <1>17, DonePlan
  <2>2. CASE job' # Loaded(j)
    <3>1. cached' = cached /\ job'[j].plan = job[j].plan
      BY <2>2, <1>3, <1>6
    <3>2. PlanInv'
      <4>1. job'[j].kind = "config" =>
              \A h \in ToSet(conf.related[job'[j].host]) : HostC(h) \in ToSet(job'[j].plan) \cup cached'
        BY <3>1, <1>6 DEF Inv, PlanInv
      <4> QED
        BY <3>1, <4>1, <1>4, <1>6, KeepsPlans
    <3>3. RunInv'
      <4>1. ASSUME job'[j].kind = "run", NEW other \in Needed(job'[j].host)
            PROVE  other \in ToSet(job'[j].plan) \/ held'[other] \in Whole(other)
        <5>1. other \in ToSet(job[j].plan) \/ held[other] \in Whole(other)
          BY <4>1, <1>6 DEF Inv, RunInv
        <5>2. CASE other = id
          BY <5>2, <3>1, <1>2, PlanFacts DEF Inv
        <5>3. CASE other # id
          <6>1. other \in Containers(conf)
            <7>1. conf.related[job[j].host] \in Seq(HostIds(conf)) /\ job[j].host \in ToSet(conf.related[job[j].host])
              BY <1>5, ConfFacts DEF Inv, TypeInv
            <7>2. job[j].host \in HostIds(conf)
              BY <7>1 DEF ToSet
            <7> QED
              BY <7>2, <1>6, <4>1, IdsApart DEF Needed, Ids
          <6> QED
            BY <5>1, <5>3, <6>1, <3>1, <1>3
        <5> QED
          BY <5>2, <5>3
      <4> QED
        BY <4>1, <1>4, <1>6, <1>17, KeepsRuns
    <3> QED
      BY <3>2, <3>3
  <2> QED
    BY <2>1, <2>2
<1> QED
  BY <1>7, <1>8, <1>9, <1>10, <1>13, <1>14, <1>15, <1>16, <1>18 DEF Inv, TypeInv

LEMMA Unchanged ==
  ASSUME Inv, UNCHANGED vars
  PROVE  Inv'
<1>1. /\ conf' = conf /\ origin' = origin /\ held' = held /\ cached' = cached /\ entered' = entered
      /\ mode' = mode /\ job' = job /\ answer' = answer /\ start' = start /\ faults' = faults
  BY DEF vars
<1>2. StateInv' /\ ModeInv'
  BY <1>1 DEF Inv, TypeInv, StateInv, ModeInv
<1>3. JobInv'
  BY <1>1, Rigid DEF Inv, TypeInv, JobInv
<1>4. FrameInv' /\ CachedInv' /\ GroupsInv'
  BY <1>1, KeepsHeld
<1>5. \A other : Mixed(other)' <=> Mixed(other)
  BY <1>1, Rigid DEF Mixed
<1>6. FillInv' /\ EnteredInv'
  <2>1. \A j \in Jobs : \A id : Filling(j, id)' <=> Filling(j, id)
    BY <1>1 DEF Filling, Loading
  <2>2. FillInv'
    BY <2>1, <1>1, <1>5, Rigid DEF Inv, FillInv
  <2>3. EnteredInv'
    BY <2>1, <1>1, Rigid DEF Inv, EnteredInv
  <2> QED
    BY <2>2, <2>3
<1>7. PlanInv' /\ RunInv'
  <2>1. PlanInv'
    BY <1>1 DEF Inv, PlanInv
  <2>2. RunInv'
    BY <1>1, Rigid DEF Inv, RunInv, Needed
  <2> QED
    BY <2>1, <2>2
<1> QED
  BY <1>2, <1>3, <1>4, <1>6, <1>7 DEF Inv, TypeInv

LEMMA StepInv ==
  ASSUME Inv, [Next]_vars
  PROVE  Inv'
<1>1. CASE LoadStubsAndGroups
  BY <1>1, StartsInv
<1>2. ASSUME NEW j \in Jobs, NEW h \in DOMAIN conf.related, Request(j, h) \/ Run(j, h)
      PROVE  Inv'
  BY <1>2, RequestInv, RunIsInv
<1>3. ASSUME NEW j \in Jobs,
             Enter(j) \/ LoadVars(j) \/ LoadFails(j) \/ Answer(j) \/ RunTasks(j)
      PROVE  Inv'
  BY <1>3, EnterInv, LoadInv, FailInv, EndsInv
<1>4. CASE UNCHANGED vars
  BY <1>4, Unchanged
<1> QED
  BY <1>1, <1>2, <1>3, <1>4 DEF Next

(* What is cached is whole and what is being filled is on its way there,   *)
(* unless two requests filled it at once and its sources share a variable; *)
(* the provider answers, and the command line runs, with what is loaded    *)
(* (VarsContainer.loadVars).                                               *)
THEOREM VariablesInvariant == Spec => []Inv
<1>1. Init => Inv
  BY InitInv
<1>2. Inv /\ [Next]_vars => Inv'
  BY StepInv
<1> QED
  BY <1>1, <1>2, PTL DEF Spec

-----------------------------------------------------------------------------
(* The answers.                                                            *)

(* What was answered or run stays, and what is written.                    *)
LEMMA EndedStays ==
  ASSUME Inv, [Next]_vars, NEW j \in Jobs
  PROVE  /\ conf' = conf /\ origin' = origin /\ entered \subseteq entered'
         /\ job'[j].kind = "answered" =>
              Answer(j) \/ (job[j].kind = "answered" /\ answer'[j] = answer[j])
         /\ job'[j].kind = "ran" =>
              RunTasks(j) \/ (job[j].kind = "ran" /\ job'[j].host = job[j].host /\ start'[j] = start[j])
<1> DEFINE Closes(k) ==
             /\ job'[k].kind = "answered" =>
                  Answer(k) \/ (job[k].kind = "answered" /\ answer'[k] = answer[k])
             /\ job'[k].kind = "ran" =>
                  RunTasks(k) \/ (job[k].kind = "ran" /\ job'[k].host = job[k].host /\ start'[k] = start[k])
<1>1. CASE LoadStubsAndGroups
  BY <1>1 DEF LoadStubsAndGroups
<1>2. CASE UNCHANGED vars
  BY <1>2 DEF vars
<1>3. job \in [Jobs -> JobStates]
  BY JobIs DEF Inv
<1>4. ASSUME NEW k \in Jobs, NEW h \in DOMAIN conf.related, Request(k, h) \/ Run(k, h)
      PROVE  conf' = conf /\ origin' = origin /\ entered \subseteq entered' /\ Closes(j)
  <2>1. conf' = conf /\ origin' = origin /\ entered' = entered /\ answer' = answer /\ start' = start
    BY <1>4 DEF Request, Run
  <2>2. job'[k].kind \in {"config", "run"} /\ (j # k => job'[j] = job[j])
    BY <1>3, <1>4 DEF Request, Run
  <2> QED
    BY <2>1, <2>2
<1>5. ASSUME NEW k \in Jobs, LoadFails(k)
      PROVE  conf' = conf /\ origin' = origin /\ entered \subseteq entered' /\ Closes(j)
  <2>1. conf' = conf /\ origin' = origin /\ entered' = entered /\ answer' = answer /\ start' = start
    BY <1>5 DEF LoadFails
  <2>2. job'[k].kind = "none" /\ (j # k => job'[j] = job[j])
    BY <1>3, <1>5 DEF LoadFails, NoJob
  <2> QED
    BY <2>1, <2>2
<1>6. ASSUME NEW k \in Jobs, Enter(k)
      PROVE  conf' = conf /\ origin' = origin /\ entered \subseteq entered' /\ Closes(j)
  <2>1. conf' = conf /\ origin' = origin /\ entered \subseteq entered' /\ answer' = answer /\ start' = start
    BY <1>6 DEF Enter
  <2>2. job[k].plan # <<>> /\ (job' = Loaded(k) \/ job' = [job EXCEPT ![k].next = 1])
    BY <1>6 DEF Enter, Loading
  <2>3. job'[k].kind = job[k].kind /\ (j # k => job'[j] = job[j]) /\ job[k].kind \in {"config", "run"}
    <3>1. TypeInv /\ job[k].kind \in {"config", "run"}
      BY <2>2, PlanFacts DEF Inv
    <3>2. CASE job' = Loaded(k)
      BY <3>1, <3>2, <2>2, LoadedIs
    <3>3. CASE job' = [job EXCEPT ![k].next = 1]
      BY <3>1, <3>3, NextIs
    <3> QED
      BY <3>2, <3>3, <2>2
  <2> QED
    BY <2>1, <2>3
<1>7. ASSUME NEW k \in Jobs, LoadVars(k)
      PROVE  conf' = conf /\ origin' = origin /\ entered \subseteq entered' /\ Closes(j)
  <2>1. conf' = conf /\ origin' = origin /\ entered' = entered /\ answer' = answer /\ start' = start
    BY <1>7 DEF LoadVars
  <2>2. job[k].plan # <<>> /\ (job' = Loaded(k) \/ job' = [job EXCEPT ![k].next = @ + 1])
    BY <1>7 DEF LoadVars, Filling, Loading, PopulateHostData, AssignSource
  <2>3. job'[k].kind = job[k].kind /\ (j # k => job'[j] = job[j]) /\ job[k].kind \in {"config", "run"}
    <3>1. CASE job' = Loaded(k)
      BY <3>1, <2>2, LoadedIs, PlanFacts DEF Inv
    <3>2. CASE job' = [job EXCEPT ![k].next = @ + 1]
      <4>1. [job EXCEPT ![k].next = @ + 1] = [job EXCEPT ![k].next = job[k].next + 1]
        BY <1>3
      <4>2. job[k].next + 1 \in Nat
        BY JobIs DEF Inv
      <4> QED
        BY <3>2, <4>1, <4>2, <2>2, NextIs, PlanFacts DEF Inv
    <3> QED
      BY <3>1, <3>2, <2>2
  <2> QED
    BY <2>1, <2>3
<1>8. ASSUME NEW k \in Jobs, Answer(k) \/ RunTasks(k)
      PROVE  conf' = conf /\ origin' = origin /\ entered \subseteq entered' /\ Closes(j)
  <2>1. conf' = conf /\ origin' = origin /\ entered' = entered
    BY <1>8 DEF Answer, RunTasks
  <2>2. CASE j # k
    <3>1. job'[j] = job[j] /\ answer'[j] = answer[j] /\ start'[j] = start[j]
      BY <2>2, <1>3, <1>8 DEF Answer, RunTasks, Inv, TypeInv, StateInv
    <3> QED
      BY <2>1, <3>1
  <2>3. CASE j = k /\ Answer(k)
    <3>1. job'[j].kind = "answered"
      BY <2>3, KindIs DEF Answer, Inv
    <3> QED
      BY <2>1, <2>3, <3>1
  <2>4. CASE j = k /\ RunTasks(k)
    <3>1. job'[j].kind = "ran"
      BY <2>4, KindIs DEF RunTasks, Inv
    <3> QED
      BY <2>1, <2>4, <3>1
  <2> QED
    BY <1>8, <2>2, <2>3, <2>4
<1> QED
  BY <1>1, <1>2, <1>4, <1>5, <1>6, <1>7, <1>8 DEF Next

(* What an answer has of a host.                                           *)
LEMMA AnswerIs ==
  ASSUME Inv, NEW j \in Jobs, Answer(j)
  PROVE  /\ job[j].kind = "config" /\ job[j].plan = <<>>
         /\ answer'[j].host = job[j].host
         /\ answer'[j].hosts = ToSet(conf.related[job[j].host])
         /\ \A h \in answer'[j].hosts : RawHosts(j)'[h].vars.vars.vars = held[HostC(h)]
         /\ answer'[j].inventory.recipe = FilterHostVars(job[j].host, conf.recipe)
<1> DEFINE h == job[j].host
           hosts == ToSet(conf.related[h])
           sub == SubInventory(hosts)
           raw == [k \in hosts |-> Object([relations |-> Object(Nothing), vars |-> Object(held[HostC(k)])])]
<1>1. /\ job[j].kind = "config" /\ job[j].plan = <<>>
      /\ answer'[j] = [host |-> h, hosts |-> hosts,
                       inventory |-> [sub EXCEPT !.recipe = FilterHostVars(h, @)]]
  BY DEF Answer, Inv, TypeInv, StateInv
<1>2. {"groups", "hostSources", "recipe"} \subseteq DOMAIN conf
  BY ConfFacts DEF Inv, TypeInv
<1>3. sub.hostSources = <<[kind |-> "raw", hosts |-> raw]>> /\ sub.recipe = conf.recipe
      /\ {"groups", "hostSources", "recipe"} \subseteq DOMAIN sub
  BY <1>2 DEF SubInventory
<1>4. \A k \in hosts : raw[k].vars.vars.vars = held[HostC(k)]
  BY DEF Object
<1> HIDE DEF sub, raw
<1>5. PICK inventory : inventory = [sub EXCEPT !.recipe = FilterHostVars(h, @)]
  OBVIOUS
<1>6. /\ inventory.hostSources = <<[kind |-> "raw", hosts |-> raw]>>
      /\ inventory.recipe = FilterHostVars(h, conf.recipe)
  BY <1>3, <1>5
<1>7. answer'[j] = [host |-> h, hosts |-> hosts, inventory |-> inventory]
  BY <1>1, <1>5
<1>8. answer'[j].inventory = inventory /\ answer'[j].host = h /\ answer'[j].hosts = hosts
  BY <1>7
<1>9. RawHosts(j)' = raw
  <2>1. RawHosts(j)' = Head(answer'[j].inventory.hostSources).hosts
    BY DEF RawHosts
  <2>2. Head(<<[kind |-> "raw", hosts |-> raw]>>).hosts = raw
    OBVIOUS
  <2> QED
    BY <1>6, <1>8, <2>1, <2>2
<1> QED
  BY <1>1, <1>4, <1>6, <1>8, <1>9

LEMMA AnswersStep ==
  ASSUME Inv, AnswersWhole, [Next]_vars
  PROVE  AnswersWhole'
<1> SUFFICES ASSUME NEW j \in Jobs, job'[j].kind = "answered", NEW h \in answer'[j].hosts
             PROVE  \/ HostC(h) \in entered' /\ SharesNames(Written(HostC(h)).sources)
                    \/ RawHosts(j)'[h].vars.vars.vars \in Whole(HostC(h))
  <2>1. conf' = conf /\ origin' = origin
    <3>1. CASE Jobs = {}
      BY <3>1 DEF Next, LoadStubsAndGroups, vars
    <3>2. CASE Jobs # {}
      BY <3>2, EndedStays
    <3> QED
      BY <3>1, <3>2
  <2> QED
    BY <2>1, Rigid DEF AnswersWhole, Answered, HostC
<1>1. CASE job[j].kind = "answered" /\ answer'[j] = answer[j]
  <2>1. RawHosts(j)' = RawHosts(j)
    BY <1>1 DEF RawHosts
  <2>2. entered \subseteq entered'
    BY EndedStays
  <2> QED
    BY <1>1, <2>1, <2>2 DEF AnswersWhole, Answered
<1>2. CASE Answer(j)
  <2>1. /\ job[j].kind = "config" /\ job[j].plan = <<>> /\ h \in ToSet(conf.related[job[j].host])
        /\ RawHosts(j)'[h].vars.vars.vars = held[HostC(h)]
    BY <1>2, AnswerIs
  <2>2. HostC(h) \in cached
    <3>1. ToSet(job[j].plan) = {}
      BY <2>1 DEF ToSet
    <3> QED
      BY <2>1, <3>1 DEF Inv, PlanInv
  <2>3. HostC(h) \in Ids
    BY <2>2, IdsApart DEF Inv, TypeInv, StateInv, GroupIds, HostC, GroupC
  <2>4. Mixed(HostC(h)) \/ held[HostC(h)] \in Whole(HostC(h))
    BY <2>2, <2>3 DEF Inv, CachedInv
  <2>5. entered \subseteq entered'
    BY EndedStays
  <2> QED
    BY <2>1, <2>4, <2>5 DEF Mixed
<1> QED
  BY <1>1, <1>2, EndedStays

(* An answer has all the variables of its hosts, each from the last of the *)
(* sources that gives it, unless two requests filled a host at once and    *)
(* its sources share a variable (loadVars, getConfigForHost).              *)
THEOREM AnswersAreWhole == Spec => []AnswersWhole
<1>1. Init => AnswersWhole
  <2> SUFFICES ASSUME Init PROVE Answered = {}
    BY DEF AnswersWhole
  <2> QED
    BY DEF Init, Answered, NoJob
<1>2. Inv /\ AnswersWhole /\ [Next]_vars => AnswersWhole'
  BY AnswersStep
<1> QED
  BY <1>1, <1>2, VariablesInvariant, PTL DEF Spec

-----------------------------------------------------------------------------
(* The recipe that is sent.                                                *)

OwnOver(h, recipe) == RecipeVars(Nothing, Names(h), h, Nothing, recipe, Nothing)
LEMMA FilteredIsOwn ==
  ASSUME NEW h, NEW recipe, {"assets", "groupVars", "hostVars"} \subseteq DOMAIN recipe
  PROVE  LET sent == FilterHostVars(h, recipe) IN
         /\ OwnOver(h, sent) = OwnOver(h, recipe)
         /\ DOMAIN sent.hostVars \subseteq {h} /\ DOMAIN sent.groupVars \subseteq Names(h)
<1> DEFINE groupVars == [g \in DOMAIN recipe.groupVars \cap Names(h) |-> recipe.groupVars[g]]
           hostVars == [k \in DOMAIN recipe.hostVars \cap {h} |-> recipe.hostVars[k]]
           sent == FilterHostVars(h, recipe)
<1>1. sent = [recipe EXCEPT !.groupVars = groupVars, !.hostVars = hostVars]
  BY DEF FilterHostVars
<1>2. sent.groupVars = groupVars /\ sent.hostVars = hostVars /\ sent.assets = recipe.assets
  <2> HIDE DEF groupVars, hostVars, sent
  <2> QED
    BY <1>1
<1>3. OwnVars(sent, h) = OwnVars(recipe, h)
  BY <1>2 DEF OwnVars
<1>4. AssetsOf(sent) = AssetsOf(recipe)
  BY <1>2 DEF AssetsOf
<1>5. GroupLayers(Names(h), sent.groupVars) = GroupLayers(Names(h), recipe.groupVars)
  <2> DEFINE layer(varsOf, i) ==
        IF conf.order[i] \in Names(h) \cap DOMAIN varsOf THEN varsOf[conf.order[i]] ELSE Nothing
  <2>1. ASSUME NEW i PROVE layer(groupVars, i) = layer(recipe.groupVars, i)
    <3>1. DOMAIN groupVars = DOMAIN recipe.groupVars \cap Names(h)
      OBVIOUS
    <3> QED
      BY <3>1
  <2>2. [i \in DOMAIN conf.order |-> layer(groupVars, i)] = [i \in DOMAIN conf.order |-> layer(recipe.groupVars, i)]
    BY <2>1
  <2>3. \A varsOf : GroupLayers(Names(h), varsOf) = Assigned(Nothing, [i \in DOMAIN conf.order |-> layer(varsOf, i)])
    BY DEF GroupLayers
  <2> HIDE DEF groupVars, sent, layer
  <2> QED
    BY <1>2, <2>2, <2>3
<1>6. DOMAIN sent.hostVars \subseteq {h} /\ DOMAIN sent.groupVars \subseteq Names(h)
  BY <1>2
<1> HIDE DEF sent
<1>7. OwnOver(h, sent) = OwnOver(h, recipe)
  BY <1>3, <1>4, <1>5 DEF OwnOver, RecipeVars
<1> QED
  BY <1>6, <1>7 DEF sent

LEMMA ConfStays ==
  ASSUME Inv, [Next]_vars
  PROVE  conf' = conf /\ origin' = origin /\ \A h : Names(h)' = Names(h)
<1>1. conf' = conf /\ origin' = origin
  <2>1. CASE Jobs = {}
    BY <2>1 DEF Next, LoadStubsAndGroups, vars
  <2>2. CASE Jobs # {}
    BY <2>2, EndedStays
  <2> QED
    BY <2>1, <2>2
<1> QED
  BY <1>1 DEF Names, GroupsOf

LEMMA OwnStep ==
  ASSUME Inv, RecipeVarsAreOwn, [Next]_vars
  PROVE  RecipeVarsAreOwn'
<1> DEFINE Own(a) ==
      /\ OwnOver(a.host, a.inventory.recipe) = OwnOver(a.host, conf.recipe)
      /\ DOMAIN a.inventory.recipe.hostVars \subseteq {a.host}
      /\ DOMAIN a.inventory.recipe.groupVars \subseteq Names(a.host)
<1>1. conf' = conf /\ \A h : Names(h)' = Names(h)
  BY ConfStays
<1>2. ASSUME NEW h, NEW recipe PROVE OwnOver(h, recipe)' = OwnOver(h, recipe)
  BY <1>1 DEF OwnOver, RecipeVars, OwnVars, AssetsOf, GroupLayers
<1>3. RecipeVarsAreOwn <=> \A j \in Jobs : job[j].kind = "answered" => Own(answer[j])
  BY DEF RecipeVarsAreOwn, Answered, OwnOver
<1>4. RecipeVarsAreOwn' <=> \A j \in Jobs : job'[j].kind = "answered" => Own(answer'[j])
  BY <1>1, <1>2 DEF RecipeVarsAreOwn, Answered, OwnOver
<1> SUFFICES ASSUME NEW j \in Jobs, job'[j].kind = "answered" PROVE Own(answer'[j])
  BY <1>4
<1>5. CASE job[j].kind = "answered" /\ answer'[j] = answer[j]
  BY <1>3, <1>5
<1>6. CASE Answer(j)
  <2>1. /\ answer'[j].host = job[j].host
        /\ answer'[j].inventory.recipe = FilterHostVars(job[j].host, conf.recipe)
    BY <1>6, AnswerIs
  <2>2. {"assets", "groupVars", "hostVars"} \subseteq DOMAIN conf.recipe
    BY ConfFacts DEF Inv, TypeInv
  <2> QED
    BY <2>1, <2>2, FilteredIsOwn
<1> QED
  BY <1>5, <1>6, EndedStays

(* The recipe an agent gets gives its host the variables it has in the     *)
(* recipe, and none of other hosts and groups                              *)
(* (filterHostVarsBlockForHost, aggregateHostVars).                        *)
THEOREM RecipeVarsStayOwn == Spec => []RecipeVarsAreOwn
<1>1. Init => RecipeVarsAreOwn
  <2> SUFFICES ASSUME Init PROVE Answered = {}
    BY DEF RecipeVarsAreOwn
  <2> QED
    BY DEF Init, Answered, NoJob
<1>2. Inv /\ RecipeVarsAreOwn /\ [Next]_vars => RecipeVarsAreOwn'
  BY OwnStep
<1> QED
  BY <1>1, <1>2, VariablesInvariant, PTL DEF Spec

-----------------------------------------------------------------------------
(* The variables a run starts with.                                        *)

(* An object that has of each variable what the last layer to give it says.*)
LayeredBy(f, layers) ==
  /\ \A n \in DOMAIN f : \E i \in DOMAIN layers : n \in Given(layers[i])
  /\ \A i \in DOMAIN layers : \A n \in Given(layers[i]) :
       Decides(layers, n, i) => n \in DOMAIN f /\ f[n] \in ValuesOf(layers[i], n)

LEMMA IsListOf ==
  ASSUME NEW N \in Nat, NEW l, IsMap(l), DOMAIN l = 1 .. N
  PROVE  IsList(l) /\ Len(l) = N
<1>1. \A i \in 1 .. N : l[i] \in ToSet(l)
  BY DEF ToSet
<1>2. l = [i \in 1 .. N |-> l[i]]
  BY DEF IsMap
<1>3. PICK S : S = ToSet(l)
  OBVIOUS
<1>4. l \in Seq(S)
  BY <1>1, <1>2, <1>3
<1> QED
  BY <1>3, <1>4 DEF IsList

LEMMA ConcatIs ==
  ASSUME NEW s, NEW t, IsList(s), IsList(t)
  PROVE  /\ IsList(s \o t) /\ DOMAIN (s \o t) = 1 .. Len(s) + Len(t)
         /\ Len(s) \in Nat /\ Len(t) \in Nat /\ DOMAIN s = 1 .. Len(s) /\ DOMAIN t = 1 .. Len(t)
         /\ \A i \in 1 .. Len(s) : (s \o t)[i] = s[i]
         /\ \A i \in 1 .. Len(t) : (s \o t)[Len(s) + i] = t[i]
<1> DEFINE S == ToSet(s) \cup ToSet(t)
<1>1. s \in Seq(S) /\ t \in Seq(S)
  <2>1. /\ s \in Seq(ToSet(s)) /\ \A i \in DOMAIN s : s[i] \in ToSet(s)
        /\ Len(s) \in Nat /\ DOMAIN s = 1 .. Len(s)
    BY ListFacts
  <2>2. /\ t \in Seq(ToSet(t)) /\ \A i \in DOMAIN t : t[i] \in ToSet(t)
        /\ Len(t) \in Nat /\ DOMAIN t = 1 .. Len(t)
    BY ListFacts
  <2> QED
    BY <2>1, <2>2
<1> HIDE DEF S
<1>2. s \o t \in Seq(S) /\ Len(s \o t) = Len(s) + Len(t) /\ Len(s) \in Nat /\ Len(t) \in Nat
  BY <1>1
<1>3. /\ \A i \in 1 .. Len(s) : (s \o t)[i] = s[i]
      /\ \A i \in 1 .. Len(t) : (s \o t)[Len(s) + i] = t[i]
  BY <1>1
<1>4. DOMAIN (s \o t) = 1 .. Len(s) + Len(t) /\ DOMAIN s = 1 .. Len(s) /\ DOMAIN t = 1 .. Len(t)
  BY <1>1, <1>2
<1>5. IsMap(s \o t)
  <2>1. PICK u : u = s \o t
    OBVIOUS
  <2>2. u \in Seq(S)
    BY <1>2, <2>1
  <2>3. u = [i \in 1 .. Len(u) |-> u[i]] /\ DOMAIN u = 1 .. Len(u)
    BY <2>2
  <2> QED
    BY <2>1, <2>3 DEF IsMap
<1>6. IsList(s \o t)
  <2>1. PICK u : u = s \o t
    OBVIOUS
  <2>2. Len(s) + Len(t) \in Nat /\ DOMAIN u = 1 .. Len(s) + Len(t) /\ IsMap(u)
    BY <1>2, <1>4, <1>5, <2>1
  <2>3. IsList(u)
    BY <2>2, IsListOf
  <2> QED
    BY <2>1, <2>3
<1> QED
  BY <1>2, <1>3, <1>4, <1>6

(* Layers over layers.                                                     *)
LEMMA Layered ==
  ASSUME NEW s, NEW t, IsList(s), IsList(t), NEW f, NEW g, LayeredBy(f, s), LayeredBy(g, t)
  PROVE  IsList(s \o t) /\ LayeredBy(Over(g, f), s \o t)
<1> DEFINE N == Len(s)
           M == Len(t)
<1>1. PICK u : u = s \o t
  OBVIOUS
<1>2. /\ IsList(u) /\ DOMAIN u = 1 .. N + M /\ N \in Nat /\ M \in Nat /\ DOMAIN s = 1 .. N /\ DOMAIN t = 1 .. M
      /\ \A i \in 1 .. N : u[i] = s[i]
      /\ \A i \in 1 .. M : u[N + i] = t[i]
  BY <1>1, ConcatIs
<1> HIDE DEF N, M
<1>3. /\ \A i \in 1 .. N : i \in DOMAIN u
      /\ \A i \in 1 .. M : N + i \in DOMAIN u
      /\ \A i \in DOMAIN u : i \in 1 .. N \/ \E k \in 1 .. M : i = N + k
  <2>1. ASSUME NEW i \in DOMAIN u, i \notin 1 .. N PROVE i - N \in 1 .. M /\ i = N + (i - N)
    BY <2>1, <1>2
  <2> QED
    BY <2>1, <1>2
<1>4. ASSUME NEW n \in DOMAIN Over(g, f) PROVE \E i \in DOMAIN u : n \in Given(u[i])
  <2>1. CASE n \in DOMAIN g
    <3>1. PICK k \in 1 .. M : n \in Given(t[k])
      BY <2>1, <1>2 DEF LayeredBy
    <3> QED
      BY <3>1, <1>2, <1>3
  <2>2. CASE n \in DOMAIN f
    <3>1. PICK k \in 1 .. N : n \in Given(s[k])
      BY <2>2, <1>2 DEF LayeredBy
    <3> QED
      BY <3>1, <1>2, <1>3
  <2> QED
    BY <1>4, <2>1, <2>2, OverIs
<1>5. ASSUME NEW i \in DOMAIN u, NEW n \in Given(u[i]), Decides(u, n, i)
      PROVE  n \in DOMAIN Over(g, f) /\ Over(g, f)[n] \in ValuesOf(u[i], n)
  <2>1. \A k \in DOMAIN u : n \in Given(u[k]) => k <= i
    BY <1>5 DEF Decides
  <2>2. ASSUME NEW m \in 1 .. M, i = N + m PROVE n \in DOMAIN g /\ g[n] \in ValuesOf(u[i], n)
    <3>1. u[i] = t[m]
      BY <2>2, <1>2
    <3>2. ASSUME NEW k \in DOMAIN t, n \in Given(t[k]) PROVE k <= m
      <4>1. k \in 1 .. M /\ u[N + k] = t[k] /\ N + k \in DOMAIN u
        BY <1>2, <1>3
      <4>2. N + k <= N + m
        BY <4>1, <3>2, <2>1, <2>2
      <4> QED
        BY <4>1, <4>2, <1>2
    <3>3. Decides(t, n, m)
      BY <3>1, <3>2 DEF Decides
    <3> QED
      BY <3>1, <3>3, <1>2 DEF LayeredBy
  <2>3. ASSUME i \in 1 .. N PROVE n \notin DOMAIN g /\ n \in DOMAIN f /\ f[n] \in ValuesOf(u[i], n)
    <3>1. u[i] = s[i]
      BY <2>3, <1>2
    <3>2. ASSUME NEW k \in DOMAIN s, n \in Given(s[k]) PROVE k <= i
      BY <3>2, <1>2, <1>3, <2>1
    <3>3. Decides(s, n, i)
      BY <3>1, <3>2 DEF Decides
    <3>4. n \notin DOMAIN g
      <4> SUFFICES ASSUME n \in DOMAIN g PROVE FALSE
        OBVIOUS
      <4>1. PICK k \in 1 .. M : n \in Given(t[k])
        BY <1>2 DEF LayeredBy
      <4>2. N + k <= i
        BY <4>1, <1>2, <1>3, <2>1
      <4> QED
        BY <4>2, <2>3, <1>2
    <3> QED
      BY <3>1, <3>3, <3>4, <2>3, <1>2 DEF LayeredBy
  <2> QED
    BY <2>2, <2>3, <1>3, OverAt
<1>6. LayeredBy(Over(g, f), u)
  BY <1>4, <1>5 DEF LayeredBy
<1> QED
  BY <1>1, <1>2, <1>6

(* One layer, whose objects all give the same variables.                   *)
LEMMA OneLayer ==
  ASSUME NEW objects, NEW f \in objects, \A g \in objects : DOMAIN g = DOMAIN f
  PROVE  IsList(<<objects>>) /\ LayeredBy(f, <<objects>>)
<1>1. Given(objects) = DOMAIN f
  BY DEF Given
<1>2. \A n \in DOMAIN f : f[n] \in ValuesOf(objects, n)
  BY DEF ValuesOf
<1>3. IsList(<<objects>>) /\ DOMAIN <<objects>> = 1 .. 1 /\ <<objects>>[1] = objects
  <2>1. IsMap(<<objects>>) /\ DOMAIN <<objects>> = 1 .. 1
    BY DEF IsMap
  <2> QED
    BY <2>1, IsListOf
<1>4. PICK l : l = <<objects>>
  OBVIOUS
<1>5. DOMAIN l = 1 .. 1 /\ l[1] = objects
  BY <1>3, <1>4
<1>6. LayeredBy(f, l)
  BY <1>1, <1>2, <1>5 DEF LayeredBy
<1> QED
  BY <1>3, <1>4, <1>6

(* Objects that are assigned in order.                                     *)
LEMMA ListLayers ==
  ASSUME NEW N \in Nat, NEW c, DOMAIN c = 1 .. N, NEW layers, IsMap(layers), DOMAIN layers = 1 .. N,
         \A i \in 1 .. N : Given(layers[i]) = DOMAIN c[i],
         \A i \in 1 .. N : \A n \in DOMAIN c[i] : c[i][n] \in ValuesOf(layers[i], n)
  PROVE  IsList(layers) /\ LayeredBy(Assigned(Nothing, c), layers)
<1>1. DOMAIN Assigned(Nothing, c) = UNION {DOMAIN c[i] : i \in DOMAIN c}
  <2>1. DOMAIN Assigned(Nothing, c) = DOMAIN Nothing \cup UNION {DOMAIN c[i] : i \in DOMAIN c}
    BY AssignedDomain
  <2>2. DOMAIN Nothing = {}
    BY NothingFacts
  <2> QED
    BY <2>1, <2>2
<1>2. ASSUME NEW i \in DOMAIN layers, NEW n \in Given(layers[i]), Decides(layers, n, i)
      PROVE  n \in DOMAIN Assigned(Nothing, c) /\ Assigned(Nothing, c)[n] \in ValuesOf(layers[i], n)
  <2>1. IsLast(i, Giving(c, n))
    BY <1>2 DEF Decides, IsLast, Giving
  <2>2. i \in DOMAIN c /\ n \in DOMAIN c[i]
    BY <1>2
  <2>3. Agrees(Assigned(Nothing, c), c)
    BY AssignedAgrees
  <2>4. Assigned(Nothing, c)[n] = c[i][n]
    BY <2>1, <2>2, <2>3 DEF Agrees
  <2>5. n \in DOMAIN Assigned(Nothing, c)
    BY <1>1, <2>2
  <2>6. c[i][n] \in ValuesOf(layers[i], n)
    BY <2>2
  <2> QED
    BY <2>4, <2>5, <2>6
<1>3. LayeredBy(Assigned(Nothing, c), layers)
  BY <1>1, <1>2 DEF LayeredBy
<1> QED
  BY <1>3, IsListOf

(* The groups of a host, as they are written in the recipe and as they are *)
(* loaded.                                                                 *)
LEMMA GroupsLayered ==
  ASSUME StateInv, NEW names, NEW varsOf, NEW objectsOf, DOMAIN objectsOf = DOMAIN varsOf,
         \A g \in DOMAIN varsOf :
           varsOf[g] \in objectsOf[g] /\ \A f \in objectsOf[g] : DOMAIN f = DOMAIN varsOf[g]
  PROVE  LET layers == [i \in DOMAIN conf.order |->
                          IF conf.order[i] \in names \cap DOMAIN varsOf
                          THEN objectsOf[conf.order[i]] ELSE {}]
         IN IsList(layers) /\ LayeredBy(GroupLayers(names, varsOf), layers)
<1> DEFINE c == [i \in DOMAIN conf.order |->
                   IF conf.order[i] \in names \cap DOMAIN varsOf THEN varsOf[conf.order[i]] ELSE Nothing]
           layers == [i \in DOMAIN conf.order |->
                        IF conf.order[i] \in names \cap DOMAIN varsOf THEN objectsOf[conf.order[i]] ELSE {}]
<1>1. PICK N \in Nat : DOMAIN conf.order = 1 .. N
  BY ConfFacts, ListFacts
<1>2. DOMAIN c = 1 .. N /\ DOMAIN layers = 1 .. N /\ IsMap(layers)
  BY <1>1 DEF IsMap
<1>3. ASSUME NEW i \in 1 .. N
      PROVE  Given(layers[i]) = DOMAIN c[i] /\ \A n \in DOMAIN c[i] : c[i][n] \in ValuesOf(layers[i], n)
  <2>1. CASE conf.order[i] \in names \cap DOMAIN varsOf
    <3> DEFINE g == conf.order[i]
    <3>1. c[i] = varsOf[g] /\ layers[i] = objectsOf[g]
      BY <1>1, <2>1
    <3>2. varsOf[g] \in objectsOf[g] /\ \A f \in objectsOf[g] : DOMAIN f = DOMAIN varsOf[g]
      BY <2>1
    <3> HIDE DEF c, layers, g
    <3>3. Given(objectsOf[g]) = DOMAIN varsOf[g]
      BY <3>2 DEF Given
    <3>4. \A n \in DOMAIN varsOf[g] : varsOf[g][n] \in ValuesOf(objectsOf[g], n)
      BY <3>2 DEF ValuesOf
    <3> QED
      BY <3>1, <3>3, <3>4
  <2>2. CASE conf.order[i] \notin names \cap DOMAIN varsOf
    <3>1. c[i] = Nothing /\ layers[i] = {}
      BY <1>1, <2>2
    <3> HIDE DEF c, layers
    <3> QED
      BY <3>1, NothingFacts DEF Given
  <2> QED
    BY <2>1, <2>2
<1>4. GroupLayers(names, varsOf) = Assigned(Nothing, c)
  BY DEF GroupLayers
<1> HIDE DEF c, layers
<1>5. IsList(layers) /\ LayeredBy(Assigned(Nothing, c), layers)
  BY <1>2, <1>3, ListLayers
<1> QED
  BY <1>4, <1>5 DEF layers

(* What a run finds when it starts its tasks: its layers one by one.       *)
LEMMA Pieces ==
  ASSUME Inv, NEW j \in Jobs, RunTasks(j), NEW h, h = job[j].host
  PROVE  /\ start'[j] = Over(held[LoadC], StartVars(h))
         /\ \A id \in {InventoryC, RecipeC, LoadC, HostC(h)} :
              /\ held[id] \in Whole(id)
              /\ IsList(<<Whole(id)>>) /\ LayeredBy(held[id], <<Whole(id)>>)
         /\ \A g \in DOMAIN conf.groups : held[GroupC(g)] \in Whole(GroupC(g))
         /\ \A names :
              /\ IsList(GroupsWhole(names))
              /\ LayeredBy(GroupLayers(names, HeldGroups), GroupsWhole(names))
         /\ \A names :
              /\ IsList(GroupsWritten(names, conf.recipe.groupVars))
              /\ LayeredBy(GroupLayers(names, conf.recipe.groupVars),
                           GroupsWritten(names, conf.recipe.groupVars))
<1>1. job[j].kind = "run" /\ job[j].plan = <<>>
  BY DEF RunTasks
<1>2. start'[j] = Over(held[LoadC], StartVars(h))
  BY DEF RunTasks, Inv, TypeInv, StateInv
<1>3. ASSUME NEW id \in {InventoryC, RecipeC, LoadC, HostC(h)}
      PROVE  /\ held[id] \in Whole(id)
             /\ IsList(<<Whole(id)>>) /\ LayeredBy(held[id], <<Whole(id)>>)
  <2>1. ToSet(job[j].plan) = {}
    BY <1>1 DEF ToSet
  <2>2. id \in Needed(h)
    BY DEF Needed
  <2>3. held[id] \in Whole(id) /\ \A g \in Whole(id) : DOMAIN g = DOMAIN held[id]
    BY <1>1, <2>1, <2>2, WholeGives DEF Inv, RunInv
  <2> QED
    BY <2>3, OneLayer
<1>4. ASSUME NEW g \in DOMAIN conf.groups PROVE held[GroupC(g)] \in Whole(GroupC(g))
  <2>1. mode = "local"
    BY <1>1 DEF Inv, ModeInv
  <2> QED
    BY <2>1 DEF Inv, GroupsInv
<1>5. ASSUME NEW names
      PROVE  /\ IsList(GroupsWhole(names))
             /\ LayeredBy(GroupLayers(names, HeldGroups), GroupsWhole(names))
  <2> DEFINE objectsOf == [g \in DOMAIN conf.groups |-> Whole(GroupC(g))]
             layers == [i \in DOMAIN conf.order |->
                          IF conf.order[i] \in names \cap DOMAIN HeldGroups
                          THEN objectsOf[conf.order[i]] ELSE {}]
  <2>1. DOMAIN HeldGroups = DOMAIN conf.groups /\ \A g \in DOMAIN conf.groups : HeldGroups[g] = held[GroupC(g)]
    BY DEF HeldGroups
  <2>2. ASSUME NEW g \in DOMAIN HeldGroups
        PROVE  HeldGroups[g] \in objectsOf[g] /\ \A f \in objectsOf[g] : DOMAIN f = DOMAIN HeldGroups[g]
    <3>1. HeldGroups[g] \in Whole(GroupC(g)) /\ objectsOf[g] = Whole(GroupC(g))
      BY <2>1, <1>4
    <3> QED
      BY <3>1, WholeGives
  <2>3. DOMAIN objectsOf = DOMAIN HeldGroups
    BY <2>1
  <2>4. layers = GroupsWhole(names)
    BY <2>1 DEF GroupsWhole
  <2> HIDE DEF objectsOf
  <2>5. IsList(layers) /\ LayeredBy(GroupLayers(names, HeldGroups), layers)
    BY <2>2, <2>3, GroupsLayered DEF Inv, TypeInv
  <2> HIDE DEF layers
  <2> QED
    BY <2>4, <2>5
<1>6. ASSUME NEW names
      PROVE  /\ IsList(GroupsWritten(names, conf.recipe.groupVars))
             /\ LayeredBy(GroupLayers(names, conf.recipe.groupVars),
                          GroupsWritten(names, conf.recipe.groupVars))
  <2> DEFINE varsOf == conf.recipe.groupVars
             objectsOf == [g \in DOMAIN varsOf |-> {varsOf[g]}]
             layers == [i \in DOMAIN conf.order |->
                          IF conf.order[i] \in names \cap DOMAIN varsOf
                          THEN objectsOf[conf.order[i]] ELSE {}]
  <2>1. /\ DOMAIN objectsOf = DOMAIN varsOf
        /\ \A g \in DOMAIN varsOf : varsOf[g] \in objectsOf[g] /\ \A f \in objectsOf[g] : DOMAIN f = DOMAIN varsOf[g]
    OBVIOUS
  <2>2. layers = GroupsWritten(names, varsOf)
    BY DEF GroupsWritten
  <2> HIDE DEF objectsOf, varsOf
  <2>3. IsList(layers) /\ LayeredBy(GroupLayers(names, varsOf), layers)
    BY <2>1, GroupsLayered DEF Inv, TypeInv
  <2> HIDE DEF layers
  <2> QED
    BY <2>2, <2>3 DEF varsOf
<1> QED
  BY <1>2, <1>3, <1>4, <1>5, <1>6

(* Layers that are put over each other one after the other.                *)
LEMMA StartIs ==
  ASSUME Inv, NEW j \in Jobs, RunTasks(j)
  PROVE  LayeredBy(start'[j], Layers(job[j].host))
<1> DEFINE h == job[j].host
           l1 == <<Whole(InventoryC)>>
           l2 == l1 \o GroupsWhole(Names(h))
           l3 == l2 \o <<{AssetsOf(conf.recipe)}>>
           l4 == l3 \o GroupsWritten(Names(h), conf.recipe.groupVars)
           l5 == l4 \o <<Whole(HostC(h))>>
           l6 == l5 \o <<{OwnVars(conf.recipe, h)}>>
           l7 == l6 \o <<Whole(RecipeC)>>
           l8 == l7 \o <<Whole(LoadC)>>
           f1 == held[InventoryC]
           f2 == Over(GroupLayers(Names(h), HeldGroups), f1)
           f3 == Over(AssetsOf(conf.recipe), f2)
           f4 == Over(GroupLayers(Names(h), conf.recipe.groupVars), f3)
           f5 == Over(held[HostC(h)], f4)
           f6 == Over(OwnVars(conf.recipe, h), f5)
           f7 == Over(held[RecipeC], f6)
           f8 == Over(held[LoadC], f7)
<1>2. start'[j] = f8
  BY Pieces DEF StartVars, RecipeVars, BaseVars
<1>5. ASSUME NEW id \in {InventoryC, RecipeC, LoadC, HostC(h)}
      PROVE  IsList(<<Whole(id)>>) /\ LayeredBy(held[id], <<Whole(id)>>)
  BY Pieces
<1>6. ASSUME NEW f PROVE IsList(<<{f}>>) /\ LayeredBy(f, <<{f}>>)
  BY OneLayer
<1>7. IsList(GroupsWhole(Names(h))) /\ LayeredBy(GroupLayers(Names(h), HeldGroups), GroupsWhole(Names(h)))
  BY Pieces
<1>8. /\ IsList(GroupsWritten(Names(h), conf.recipe.groupVars))
      /\ LayeredBy(GroupLayers(Names(h), conf.recipe.groupVars), GroupsWritten(Names(h), conf.recipe.groupVars))
  BY Pieces
<1>10. IsList(l1) /\ LayeredBy(f1, l1)
  BY <1>5
<1>11. IsList(l2) /\ LayeredBy(f2, l2)
  <2> HIDE DEF l1, f1
  <2> QED
    BY <1>10, <1>7, Layered
<1>12. IsList(l3) /\ LayeredBy(f3, l3)
  <2> HIDE DEF l2, f2
  <2> QED
    BY <1>11, <1>6, Layered
<1>13. IsList(l4) /\ LayeredBy(f4, l4)
  <2> HIDE DEF l3, f3
  <2> QED
    BY <1>12, <1>8, Layered
<1>14. IsList(l5) /\ LayeredBy(f5, l5)
  <2> HIDE DEF l4, f4
  <2> QED
    BY <1>13, <1>5, Layered
<1>15. IsList(l6) /\ LayeredBy(f6, l6)
  <2> HIDE DEF l5, f5
  <2> QED
    BY <1>14, <1>6, Layered
<1>16. IsList(l7) /\ LayeredBy(f7, l7)
  <2> HIDE DEF l6, f6
  <2> QED
    BY <1>15, <1>5, Layered
<1>17. LayeredBy(f8, l8)
  <2> HIDE DEF l7, f7
  <2> QED
    BY <1>16, <1>5, Layered
<1>18. l8 = Layers(h)
  BY DEF Layers
<1> HIDE DEF l8, f8, h
<1>19. LayeredBy(start'[j], Layers(h))
  BY <1>2, <1>17, <1>18
<1> QED
  BY <1>19 DEF h

(* Where `all' comes first, the groups are `all' and the others over it.   *)
LEMMA GroupsApart ==
  ASSUME StateInv, AllComesFirst, NEW names, NEW varsOf, NEW n
  PROVE  LET both == GroupLayers(names, varsOf)
             all == GroupLayers(names \cap {"all"}, varsOf)
             others == GroupLayers(names \ {"all"}, varsOf)
         IN /\ n \in DOMAIN others => n \in DOMAIN both /\ both[n] = others[n]
            /\ n \in DOMAIN all => n \in DOMAIN both
            /\ n \in DOMAIN all \ DOMAIN others => both[n] = all[n]
            /\ n \in DOMAIN both => n \in DOMAIN all \cup DOMAIN others
<1> DEFINE c(part) == [i \in DOMAIN conf.order |->
                         IF conf.order[i] \in part \cap DOMAIN varsOf THEN varsOf[conf.order[i]] ELSE Nothing]
           all == names \cap {"all"}
           others == names \ {"all"}
<1>1. PICK N \in Nat : DOMAIN conf.order = 1 .. N
  BY ConfFacts, ListFacts
<1>2. /\ DOMAIN Nothing = {}
      /\ \A part : DOMAIN c(part) = 1 .. N /\ GroupLayers(part, varsOf) = Assigned(Nothing, c(part))
  BY <1>1, NothingFacts DEF GroupLayers
<1>3. \A part : \A i \in 1 .. N :
        /\ n \in DOMAIN c(part)[i] <=>
             conf.order[i] \in part /\ conf.order[i] \in DOMAIN varsOf /\ n \in DOMAIN varsOf[conf.order[i]]
        /\ conf.order[i] \in part \cap DOMAIN varsOf => c(part)[i] = varsOf[conf.order[i]]
  BY <1>1, <1>2
<1>4. ASSUME NEW part, NEW i \in 1 .. N, IsLast(i, Giving(c(part), n))
      PROVE  GroupLayers(part, varsOf)[n] = c(part)[i][n]
  <2>1. PICK d : d = c(part)
    OBVIOUS
  <2>2. DOMAIN d = 1 .. N /\ GroupLayers(part, varsOf) = Assigned(Nothing, d)
    BY <1>2, <2>1
  <2>3. Agrees(Assigned(Nothing, d), d) /\ IsLast(i, Giving(d, n))
    BY <1>4, <2>1, <2>2, AssignedAgrees
  <2>4. i \in DOMAIN d /\ n \in DOMAIN d[i]
    BY <2>2, <2>3 DEF IsLast, Giving
  <2> QED
    BY <2>1, <2>2, <2>3, <2>4 DEF Agrees
<1>5. \A part : Giving(c(part), n) =
        {i \in 1 .. N : conf.order[i] \in part /\ conf.order[i] \in DOMAIN varsOf /\ n \in DOMAIN varsOf[conf.order[i]]}
  BY <1>2, <1>3 DEF Giving
<1>6. \A part : n \in DOMAIN GroupLayers(part, varsOf) <=> Giving(c(part), n) # {}
  <2> SUFFICES ASSUME NEW part PROVE n \in DOMAIN GroupLayers(part, varsOf) <=> Giving(c(part), n) # {}
    OBVIOUS
  <2>1. PICK d : d = c(part)
    OBVIOUS
  <2>2. DOMAIN d = 1 .. N /\ GroupLayers(part, varsOf) = Assigned(Nothing, d)
    BY <1>2, <2>1
  <2>3. n \in DOMAIN GroupLayers(part, varsOf) <=> \E i \in 1 .. N : n \in DOMAIN d[i]
    <3>1. DOMAIN Assigned(Nothing, d) = DOMAIN Nothing \cup UNION {DOMAIN d[i] : i \in DOMAIN d}
      BY AssignedDomain
    <3> QED
      BY <1>2, <2>2, <3>1
  <2>4. Giving(d, n) = {i \in 1 .. N : n \in DOMAIN d[i]}
    BY <2>2 DEF Giving
  <2>5. n \in DOMAIN GroupLayers(part, varsOf) <=> Giving(d, n) # {}
    BY <2>3, <2>4
  <2> QED
    BY <2>1, <2>5
<1> HIDE DEF c
<1>7. Giving(c(names), n) = Giving(c(all), n) \cup Giving(c(others), n)
  BY <1>5
<1>8. ASSUME NEW part \in {all, others}, NEW i \in 1 .. N, IsLast(i, Giving(c(part), n)),
             IsLast(i, Giving(c(names), n))
      PROVE  GroupLayers(names, varsOf)[n] = GroupLayers(part, varsOf)[n]
  <2>1. conf.order[i] \in part \cap DOMAIN varsOf /\ conf.order[i] \in names \cap DOMAIN varsOf
    BY <1>5, <1>8 DEF IsLast
  <2>2. c(part)[i] = c(names)[i]
    BY <1>3, <2>1
  <2> QED
    BY <1>4, <1>8, <2>2
<1>9. ASSUME Giving(c(others), n) # {}
       PROVE  GroupLayers(names, varsOf)[n] = GroupLayers(others, varsOf)[n]
  <2>1. PICK i \in Giving(c(others), n) : IsLast(i, Giving(c(others), n))
    <3>1. Giving(c(others), n) \subseteq 1 .. N
      BY <1>5
    <3> QED
      BY <1>9, <3>1, LastOne
  <2>2. i \in 1 .. N /\ conf.order[i] # "all"
    BY <1>5
  <2>3. ASSUME NEW k \in Giving(c(all), n) PROVE k <= i
    <3>1. k \in 1 .. N /\ conf.order[k] = "all"
      BY <1>5
    <3> QED
      BY <1>1, <2>2, <3>1 DEF AllComesFirst
  <2>4. IsLast(i, Giving(c(names), n))
    BY <1>7, <2>1, <2>3 DEF IsLast
  <2> QED
    BY <1>8, <2>1, <2>2, <2>4
<1>10. ASSUME Giving(c(others), n) = {}, Giving(c(all), n) # {}
       PROVE  GroupLayers(names, varsOf)[n] = GroupLayers(all, varsOf)[n]
  <2>1. PICK i \in Giving(c(all), n) : IsLast(i, Giving(c(all), n))
    <3>1. Giving(c(all), n) \subseteq 1 .. N
      BY <1>5
    <3> QED
      BY <1>10, <3>1, LastOne
  <2>2. i \in 1 .. N /\ IsLast(i, Giving(c(names), n))
    BY <1>5, <1>7, <1>10, <2>1
  <2> QED
    BY <1>8, <2>1, <2>2
<1> QED
  BY <1>6, <1>7, <1>9, <1>10

(* Two objects give one variable alike, or neither gives it.               *)
SameAt(n, f, g) == (n \in DOMAIN f <=> n \in DOMAIN g) /\ (n \in DOMAIN g => f[n] = g[n])

LEMMA SameFacts ==
  ASSUME NEW n, NEW new, NEW f, NEW g
  PROVE  /\ n \in DOMAIN new => SameAt(n, Over(new, f), new)
         /\ n \notin DOMAIN new => SameAt(n, Over(new, f), f)
         /\ SameAt(n, f, g) => SameAt(n, Over(new, f), Over(new, g))
BY DEF Over, SameAt

LEMMA SameThrough ==
  ASSUME NEW n, NEW e, NEW f, NEW g, SameAt(n, f, g)
  PROVE  /\ SameAt(n, g, f)
         /\ SameAt(n, e, f) => SameAt(n, e, g)
         /\ SameAt(n, e, g) => SameAt(n, e, f)
BY DEF SameAt

(* Two objects over a third, each with a part over its rest: they may be   *)
(* put over it part by part, if no rest is over the part of the other.     *)
LEMMA PartByPart ==
  ASSUME NEW n, NEW f,
         NEW g1, NEW a1, NEW o1, NEW g2, NEW a2, NEW o2,
         n \in DOMAIN o1 => SameAt(n, g1, o1), n \notin DOMAIN o1 => SameAt(n, g1, a1),
         n \in DOMAIN o2 => SameAt(n, g2, o2), n \notin DOMAIN o2 => SameAt(n, g2, a2),
         ~(n \in DOMAIN a2 /\ n \in DOMAIN o1)
  PROVE  SameAt(n, Over(g2, Over(g1, f)), Over(o2, Over(o1, Over(a2, Over(a1, f)))))
<1>1. PICK s1, s2, e1, e2, e3, e4 :
        /\ s1 = Over(g1, f) /\ s2 = Over(g2, s1)
        /\ e1 = Over(a1, f) /\ e2 = Over(a2, e1) /\ e3 = Over(o1, e2) /\ e4 = Over(o2, e3)
  OBVIOUS
<1>2. /\ n \in DOMAIN g1 => SameAt(n, s1, g1)
      /\ n \notin DOMAIN g1 => SameAt(n, s1, f)
      /\ n \in DOMAIN g2 => SameAt(n, s2, g2)
      /\ n \notin DOMAIN g2 => SameAt(n, s2, s1)
  BY <1>1, SameFacts
<1>3. /\ n \in DOMAIN a1 => SameAt(n, e1, a1)
      /\ n \notin DOMAIN a1 => SameAt(n, e1, f)
      /\ n \in DOMAIN a2 => SameAt(n, e2, a2)
      /\ n \notin DOMAIN a2 => SameAt(n, e2, e1)
      /\ n \in DOMAIN o1 => SameAt(n, e3, o1)
      /\ n \notin DOMAIN o1 => SameAt(n, e3, e2)
      /\ n \in DOMAIN o2 => SameAt(n, e4, o2)
      /\ n \notin DOMAIN o2 => SameAt(n, e4, e3)
  BY <1>1, SameFacts
<1>4. SameAt(n, s2, e4)
  BY <1>2, <1>3 DEF SameAt
<1> QED
  BY <1>1, <1>4

(* The documented order makes the same of a variable that is not left out. *)
LEMMA StartIsDocumented ==
  ASSUME Inv, AllComesFirst, NEW j \in Jobs, RunTasks(j), NEW h, h = job[j].host
  PROVE  Decided(start'[j], DocumentedLayers(h), Undocumented \cup OverruledByAll(h))
<1> DEFINE written == conf.recipe.groupVars
           l1 == <<Whole(InventoryC)>>
           l2 == l1 \o GroupsWhole(Everybody(h))
           l3 == l2 \o GroupsWritten(Everybody(h), written)
           l4 == l3 \o GroupsWhole(Others(h))
           l5 == l4 \o GroupsWritten(Others(h), written)
           l6 == l5 \o <<Whole(HostC(h))>>
           l7 == l6 \o <<{OwnVars(conf.recipe, h)}>>
           f1 == held[InventoryC]
           f2 == Over(GroupLayers(Everybody(h), HeldGroups), f1)
           f3 == Over(GroupLayers(Everybody(h), written), f2)
           f4 == Over(GroupLayers(Others(h), HeldGroups), f3)
           f5 == Over(GroupLayers(Others(h), written), f4)
           f6 == Over(held[HostC(h)], f5)
           f7 == Over(OwnVars(conf.recipe, h), f6)
<1>1. \A names : /\ IsList(GroupsWhole(names))
                 /\ LayeredBy(GroupLayers(names, HeldGroups), GroupsWhole(names))
                 /\ IsList(GroupsWritten(names, written))
                 /\ LayeredBy(GroupLayers(names, written), GroupsWritten(names, written))
  BY Pieces
<1>2. /\ IsList(<<Whole(HostC(h))>>) /\ LayeredBy(held[HostC(h)], <<Whole(HostC(h))>>)
      /\ IsList(l1) /\ LayeredBy(f1, l1)
  BY Pieces
<1>3. IsList(<<{OwnVars(conf.recipe, h)}>>) /\ LayeredBy(OwnVars(conf.recipe, h), <<{OwnVars(conf.recipe, h)}>>)
  BY OneLayer
<1>4. LayeredBy(f7, DocumentedLayers(h))
  <2>1. IsList(l2) /\ LayeredBy(f2, l2)
    <3> HIDE DEF l1, f1, written
    <3> QED
      BY <1>1, <1>2, Layered
  <2>2. IsList(l3) /\ LayeredBy(f3, l3)
    <3> HIDE DEF l2, f2, written
    <3> QED
      BY <1>1, <2>1, Layered
  <2>3. IsList(l4) /\ LayeredBy(f4, l4)
    <3> HIDE DEF l3, f3, written
    <3> QED
      BY <1>1, <2>2, Layered
  <2>4. IsList(l5) /\ LayeredBy(f5, l5)
    <3> HIDE DEF l4, f4, written
    <3> QED
      BY <1>1, <2>3, Layered
  <2>5. IsList(l6) /\ LayeredBy(f6, l6)
    <3> HIDE DEF l5, f5
    <3> QED
      BY <1>2, <2>4, Layered
  <2>6. LayeredBy(f7, l7)
    <3> HIDE DEF l6, f6
    <3> QED
      BY <1>3, <2>5, Layered
  <2>7. l7 = DocumentedLayers(h)
    BY DEF DocumentedLayers
  <2> HIDE DEF l7, f7
  <2> QED
    BY <2>6, <2>7
<1>5. start'[j] = Over(held[LoadC], Over(held[RecipeC], Over(OwnVars(conf.recipe, h), Over(held[HostC(h)],
                    Over(GroupLayers(Names(h), written), Over(AssetsOf(conf.recipe),
                      Over(GroupLayers(Names(h), HeldGroups), held[InventoryC])))))))
  BY Pieces DEF StartVars, RecipeVars, BaseVars
<1>6. ASSUME NEW n \in DOMAIN f7, n \notin Undocumented \cup OverruledByAll(h)
      PROVE  n \in DOMAIN start'[j] /\ start'[j][n] = f7[n]
  <2>1. n \notin DOMAIN held[LoadC] /\ n \notin DOMAIN held[RecipeC] /\ n \notin DOMAIN AssetsOf(conf.recipe)
    <3>1. held[LoadC] \in Whole(LoadC) /\ held[RecipeC] \in Whole(RecipeC)
      BY Pieces
    <3> QED
      BY <1>6, <3>1 DEF Undocumented, Given
  <2>2. ~(n \in DOMAIN GroupLayers(Everybody(h), written) /\ n \in DOMAIN GroupLayers(Others(h), HeldGroups))
    <3> SUFFICES ASSUME n \in DOMAIN GroupLayers(Everybody(h), written),
                        n \in DOMAIN GroupLayers(Others(h), HeldGroups)
                 PROVE  n \in OverruledByAll(h)
      BY <1>6
    <3>1. PICK i \in DOMAIN GroupsWritten(Everybody(h), written) : n \in Given(GroupsWritten(Everybody(h), written)[i])
      BY <1>1 DEF LayeredBy
    <3>2. PICK k \in DOMAIN GroupsWhole(Others(h)) : n \in Given(GroupsWhole(Others(h))[k])
      BY <1>1 DEF LayeredBy
    <3>3. conf.order[i] \in Everybody(h) \cap DOMAIN written /\ n \in DOMAIN written[conf.order[i]]
      BY <3>1 DEF GroupsWritten, Given
    <3>4. conf.order[k] \in Others(h) \cap DOMAIN conf.groups /\ n \in Given(Whole(GroupC(conf.order[k])))
      BY <3>2 DEF GroupsWhole, Given
    <3> QED
      BY <3>3, <3>4 DEF OverruledByAll, Given
  <2>3. ASSUME NEW varsOf
        PROVE  LET both == GroupLayers(Names(h), varsOf)
                   all == GroupLayers(Everybody(h), varsOf)
                   others == GroupLayers(Others(h), varsOf)
               IN /\ n \in DOMAIN others => SameAt(n, both, others)
                  /\ n \notin DOMAIN others => SameAt(n, both, all)
    <3> DEFINE both == GroupLayers(Names(h), varsOf)
               all == GroupLayers(Everybody(h), varsOf)
               others == GroupLayers(Others(h), varsOf)
    <3>1. /\ n \in DOMAIN others => n \in DOMAIN both /\ both[n] = others[n]
          /\ n \in DOMAIN all => n \in DOMAIN both
          /\ n \in DOMAIN all \ DOMAIN others => both[n] = all[n]
          /\ n \in DOMAIN both => n \in DOMAIN all \cup DOMAIN others
      BY GroupsApart DEF Everybody, Others, Inv, TypeInv
    <3> HIDE DEF both, all, others
    <3>2. /\ n \in DOMAIN others => SameAt(n, both, others)
          /\ n \notin DOMAIN others => SameAt(n, both, all)
      BY <3>1 DEF SameAt
    <3> QED
      BY <3>2 DEF both, all, others
  <2>4. PICK gH, aH, oH, gW, aW, oW, in, s, e :
          /\ gH = GroupLayers(Names(h), HeldGroups) /\ gW = GroupLayers(Names(h), written)
          /\ aH = GroupLayers(Everybody(h), HeldGroups) /\ aW = GroupLayers(Everybody(h), written)
          /\ oH = GroupLayers(Others(h), HeldGroups) /\ oW = GroupLayers(Others(h), written)
          /\ in = held[InventoryC]
          /\ s = Over(gW, Over(gH, in))
          /\ e = Over(oW, Over(oH, Over(aW, Over(aH, in))))
    OBVIOUS
  <2>5. SameAt(n, s, e)
    <3>1. /\ n \in DOMAIN oH => SameAt(n, gH, oH)
          /\ n \notin DOMAIN oH => SameAt(n, gH, aH)
      BY <2>3, <2>4
    <3>2. /\ n \in DOMAIN oW => SameAt(n, gW, oW)
          /\ n \notin DOMAIN oW => SameAt(n, gW, aW)
      BY <2>3, <2>4
    <3>3. ~(n \in DOMAIN aW /\ n \in DOMAIN oH)
      BY <2>2, <2>4
    <3>4. SameAt(n, Over(gW, Over(gH, in)), Over(oW, Over(oH, Over(aW, Over(aH, in)))))
      BY <3>1, <3>2, <3>3, PartByPart
    <3> QED
      BY <2>4, <3>4
  <2>6. PICK hostVars, own, assets, s2, t, t2, u, u2 :
          /\ hostVars = held[HostC(h)] /\ own = OwnVars(conf.recipe, h)
          /\ assets = AssetsOf(conf.recipe)
          /\ s2 = Over(gW, Over(assets, Over(gH, in)))
          /\ t = Over(hostVars, s2) /\ t2 = Over(own, t)
          /\ u = Over(hostVars, e) /\ u2 = Over(own, u)
    OBVIOUS
  <2>7. start'[j] = Over(held[LoadC], Over(held[RecipeC], t2)) /\ f7 = u2
    BY <1>5, <2>4, <2>6
  <2> HIDE DEF f7
  <2>8. SameAt(n, s2, s)
    BY <2>1, <2>4, <2>6, SameFacts
  <2>9. SameAt(n, s2, e)
    BY <2>5, <2>8, SameThrough
  <2>10. SameAt(n, t, u)
    BY <2>6, <2>9, SameFacts
  <2>11. SameAt(n, t2, u2)
    BY <2>6, <2>10, SameFacts
  <2>12. SameAt(n, start'[j], Over(held[RecipeC], t2)) /\ SameAt(n, Over(held[RecipeC], t2), t2)
    BY <2>1, <2>7, SameFacts
  <2>13. SameAt(n, start'[j], u2)
    BY <2>11, <2>12, SameThrough
  <2> QED
    BY <1>6, <2>7, <2>13 DEF SameAt
<1> QED
  BY <1>4, <1>6 DEF Decided, LayeredBy

LEMMA LayersRigid ==
  ASSUME conf' = conf, origin' = origin
  PROVE  /\ \A h : /\ Layers(h)' = Layers(h) /\ DocumentedLayers(h)' = DocumentedLayers(h)
                   /\ OverruledByAll(h)' = OverruledByAll(h)
         /\ Undocumented' = Undocumented /\ AllComesFirst' = AllComesFirst
<1>1. \A id : Whole(id)' = Whole(id)
  BY Rigid
<1>2. /\ AllComesFirst' = AllComesFirst
      /\ Undocumented' = Undocumented
  BY <1>1 DEF AllComesFirst, Undocumented, Given, AssetsOf, RecipeC, LoadC
<1> SUFFICES ASSUME NEW h
             PROVE  /\ Layers(h)' = Layers(h) /\ DocumentedLayers(h)' = DocumentedLayers(h)
                    /\ OverruledByAll(h)' = OverruledByAll(h)
  BY <1>2
<1>3. Names(h)' = Names(h) /\ Everybody(h)' = Everybody(h) /\ Others(h)' = Others(h)
  BY DEF Names, GroupsOf, Everybody, Others
<1>4. \A names : /\ GroupsWhole(names)' = GroupsWhole(names)
                 /\ GroupsWritten(names, conf.recipe.groupVars)' = GroupsWritten(names, conf.recipe.groupVars)
  BY <1>1 DEF GroupsWhole, GroupC, GroupsWritten
<1>5. Layers(h)' = Layers(h)
  BY <1>1, <1>3, <1>4 DEF Layers, InventoryC, RecipeC, LoadC, HostC, AssetsOf, OwnVars
<1>6. DocumentedLayers(h)' = DocumentedLayers(h)
  BY <1>1, <1>3, <1>4 DEF DocumentedLayers, InventoryC, HostC, OwnVars
<1>7. OverruledByAll(h)' = OverruledByAll(h)
  BY <1>1, <1>3 DEF OverruledByAll, GroupC, Given
<1> QED
  BY <1>5, <1>6, <1>7

(* The property, host by host.                                             *)
DecidedFor(f, h) ==
  /\ Decided(f, Layers(h), {})
  /\ AllComesFirst => Decided(f, DocumentedLayers(h), Undocumented \cup OverruledByAll(h))
StartsDecided ==
  \A j \in Jobs : \A h : job[j].kind = "ran" /\ job[j].host = h => DecidedFor(start[j], h)

LEMMA SameStarts == StartsDecided => StartsLayered
BY DEF StartsDecided, StartsLayered, DecidedFor

LEMMA LayersStep ==
  ASSUME Inv, StartsDecided, [Next]_vars
  PROVE  StartsDecided'
<1>1. \A j \in Jobs : \A h : DecidedFor(start[j], h)' <=> DecidedFor(start'[j], h)
  BY ConfStays, LayersRigid DEF DecidedFor, Decided, Decides, Given, ValuesOf
<1> SUFFICES ASSUME NEW j \in Jobs, NEW h, job'[j].kind = "ran", job'[j].host = h
             PROVE  DecidedFor(start'[j], h)
  BY <1>1 DEF StartsDecided
<1>2. CASE job[j].kind = "ran" /\ job[j].host = job'[j].host /\ start'[j] = start[j]
  BY <1>2 DEF StartsDecided
<1>3. CASE RunTasks(j)
  <2>1. job'[j].host = job[j].host
    BY <1>3, KindIs DEF RunTasks, Inv
  <2>2. Decided(start'[j], Layers(h), {})
    BY <1>3, <2>1, StartIs DEF Decided, LayeredBy
  <2>3. AllComesFirst => Decided(start'[j], DocumentedLayers(h), Undocumented \cup OverruledByAll(h))
    BY <1>3, <2>1, StartIsDocumented
  <2> QED
    BY <2>2, <2>3 DEF DecidedFor
<1> QED
  BY <1>2, <1>3, EndedStays

(* A run starts its tasks with variables of which each has the value that  *)
(* the last layer to give it, written or loaded, has for it                *)
(* (aggregateBaseVarsForHost, aggregateHostVars, the module `load').       *)
THEOREM StartsAreLayered == Spec => []StartsLayered
<1>1. Init => StartsDecided
  <2> SUFFICES ASSUME Init PROVE \A j \in Jobs : job[j].kind # "ran"
    BY DEF StartsDecided
  <2> QED
    BY DEF Init, NoJob
<1>2. Inv /\ StartsDecided /\ [Next]_vars => StartsDecided'
  BY LayersStep
<1>3. StartsDecided => StartsLayered
  BY SameStarts
<1> QED
  BY <1>1, <1>2, <1>3, VariablesInvariant, PTL DEF Spec

-----------------------------------------------------------------------------
(* The variables of a recipe that runs (VarScopes).                        *)

(* Sequences put one after the other, one at a time.                        *)
LEMMA FlattenFacts ==
  ASSUME NEW seqs, Len(seqs) \in Nat \ {0}
  PROVE  \E f : /\ f[1] = seqs[1] /\ \A i \in 2 .. Len(seqs) : f[i] = f[i - 1] \o seqs[i]
               /\ FlattenSeq(seqs) = f[Len(seqs)]
<1> DEFINE N == Len(seqs)
           Flat(n, g) == g = [i \in 1 .. n |-> IF i = 1 THEN seqs[i] ELSE g[i - 1] \o seqs[i]]
           Bad == {n \in 1 .. N : ~ \E g : Flat(n, g)}
<1>5. N \in Nat /\ N # 0
  OBVIOUS
<1> HIDE DEF N, Flat
<1>1. Bad = {}
  <2> SUFFICES ASSUME Bad # {} PROVE FALSE
    OBVIOUS
  <2>1. Bad \subseteq Nat
    BY <1>5
  <2>2. PICK n \in Bad : \A m \in Bad : n <= m
    BY <2>1, LeastNumber
  <2>3. n \in 1 .. N /\ n \in Nat /\ n <= N /\ n # 0 /\ ~ \E g : Flat(n, g)
    BY <1>5
  <2>4. CASE n = 1
    <3> DEFINE h == [i \in 1 .. 1 |-> seqs[i]]
    <3>1. h = [i \in 1 .. 1 |-> IF i = 1 THEN seqs[i] ELSE h[i - 1] \o seqs[i]]
      OBVIOUS
    <3> QED
      BY <2>3, <2>4, <3>1 DEF Flat
  <2>5. CASE n # 1
    <3>1. n - 1 \in Nat /\ n - 1 \in 1 .. N /\ ~ (n <= n - 1)
      BY <1>5, <2>3, <2>5
    <3>2. PICK g : Flat(n - 1, g)
      BY <2>2, <3>1
    <3> DEFINE h == [i \in 1 .. n |-> IF i < n THEN g[i] ELSE g[n - 1] \o seqs[n]]
    <3>3. ASSUME NEW i \in 1 .. n
          PROVE  h[i] = IF i = 1 THEN seqs[i] ELSE h[i - 1] \o seqs[i]
      <4>1. CASE i = n
        <5>1. h[n] = g[n - 1] \o seqs[n]
          <6>1. n \in 1 .. n /\ ~ (n < n)
            BY <2>3
          <6> QED
            BY <6>1
        <5>2. h[n - 1] = g[n - 1]
          BY <2>3, <2>5, <3>1
        <5> QED
          BY <2>5, <4>1, <5>1, <5>2
      <4>2. CASE i < n
        <5>1. i \in 1 .. n - 1 /\ h[i] = g[i]
          BY <2>3, <4>2
        <5>2. g[i] = IF i = 1 THEN seqs[i] ELSE g[i - 1] \o seqs[i]
          BY <3>2, <5>1 DEF Flat
        <5>3. i # 1 => h[i - 1] = g[i - 1]
          BY <2>3, <5>1
        <5> QED
          BY <5>1, <5>2, <5>3
      <4> QED
        BY <2>3, <4>1, <4>2
    <3>4. h = [i \in 1 .. n |-> h[i]]
      OBVIOUS
    <3> HIDE DEF h
    <3>5. h = [i \in 1 .. n |-> IF i = 1 THEN seqs[i] ELSE h[i - 1] \o seqs[i]]
      BY <3>3, <3>4
    <3> QED
      BY <2>3, <3>5 DEF Flat
  <2> QED
    BY <2>4, <2>5
<1>2. \E g : Flat(N, g)
  <2>1. N \in 1 .. N
    BY <1>5
  <2> QED
    BY <1>1, <2>1
<1> DEFINE f == CHOOSE g : Flat(N, g)
<1>3. Flat(N, f)
  BY <1>2
<1>4. FlattenSeq(seqs) = f[N]
  BY <1>5 DEF FlattenSeq, Flat, N
<1> HIDE DEF f
<1>6. f[1] = seqs[1]
  BY <1>3, <1>5 DEF Flat
<1>7. ASSUME NEW i \in 2 .. N PROVE f[i] = f[i - 1] \o seqs[i]
  <2>1. i \in 1 .. N /\ i # 1
    BY <1>5
  <2> QED
    BY <1>3, <2>1 DEF Flat
<1> QED
  BY <1>4, <1>6, <1>7 DEF N

(* Lists that are longer, shorter or changed at a place.                   *)
LEMMA AppendIs ==
  ASSUME NEW l, IsList(l), NEW x
  PROVE  /\ IsList(Append(l, x)) /\ Len(Append(l, x)) = Len(l) + 1
         /\ DOMAIN Append(l, x) = 1 .. Len(l) + 1
         /\ \A i \in 1 .. Len(l) : Append(l, x)[i] = l[i]
         /\ Append(l, x)[Len(l) + 1] = x
<1> DEFINE S == ToSet(l) \cup {x}
<1>1. l \in Seq(S) /\ x \in S
  <2>1. l \in Seq(ToSet(l)) /\ ToSet(l) \subseteq S
    BY ListFacts
  <2> QED
    BY <2>1
<1> HIDE DEF S
<1>2. PICK u : u = Append(l, x)
  OBVIOUS
<1>3. /\ u \in Seq(S) /\ Len(u) = Len(l) + 1 /\ u[Len(l) + 1] = x
      /\ \A i \in 1 .. Len(l) : u[i] = l[i]
      /\ Len(l) \in Nat
  BY <1>1, <1>2
<1>4. DOMAIN u = 1 .. Len(l) + 1 /\ u = [i \in DOMAIN u |-> u[i]]
  BY <1>3
<1>5. IsList(u)
  BY <1>3, <1>4, IsListOf DEF IsMap
<1> QED
  BY <1>2, <1>3, <1>4, <1>5

LEMMA PartIs ==
  ASSUME NEW l, IsList(l), NEW m \in Nat \ {0}, NEW n \in Nat, n <= Len(l), m <= n + 1
  PROVE  /\ IsList(SubSeq(l, m, n)) /\ Len(SubSeq(l, m, n)) = n - m + 1
         /\ DOMAIN SubSeq(l, m, n) = 1 .. n - m + 1
         /\ \A i \in 1 .. n - m + 1 : SubSeq(l, m, n)[i] = l[m + i - 1] /\ m + i - 1 \in DOMAIN l
<1> DEFINE S == ToSet(l)
<1>1. l \in Seq(S) /\ Len(l) \in Nat /\ DOMAIN l = 1 .. Len(l)
  BY ListFacts
<1> HIDE DEF S
<1>2. PICK u : u = SubSeq(l, m, n)
  OBVIOUS
<1>3. \A i \in m .. n : l[i] \in S
  BY <1>1
<1>4. u \in Seq(S) /\ Len(u) = n - m + 1
  BY <1>1, <1>2, <1>3
<1>5. \A i \in 1 .. n - m + 1 : u[i] = l[m + i - 1] /\ m + i - 1 \in DOMAIN l
  BY <1>1, <1>2
<1>6. DOMAIN u = 1 .. n - m + 1 /\ u = [i \in DOMAIN u |-> u[i]] /\ n - m + 1 \in Nat
  BY <1>4
<1>7. IsList(u)
  BY <1>6, IsListOf DEF IsMap
<1> QED
  BY <1>2, <1>4, <1>5, <1>6, <1>7

LEMMA ExceptIs ==
  ASSUME NEW l, IsList(l), NEW k, NEW x
  PROVE  /\ IsList([l EXCEPT ![k] = x]) /\ Len([l EXCEPT ![k] = x]) = Len(l)
         /\ DOMAIN [l EXCEPT ![k] = x] = DOMAIN l
         /\ \A i \in DOMAIN l : [l EXCEPT ![k] = x][i] = IF i = k THEN x ELSE l[i]
<1>1. Len(l) \in Nat /\ DOMAIN l = 1 .. Len(l)
  BY ListFacts
<1>2. PICK u : u = [l EXCEPT ![k] = x]
  OBVIOUS
<1>3. DOMAIN u = 1 .. Len(l) /\ u = [i \in DOMAIN u |-> u[i]]
      /\ \A i \in DOMAIN l : u[i] = IF i = k THEN x ELSE l[i]
  BY <1>1, <1>2
<1>4. IsList(u) /\ Len(u) = Len(l)
  BY <1>1, <1>3, IsListOf DEF IsMap
<1> QED
  BY <1>1, <1>2, <1>3, <1>4

(* A list cut at a place, with something new there.                        *)
Cut(u, l, d, x) ==
  /\ IsList(u) /\ Len(u) = d /\ DOMAIN u = 1 .. d /\ u[d] = x
  /\ \A i \in 1 .. d - 1 : u[i] = l[i] /\ i \in DOMAIN l

LEMMA CutIs ==
  ASSUME NEW l, IsList(l), NEW d \in 1 .. Len(l), NEW x
  PROVE  Cut(Append(SubSeq(l, 1, d - 1), x), l, d, x)
<1>1. Len(l) \in Nat /\ d \in Nat /\ d - 1 \in Nat /\ d - 1 <= Len(l) /\ 1 <= d - 1 + 1
  BY ListFacts
<1> DEFINE s == SubSeq(l, 1, d - 1)
<1>2. IsList(s) /\ Len(s) = d - 1 - 1 + 1 /\ \A i \in 1 .. d - 1 - 1 + 1 : s[i] = l[1 + i - 1] /\ 1 + i - 1 \in DOMAIN l
  BY <1>1, PartIs
<1> HIDE DEF s
<1>3. Len(s) = d - 1 /\ \A i \in 1 .. d - 1 : s[i] = l[i] /\ i \in DOMAIN l
  BY <1>1, <1>2
<1>4. /\ IsList(Append(s, x)) /\ Len(Append(s, x)) = Len(s) + 1 /\ DOMAIN Append(s, x) = 1 .. Len(s) + 1
      /\ \A i \in 1 .. Len(s) : Append(s, x)[i] = s[i]
      /\ Append(s, x)[Len(s) + 1] = x
  BY <1>2, AppendIs
<1>5. Len(s) + 1 = d
  BY <1>1, <1>3
<1>6. /\ IsList(Append(s, x)) /\ Len(Append(s, x)) = d /\ DOMAIN Append(s, x) = 1 .. d
      /\ \A i \in 1 .. d - 1 : Append(s, x)[i] = l[i] /\ i \in DOMAIN l
      /\ Append(s, x)[d] = x
  BY <1>3, <1>4, <1>5
<1> QED
  BY <1>6 DEF s, Cut

(* What is rendered: no source of a template shows but one that is named   *)
(* after a filter that waits.                                              *)
GoodTemplate(t) == IsList(t.parts)
GoodToken(token) ==
  /\ "mark" \in DOMAIN token => GoodTemplate(token.mark)
  /\ "source" \in DOMAIN token => GoodTemplate(token.source) /\ ~Tame(token.by)
GoodTokens(l) == IsList(l) /\ \A i \in DOMAIN l : GoodToken(l[i])
GoodCell(cell) == IF IsTemplate(cell) THEN GoodTemplate(cell) ELSE GoodTokens(cell.tokens)
GoodObject(f) == \A n \in DOMAIN f : GoodCell(f[n])
GoodHeap(h) == IsList(h) /\ \A object \in DOMAIN h : GoodObject(h[object])

GoodRender(r) ==
  /\ DOMAIN r = {"template", "part", "out", "scope", "at"}
  /\ GoodTokens(r.out) /\ GoodObject(r.scope)
  /\ r.at # "ended" => GoodTemplate(r.template) /\ r.part \in Nat \ {0}
  /\ r.at = "awaits" =>
       r.part \in DOMAIN r.template.parts /\ r.template.parts[r.part].kind = "async"
GoodRenders(rs) ==
  /\ IsList(rs) /\ \A i \in DOMAIN rs : GoodRender(rs[i])
  /\ \A i \in 1 .. Len(rs) - 1 : rs[i].at = "ended" /\ Marks(rs[i]) # {}

(* A list of tasks; it has run no task before it is prepared, and what it  *)
(* will return is in its object, but for what was put there late.          *)
GoodFrame(f, n) ==
  /\ DOMAIN f = {"kind", "tasks", "pos", "vars", "extra", "prepare", "done", "at", "acc", "prev", "own", "tries"}
  /\ f.tasks \in Seq(Tasks) /\ f.pos \in Nat \ {0}
  /\ f.at \in {"renders", "nests"} => f.pos <= Len(f.tasks)
  /\ f.vars \in 1 .. n /\ f.own \in 1 .. n
  /\ GoodObject(f.prepare) /\ GoodObject(f.acc) /\ \A k \in DOMAIN f.done : GoodTokens(f.done[k])
  /\ f.kind # "recipe" => GoodObject(f.extra) /\ DOMAIN f.prepare = DOMAIN Confs(f.tasks)
  /\ f.kind # "recipe" /\ f.at \notin {"prepares", "fails"} => DOMAIN Confs(f.tasks) \subseteq DOMAIN f.done
  /\ f.kind \in {"try", "loop", "catch"} => f.extra # Nothing
  /\ f.at = "prepares" => DOMAIN f.acc = {}
Seen(f, h, l) ==
  \A n \in DOMAIN f.acc \ (l \cup {"previous"}) : n \in DOMAIN h[f.vars] /\ h[f.vars][n] = f.acc[n]

(* An inner list has an object of its own from when it starts, unless it is*)
(* a finally list without an error.                                        *)
Apart(f, g) ==
  f.vars = g.vars =>
    Shares(g) \/ (g.kind \in {"try", "loop", "catch", "finally"} /\ g.at \in {"prepares", "fails"})
GoodStack(fs, h, l) ==
  /\ IsList(fs) /\ fs # <<>> /\ fs[1].kind = "recipe"
  /\ \A i \in DOMAIN fs : GoodFrame(fs[i], Len(h)) /\ Seen(fs[i], h, l)
  /\ \A i \in 1 .. Len(fs) - 1 : fs[i].at = "nests"
  /\ \A i, j \in DOMAIN fs : i < j => Apart(fs[i], fs[j])

WellRun(p) ==
  GoodRenders(render[p]) /\ GoodHeap(heap[p]) /\ GoodStack(frames[p], heap[p], late[p])
ScopesInv ==
  /\ program \in [Renderers -> Programs]
  /\ DOMAIN render = Renderers /\ DOMAIN heap = Renderers
  /\ DOMAIN frames = Renderers /\ DOMAIN late = Renderers
  /\ \A p \in Renderers : WellRun(p)

(* What is in all lists of a list is in the list they make.                *)
LEMMA FlattenIn ==
  ASSUME NEW S, NEW seqs, IsList(seqs), \A i \in DOMAIN seqs : seqs[i] \in Seq(S)
  PROVE  FlattenSeq(seqs) \in Seq(S)
<1>1. Len(seqs) \in Nat /\ DOMAIN seqs = 1 .. Len(seqs) /\ (seqs = <<>> <=> Len(seqs) = 0)
  BY ListFacts
<1>2. CASE Len(seqs) = 0
  <2>1. FlattenSeq(seqs) = <<>>
    BY <1>1, <1>2 DEF FlattenSeq
  <2> QED
    BY <2>1
<1>3. CASE Len(seqs) # 0
  <2>1. PICK f : /\ f[1] = seqs[1] /\ \A i \in 2 .. Len(seqs) : f[i] = f[i - 1] \o seqs[i]
                 /\ FlattenSeq(seqs) = f[Len(seqs)]
    BY <1>1, <1>3, FlattenFacts
  <2> DEFINE B == {n \in 1 .. Len(seqs) : f[n] \notin Seq(S)}
  <2>2. B = {}
    <3> SUFFICES ASSUME B # {} PROVE FALSE
      OBVIOUS
    <3>1. PICK n \in B : \A m \in B : n <= m
      <4>1. B \subseteq Nat
        BY <1>1
      <4> HIDE DEF B
      <4> QED
        BY <4>1, LeastNumber
    <3>2. n \in 1 .. Len(seqs) /\ f[n] \notin Seq(S) /\ n \in Nat /\ Len(seqs) \in Nat
      BY <1>1
    <3>3. n # 1
      BY <1>1, <2>1, <3>2
    <3>4. n - 1 \in 1 .. Len(seqs) /\ ~ (n <= n - 1) /\ n \in 2 .. Len(seqs)
      BY <3>2, <3>3
    <3>5. f[n - 1] \in Seq(S)
      BY <3>1, <3>4
    <3>6. seqs[n] \in Seq(S) /\ f[n] = f[n - 1] \o seqs[n]
      BY <1>1, <2>1, <3>2, <3>4
    <3> QED
      BY <3>2, <3>5, <3>6
  <2>3. Len(seqs) \in 1 .. Len(seqs)
    BY <1>1, <1>3
  <2> QED
    BY <2>1, <2>2, <2>3
<1> QED
  BY <1>2, <1>3

LEMMA ListIn ==
  ASSUME NEW S, NEW l \in Seq(S)
  PROVE  IsList(l) /\ \A i \in DOMAIN l : l[i] \in S
<1>1. Len(l) \in Nat /\ DOMAIN l = 1 .. Len(l) /\ l = [i \in DOMAIN l |-> l[i]]
      /\ \A i \in DOMAIN l : l[i] \in S
  OBVIOUS
<1> QED
  BY <1>1, IsListOf DEF IsMap

LEMMA GoodIn ==
  ASSUME NEW S, \A token \in S : GoodToken(token), NEW l \in Seq(S)
  PROVE  GoodTokens(l)
BY ListIn DEF GoodTokens

LEMMA InGood ==
  ASSUME NEW l, GoodTokens(l)
  PROVE  l \in Seq(ToSet(l)) /\ \A token \in ToSet(l) : GoodToken(token)
<1>1. IsList(l) /\ \A i \in DOMAIN l : GoodToken(l[i])
  BY DEF GoodTokens
<1>2. l \in Seq(ToSet(l))
  BY <1>1, ListFacts
<1> QED
  BY <1>1, <1>2 DEF ToSet

LEMMA GoodConcat ==
  ASSUME NEW k, NEW l, GoodTokens(k), GoodTokens(l)
  PROVE  GoodTokens(k \o l)
<1> DEFINE S == ToSet(k) \cup ToSet(l)
<1>1. k \in Seq(ToSet(k)) /\ l \in Seq(ToSet(l)) /\ \A token \in S : GoodToken(token)
  BY InGood
<1>2. ToSet(k) \subseteq S /\ ToSet(l) \subseteq S
  OBVIOUS
<1> HIDE DEF S
<1>3. k \in Seq(S) /\ l \in Seq(S)
  BY <1>1, <1>2
<1>4. k \o l \in Seq(S)
  BY <1>3
<1> QED
  BY <1>1, <1>4, GoodIn

LEMMA GoodFlatten ==
  ASSUME NEW seqs, IsList(seqs), \A i \in DOMAIN seqs : GoodTokens(seqs[i])
  PROVE  GoodTokens(FlattenSeq(seqs))
<1> DEFINE S == UNION {ToSet(seqs[i]) : i \in DOMAIN seqs}
<1>1. \A token \in S : GoodToken(token)
  BY InGood
<1>2. ASSUME NEW i \in DOMAIN seqs PROVE seqs[i] \in Seq(S)
  <2>1. seqs[i] \in Seq(ToSet(seqs[i]))
    BY InGood
  <2>2. ToSet(seqs[i]) \subseteq S
    OBVIOUS
  <2> HIDE DEF S
  <2> QED
    BY <2>1, <2>2
<1> HIDE DEF S
<1>3. FlattenSeq(seqs) \in Seq(S)
  BY <1>2, FlattenIn
<1> QED
  BY <1>1, <1>3, GoodIn

LEMMA GoodPart ==
  ASSUME NEW l, GoodTokens(l), NEW m \in Nat \ {0}, NEW n \in Nat, n <= Len(l), m <= n + 1
  PROVE  GoodTokens(SubSeq(l, m, n))
<1>1. IsList(l) /\ \A i \in DOMAIN l : GoodToken(l[i])
  BY DEF GoodTokens
<1>2. PICK u : u = SubSeq(l, m, n)
  OBVIOUS
<1>3. IsList(u) /\ DOMAIN u = 1 .. n - m + 1 /\ \A i \in 1 .. n - m + 1 : u[i] = l[m + i - 1] /\ m + i - 1 \in DOMAIN l
  <2>1. IsList(l)
    BY <1>1
  <2> QED
    BY <2>1, <1>2, PartIs, SMTT(30)
<1>4. ASSUME NEW i \in DOMAIN u PROVE GoodToken(u[i])
  <2>1. u[i] = l[m + i - 1] /\ m + i - 1 \in DOMAIN l
    BY <1>3
  <2> QED
    BY <1>1, <2>1
<1> QED
  BY <1>2, <1>3, <1>4 DEF GoodTokens

(* A list of one text.                                                     *)
LEMMA GoodText ==
  ASSUME NEW x
  PROVE  GoodTokens(<<[text |-> x]>>)
<1>1. GoodToken([text |-> x])
  BY DEF GoodToken
<1>2. <<[text |-> x]>> \in Seq({[text |-> x]})
  OBVIOUS
<1> QED
  BY <1>1, <1>2, GoodIn

LEMMA GoodPlain ==
  ASSUME NEW x
  PROVE  GoodCell(Plain(x))
<1>1. ~IsTemplate(Plain(x)) /\ Plain(x).tokens = <<[text |-> x]>>
  BY DEF IsTemplate, Plain
<1> QED
  BY <1>1, GoodText DEF GoodCell

LEMMA GoodOver ==
  ASSUME NEW f, NEW g, GoodObject(f), GoodObject(g)
  PROVE  GoodObject(Over(f, g))
BY DEF GoodObject, Over

LEMMA GoodSole ==
  ASSUME NEW n, NEW cell, GoodCell(cell)
  PROVE  GoodObject(Sole(n, cell)) /\ Sole(n, cell) # Nothing /\ DOMAIN Sole(n, cell) = {n}
<1>1. DOMAIN Sole(n, cell) = {n} /\ Sole(n, cell)[n] = cell /\ DOMAIN Nothing = {}
  BY DEF Sole, Nothing
<1> QED
  BY <1>1 DEF GoodObject

LEMMA GoodNothing == GoodObject(Nothing) /\ DOMAIN Nothing = {}
BY DEF GoodObject, Nothing

(* What is written is good.                                                *)
LEMMA GoodWritten ==
  ASSUME NEW cell, IsWritten(cell)
  PROVE  GoodCell(cell)
<1>1. CASE IsTemplate(cell)
  BY <1>1 DEF IsWritten, GoodCell, GoodTemplate
<1>2. CASE ~IsTemplate(cell)
  <2>1. IsList(cell.tokens) /\ \A i \in DOMAIN cell.tokens : DOMAIN cell.tokens[i] \cap {"mark", "source"} = {}
    BY <1>2 DEF IsWritten
  <2>2. \A i \in DOMAIN cell.tokens : GoodToken(cell.tokens[i])
    BY <2>1 DEF GoodToken
  <2> QED
    BY <1>2, <2>1, <2>2 DEF GoodCell, GoodTokens
<1> QED
  BY <1>1, <1>2

(* A rendered task is looked through for templates.                        *)
LEMMA GoodExtracted ==
  ASSUME NEW l, GoodTokens(l)
  PROVE  GoodCell(Extracted(l))
<1>1. CASE \A i \in DOMAIN l : "source" \notin DOMAIN l[i]
  <2>1. Extracted(l) = [tokens |-> l] /\ ~IsTemplate([tokens |-> l]) /\ [tokens |-> l].tokens = l
    BY <1>1 DEF Extracted, IsTemplate
  <2> QED
    BY <2>1 DEF GoodCell
<1>2. CASE ~ \A i \in DOMAIN l : "source" \notin DOMAIN l[i]
  <2> DEFINE seqs == [i \in DOMAIN l |-> PartsOf(l[i])]
             S == UNION {ToSet(seqs[i]) : i \in DOMAIN l}
  <2>1. Extracted(l) = [parts |-> FlattenSeq(seqs), oneLine |-> TRUE]
    BY <1>2 DEF Extracted
  <2>2. IsList(l) /\ \A i \in DOMAIN l : GoodToken(l[i])
    BY DEF GoodTokens
  <2>3. ASSUME NEW i \in DOMAIN l PROVE IsList(seqs[i])
    <3>1. CASE "source" \in DOMAIN l[i]
      BY <2>2, <3>1 DEF PartsOf, GoodToken, GoodTemplate
    <3>2. CASE "source" \notin DOMAIN l[i]
      <4>1. PICK x : seqs[i] = <<x>>
        BY <3>2 DEF PartsOf
      <4>2. <<x>> \in Seq({x})
        OBVIOUS
      <4> QED
        BY <4>1, <4>2, ListIn
    <3> QED
      BY <3>1, <3>2
  <2>4. IsList(seqs) /\ DOMAIN seqs = DOMAIN l
    <3>1. IsMap(seqs) /\ DOMAIN seqs = DOMAIN l /\ Len(l) \in Nat /\ DOMAIN l = 1 .. Len(l)
      BY <2>2, ListFacts DEF IsMap
    <3> HIDE DEF seqs
    <3> QED
      BY <3>1, IsListOf
  <2>5. ASSUME NEW i \in DOMAIN seqs PROVE seqs[i] \in Seq(S)
    <3>1. seqs[i] \in Seq(ToSet(seqs[i])) /\ ToSet(seqs[i]) \subseteq S
      BY <2>3, <2>4, ListFacts
    <3> HIDE DEF S, seqs
    <3> QED
      BY <3>1
  <2> HIDE DEF S, seqs
  <2>6. IsList(FlattenSeq(seqs))
    BY <2>4, <2>5, FlattenIn, ListIn
  <2>7. IsTemplate(Extracted(l)) /\ Extracted(l).parts = FlattenSeq(seqs)
    BY <2>1 DEF IsTemplate
  <2> QED
    BY <2>6, <2>7 DEF GoodCell, GoodTemplate
<1> QED
  BY <1>1, <1>2

(* A render puts out what is good, if it is in context or its template has *)
(* a variable after a filter that waits.                                   *)
LEMMA GoodPut ==
  ASSUME NEW part, NEW r, NEW inContext, GoodObject(r.scope), GoodTemplate(r.template),
         inContext \/ ~Tame(r.template) \/ part.kind # "var"
  PROVE  GoodTokens(PutPart(part, r, inContext))
<1>1. CASE part.kind = "text"
  <2>1. PutPart(part, r, inContext) = <<[text |-> part.text]>>
    BY <1>1 DEF PutPart
  <2> QED
    BY <2>1, GoodText
<1>2. CASE part.kind = "var" /\ part.name \in DOMAIN r.scope
  <2> DEFINE cell == r.scope[part.name]
  <2>1. PutPart(part, r, inContext) = PutCell(cell, r.template, inContext)
    BY <1>2 DEF PutPart
  <2>2. GoodCell(cell)
    BY <1>2 DEF GoodObject
  <2> HIDE DEF cell
  <2>3. CASE ~IsTemplate(cell)
    <3>1. PutCell(cell, r.template, inContext) = cell.tokens
      BY <2>3 DEF PutCell, Tokens
    <3> QED
      BY <2>1, <2>2, <2>3, <3>1 DEF GoodCell
  <2>4. CASE IsTemplate(cell)
    <3> DEFINE token == IF inContext THEN [mark |-> cell] ELSE [source |-> cell, by |-> r.template]
    <3>1. PutCell(cell, r.template, inContext) = <<token>>
      BY <2>4 DEF PutCell
    <3>2. GoodToken(token)
      <4>1. GoodTemplate(cell)
        BY <2>2, <2>4 DEF GoodCell
      <4>2. CASE inContext
        <5>1. token = [mark |-> cell]
          BY <4>2
        <5> QED
          BY <4>1, <5>1 DEF GoodToken
      <4>3. CASE ~inContext
        <5>1. token = [source |-> cell, by |-> r.template] /\ ~Tame(r.template)
          BY <1>2, <4>3
        <5> QED
          BY <4>1, <5>1 DEF GoodToken
      <4> QED
        BY <4>2, <4>3
    <3> HIDE DEF token
    <3>3. <<token>> \in Seq({token})
      OBVIOUS
    <3> QED
      BY <2>1, <3>1, <3>2, <3>3, GoodIn
  <2> QED
    BY <2>3, <2>4
<1>3. CASE part.kind = "var" /\ part.name \notin DOMAIN r.scope
  <2>1. PutPart(part, r, inContext) = <<>>
    BY <1>3 DEF PutPart
  <2>2. <<>> \in Seq({})
    OBVIOUS
  <2> QED
    BY <2>1, <2>2, GoodIn
<1>4. CASE part.kind # "text" /\ part.kind # "var"
  <2>1. PutPart(part, r, inContext) = <<[text |-> "filtered"]>>
    BY <1>4 DEF PutPart
  <2> QED
    BY <2>1, GoodText
<1> QED
  BY <1>1, <1>2, <1>3, <1>4

RunsOn(r) ==
  /\ DOMAIN r = {"template", "part", "out", "scope", "at"}
  /\ GoodTokens(r.out) /\ GoodObject(r.scope) /\ GoodTemplate(r.template) /\ r.part \in Nat \ {0}

LEMMA GoodAdvance ==
  ASSUME NEW r, RunsOn(r), NEW inContext, inContext \/ ~Tame(r.template)
            \/ \A k \in DOMAIN r.template.parts : k >= r.part => r.template.parts[k].kind # "var"
  PROVE  GoodRender(Advance(r, inContext))
<1> DEFINE parts == r.template.parts
<1>1. /\ IsList(parts) /\ Len(parts) \in Nat /\ DOMAIN parts = 1 .. Len(parts)
      /\ r.part \in Nat /\ r.part >= 1
  BY ListFacts DEF RunsOn, GoodTemplate
<1>2. /\ Stop(r) \in Nat \ {0} /\ Stop(r) <= Len(parts) + 1
      /\ Waits(r) # {} => Stop(r) \in DOMAIN parts /\ parts[Stop(r)].kind = "async"
  <2>1. Waits(r) \subseteq r.part .. Len(parts) /\ \A i \in Waits(r) : parts[i].kind = "async"
    BY DEF Waits
  <2>2. CASE Waits(r) = {}
    BY <1>1, <2>2 DEF Stop
  <2>3. CASE Waits(r) # {}
    <3>1. PICK i \in Waits(r) : \A k \in Waits(r) : i <= k
      <4>1. Waits(r) \subseteq Nat
        BY <1>1, <2>1
      <4> QED
        BY <2>3, <4>1, LeastNumber
    <3>2. Stop(r) \in Waits(r)
      BY <2>3, <3>1 DEF Stop
    <3> QED
      BY <1>1, <2>1, <3>2
  <2> QED
    BY <2>2, <2>3
<1> DEFINE n == Stop(r) - r.part
           seqs == [i \in 1 .. n |-> PutPart(parts[r.part + i - 1], r, inContext)]
<1>3. GoodTokens(Puts(r, inContext))
  <2>1. Puts(r, inContext) = FlattenSeq(seqs)
    BY DEF Puts
  <2>2. ASSUME NEW i \in 1 .. n PROVE GoodTokens(seqs[i])
    <3>1. r.part + i - 1 \in DOMAIN parts /\ r.part + i - 1 >= r.part
      BY <1>1, <1>2
    <3>2. inContext \/ ~Tame(r.template) \/ parts[r.part + i - 1].kind # "var"
      BY <3>1
    <3>3. GoodTokens(PutPart(parts[r.part + i - 1], r, inContext))
      BY <3>2, GoodPut DEF RunsOn
    <3> QED
      BY <3>3
  <2>3. PICK m \in Nat : 1 .. n = 1 .. m
    <3>1. CASE n >= 0
      <4>1. n \in Nat
        BY <1>1, <1>2, <3>1
      <4> QED
        BY <4>1
    <3>2. CASE ~ (n >= 0)
      <4>1. 1 .. n = 1 .. 0
        BY <1>1, <1>2, <3>2
      <4> QED
        BY <4>1
    <3> QED
      BY <3>1, <3>2
  <2>4. IsMap(seqs) /\ DOMAIN seqs = 1 .. m
    BY <2>3 DEF IsMap
  <2>5. \A i \in DOMAIN seqs : GoodTokens(seqs[i])
    BY <2>2
  <2> HIDE DEF seqs
  <2>6. IsList(seqs)
    BY <2>4, IsListOf
  <2> QED
    BY <2>1, <2>5, <2>6, GoodFlatten
<1>4. GoodTokens(r.out \o Puts(r, inContext))
  BY <1>3, GoodConcat DEF RunsOn
<1> DEFINE s == Advance(r, inContext)
<1>5. /\ DOMAIN s = {"template", "part", "out", "scope", "at"}
      /\ s.template = r.template /\ s.part = Stop(r) /\ s.scope = r.scope
      /\ s.out = r.out \o Puts(r, inContext)
      /\ s.at = "awaits" => Waits(r) # {}
  BY DEF Advance, RunsOn
<1> HIDE DEF s
<1>6. GoodTokens(s.out)
  BY <1>4, <1>5
<1>7. GoodObject(s.scope) /\ GoodTemplate(s.template) /\ s.part \in Nat \ {0}
  BY <1>2, <1>5 DEF RunsOn
<1>8. s.at = "awaits" => s.part \in DOMAIN s.template.parts /\ s.template.parts[s.part].kind = "async"
  BY <1>2, <1>5
<1>9. GoodRender(s)
  BY <1>5, <1>6, <1>7, <1>8 DEF GoodRender
<1> QED
  BY <1>9 DEF s

LEMMA GoodNew ==
  ASSUME NEW t, GoodTemplate(t), NEW scope, GoodObject(scope)
  PROVE  GoodRender(NewRender(t, scope))
<1>1. <<>> \in Seq({})
  OBVIOUS
<1>2. GoodTokens(<<>>)
  BY <1>1, GoodIn
<1> QED
  BY <1>2 DEF GoodRender, NewRender

(* The first marker is one.                                                *)
LEMMA FirstMarkIs ==
  ASSUME NEW r, GoodRender(r), Marks(r) # {}
  PROVE  /\ FirstMark(r) \in 1 .. Len(r.out) /\ Len(r.out) \in Nat
         /\ GoodTemplate(r.out[FirstMark(r)].mark)
<1>1. IsList(r.out) /\ \A i \in DOMAIN r.out : GoodToken(r.out[i])
  BY DEF GoodRender, GoodTokens
<1>2. Len(r.out) \in Nat /\ DOMAIN r.out = 1 .. Len(r.out)
  BY <1>1, ListFacts
<1>3. Marks(r) \subseteq DOMAIN r.out /\ \A i \in Marks(r) : "mark" \in DOMAIN r.out[i]
  BY DEF Marks
<1>4. PICK i \in Marks(r) : \A k \in Marks(r) : i <= k
  <2>1. Marks(r) \subseteq Nat
    BY <1>2, <1>3
  <2> QED
    BY <2>1, LeastNumber
<1>5. FirstMark(r) \in Marks(r)
  BY <1>4 DEF FirstMark
<1> QED
  BY <1>1, <1>2, <1>3, <1>5 DEF GoodToken

LEMMA GoodReplaced ==
  ASSUME NEW r, GoodRender(r), r.at = "ended", Marks(r) # {}, NEW new, GoodTokens(new)
  PROVE  GoodRender(Replaced(r, new))
<1> DEFINE i == FirstMark(r)
           n == Len(r.out)
<1>1. i \in 1 .. n /\ n \in Nat
  BY FirstMarkIs
<1> HIDE DEF i
<1>2. GoodTokens(SubSeq(r.out, 1, i - 1))
  <2>1. i - 1 \in Nat /\ i - 1 <= n /\ 1 <= i - 1 + 1
    BY <1>1
  <2> QED
    BY <2>1, GoodPart DEF GoodRender
<1>3. GoodTokens(SubSeq(r.out, i + 1, n))
  <2>1. i + 1 \in Nat \ {0} /\ n <= n /\ i + 1 <= n + 1
    BY <1>1
  <2> QED
    BY <1>1, <2>1, GoodPart DEF GoodRender
<1>4. GoodTokens(SubSeq(r.out, 1, i - 1) \o new \o SubSeq(r.out, i + 1, n))
  BY <1>2, <1>3, GoodConcat
<1> DEFINE s == Replaced(r, new)
<1>5. /\ DOMAIN s = {"template", "part", "out", "scope", "at"}
      /\ s.template = r.template /\ s.part = r.part /\ s.scope = r.scope /\ s.at = r.at
      /\ s.out = SubSeq(r.out, 1, i - 1) \o new \o SubSeq(r.out, i + 1, n)
  BY DEF Replaced, GoodRender, i
<1> HIDE DEF s
<1>6. GoodTokens(s.out)
  BY <1>4, <1>5
<1>7. GoodObject(s.scope) /\ s.at = "ended"
  BY <1>5 DEF GoodRender
<1>8. GoodRender(s)
  BY <1>5, <1>6, <1>7 DEF GoodRender
<1> QED
  BY <1>8 DEF s

(* The renders of one renderer: the innermost changes, or one is nested in *)
(* it.                                                                     *)
LEMMA GoodTop ==
  ASSUME NEW rs, GoodRenders(rs), NEW d \in 1 .. Len(rs), NEW r, GoodRender(r)
  PROVE  GoodRenders(Append(SubSeq(rs, 1, d - 1), r))
<1>1. IsList(rs) /\ \A i \in DOMAIN rs : GoodRender(rs[i])
  BY DEF GoodRenders
<1>2. Len(rs) \in Nat /\ DOMAIN rs = 1 .. Len(rs)
  BY <1>1, ListFacts
<1>3. PICK u : u = Append(SubSeq(rs, 1, d - 1), r)
  OBVIOUS
<1>4. /\ IsList(u) /\ Len(u) = d /\ DOMAIN u = 1 .. d /\ u[d] = r
      /\ \A i \in 1 .. d - 1 : u[i] = rs[i] /\ i \in DOMAIN rs
  <2>1. Cut(u, rs, d, r)
    BY <1>1, <1>3, CutIs
  <2> QED
    BY <2>1 DEF Cut
<1>5. ASSUME NEW i \in DOMAIN u PROVE GoodRender(u[i])
  <2>1. i = d \/ i \in 1 .. d - 1
    BY <1>2, <1>4
  <2> QED
    BY <1>1, <1>4, <2>1
<1>6. ASSUME NEW i \in 1 .. Len(u) - 1 PROVE u[i].at = "ended" /\ Marks(u[i]) # {}
  <2>1. i \in 1 .. d - 1 /\ i \in 1 .. Len(rs) - 1
    BY <1>2, <1>4
  <2> QED
    BY <1>4, <2>1 DEF GoodRenders
<1> QED
  BY <1>3, <1>4, <1>5, <1>6 DEF GoodRenders

LEMMA TopIs ==
  ASSUME NEW p, GoodRenders(render[p]), render[p] # <<>>
  PROVE  Len(render[p]) \in Nat /\ Len(render[p]) \in 1 .. Len(render[p]) /\ GoodRender(Top(p))
<1>1. IsList(render[p]) /\ \A i \in DOMAIN render[p] : GoodRender(render[p][i])
  BY DEF GoodRenders
<1>2. /\ Len(render[p]) \in Nat /\ DOMAIN render[p] = 1 .. Len(render[p])
      /\ render[p] = <<>> <=> Len(render[p]) = 0
  BY <1>1, ListFacts
<1>3. Len(render[p]) \in 1 .. Len(render[p])
  BY <1>2
<1> QED
  BY <1>1, <1>2, <1>3 DEF Top, Last

LEMMA SetTopGood ==
  ASSUME NEW p, GoodRenders(render[p]), render[p] # <<>>, NEW r, GoodRender(r), SetTop(p, r)
  PROVE  \E rs : render' = [render EXCEPT ![p] = rs] /\ GoodRenders(rs)
<1>1. Len(render[p]) \in 1 .. Len(render[p])
  BY TopIs
<1>2. GoodRenders(Append(SubSeq(render[p], 1, Len(render[p]) - 1), r))
  BY <1>1, GoodTop
<1> QED
  BY <1>2 DEF SetTop, Front

LEMMA BeginRenderGood ==
  ASSUME NEW p, GoodRenders(render[p]), BeginRender(p)
  PROVE  \E rs : render' = [render EXCEPT ![p] = rs] /\ GoodRenders(rs)
<1>1. render[p] # <<>> /\ Top(p).at = "begin" /\ SetTop(p, Advance(Top(p), TRUE))
  BY DEF BeginRender, At
<1>2. GoodRender(Top(p))
  BY <1>1, TopIs
<1>3. RunsOn(Top(p))
  BY <1>1, <1>2 DEF RunsOn, GoodRender
<1>4. GoodRender(Advance(Top(p), TRUE))
  BY <1>3, GoodAdvance
<1> QED
  BY <1>1, <1>4, SetTopGood

LEMMA FilteredGood ==
  ASSUME NEW p, GoodRenders(render[p]), Filtered(p)
  PROVE  \E rs : render' = [render EXCEPT ![p] = rs] /\ GoodRenders(rs)
<1> DEFINE t == Top(p)
           part == t.template.parts[t.part]
           r == [t EXCEPT !.out = @ \o PutPart(part, t, FALSE), !.part = @ + 1]
<1>1. render[p] # <<>> /\ t.at = "awaits" /\ SetTop(p, Advance(r, renderContext'))
  BY DEF Filtered, At
<1>2. GoodRender(t)
  BY <1>1, TopIs
<1>3. t.part \in DOMAIN t.template.parts /\ part.kind = "async" /\ t.part \in Nat \ {0}
      /\ GoodTemplate(t.template) /\ GoodObject(t.scope) /\ GoodTokens(t.out)
      /\ DOMAIN t = {"template", "part", "out", "scope", "at"}
  BY <1>1, <1>2 DEF GoodRender
<1> HIDE DEF t
<1>4. GoodTokens(PutPart(part, t, FALSE))
  <2>1. part.kind # "var"
    BY <1>3
  <2> QED
    BY <1>3, <2>1, GoodPut
<1>5. GoodTokens(t.out \o PutPart(part, t, FALSE))
  BY <1>3, <1>4, GoodConcat
<1>6. /\ DOMAIN r = {"template", "part", "out", "scope", "at"} /\ r.template = t.template
      /\ r.scope = t.scope /\ r.out = t.out \o PutPart(part, t, FALSE) /\ r.part = t.part + 1
  BY <1>3
<1> HIDE DEF r
<1>7. RunsOn(r)
  <2>1. GoodTokens(r.out)
    BY <1>5, <1>6
  <2>2. r.part \in Nat \ {0}
    BY <1>3, <1>6
  <2> QED
    BY <1>3, <1>6, <2>1, <2>2 DEF RunsOn
<1>8. ~Tame(r.template) \/ \A k \in DOMAIN r.template.parts : k >= r.part => r.template.parts[k].kind # "var"
  <2> SUFFICES ASSUME NEW k \in DOMAIN r.template.parts, k >= r.part, r.template.parts[k].kind = "var",
                      Tame(r.template)
               PROVE  FALSE
    OBVIOUS
  <2>1. k < t.part
    BY <1>3, <1>6 DEF Tame
  <2>2. k \in Nat
    BY <1>7, ListFacts DEF RunsOn, GoodTemplate
  <2> QED
    BY <1>3, <1>6, <2>1, <2>2
<1>9. GoodRender(Advance(r, renderContext'))
  BY <1>7, <1>8, GoodAdvance
<1> QED
  BY <1>1, <1>9, SetTopGood

LEMMA EndRenderGood ==
  ASSUME NEW p, GoodRenders(render[p]), EndRender(p)
  PROVE  \E rs : render' = [render EXCEPT ![p] = rs] /\ GoodRenders(rs)
<1> DEFINE r == [Top(p) EXCEPT !.at = "ended"]
<1>1. render[p] # <<>> /\ SetTop(p, r)
  BY DEF EndRender, At
<1>2. GoodRender(Top(p))
  BY <1>1, TopIs
<1>3. GoodRender(r)
  BY <1>2 DEF GoodRender
<1> QED
  BY <1>1, <1>3, SetTopGood

LEMMA ResolveMarkGood ==
  ASSUME NEW p, GoodRenders(render[p]), ResolveMark(p)
  PROVE  \E rs : render' = [render EXCEPT ![p] = rs] /\ GoodRenders(rs)
<1> DEFINE t == Top(p)
           r == NewRender(t.out[FirstMark(t)].mark, t.scope)
           n == Len(render[p])
<1>1. render[p] # <<>> /\ t.at = "ended" /\ Marks(t) # {} /\ render' = [render EXCEPT ![p] = Append(@, r)]
  BY DEF ResolveMark, Nests, At
<1>2. GoodRender(t) /\ n \in Nat /\ n \in 1 .. n
  BY <1>1, TopIs
<1>3. GoodRender(r)
  <2>1. GoodTemplate(t.out[FirstMark(t)].mark) /\ GoodObject(t.scope)
    BY <1>1, <1>2, FirstMarkIs DEF GoodRender
  <2> HIDE DEF t
  <2> QED
    BY <2>1, GoodNew
<1> DEFINE u == Append(render[p], r)
<1>4. /\ IsList(render[p]) /\ DOMAIN render[p] = 1 .. n
      /\ \A i \in 1 .. n : GoodRender(render[p][i])
      /\ \A i \in 1 .. n - 1 : render[p][i].at = "ended" /\ Marks(render[p][i]) # {}
      /\ render[p][n] = t
  BY ListFacts DEF GoodRenders, Top, Last
<1> HIDE DEF t, r
<1>5. /\ IsList(u) /\ Len(u) = n + 1 /\ DOMAIN u = 1 .. n + 1 /\ u[n + 1] = r
      /\ \A i \in 1 .. n : u[i] = render[p][i]
  BY <1>4, AppendIs
<1> HIDE DEF u
<1>6. ASSUME NEW i \in DOMAIN u PROVE GoodRender(u[i])
  <2>1. i = n + 1 \/ i \in 1 .. n
    BY <1>2, <1>5
  <2> QED
    BY <1>3, <1>4, <1>5, <2>1
<1>7. ASSUME NEW i \in 1 .. Len(u) - 1 PROVE u[i].at = "ended" /\ Marks(u[i]) # {}
  <2>1. i \in 1 .. n /\ (i = n \/ i \in 1 .. n - 1)
    BY <1>2, <1>5
  <2> QED
    BY <1>1, <1>4, <1>5, <2>1
<1>8. GoodRenders(u)
  BY <1>5, <1>6, <1>7 DEF GoodRenders
<1> QED
  BY <1>1, <1>8 DEF u

LEMMA ReturnGood ==
  ASSUME NEW p, GoodRenders(render[p]), Return(p)
  PROVE  \E rs : render' = [render EXCEPT ![p] = rs] /\ GoodRenders(rs)
<1> DEFINE n == Len(render[p])
           r == render[p][n - 1]
           s == Replaced(r, Top(p).out)
<1>1. /\ render[p] # <<>> /\ n > 1
      /\ render' = [render EXCEPT ![p] = Append(SubSeq(@, 1, n - 2), s)]
  BY DEF Return, Resolved, At
<1>2. GoodRender(Top(p)) /\ n \in Nat
  BY <1>1, TopIs
<1>3. n - 1 \in 1 .. n - 1 /\ n - 1 \in 1 .. n
  BY <1>1, <1>2
<1>4. GoodRender(r) /\ r.at = "ended" /\ Marks(r) # {}
  <2>1. DOMAIN render[p] = 1 .. n
    BY ListFacts DEF GoodRenders
  <2> QED
    BY <1>3, <2>1 DEF GoodRenders
<1>5. GoodRender(s)
  <2>1. GoodTokens(Top(p).out)
    BY <1>2 DEF GoodRender
  <2> HIDE DEF r
  <2> QED
    BY <1>4, <2>1, GoodReplaced
<1> HIDE DEF s
<1>6. GoodRenders(Append(SubSeq(render[p], 1, (n - 1) - 1), s))
  BY <1>3, <1>5, GoodTop
<1>7. (n - 1) - 1 = n - 2
  BY <1>2
<1> QED
  BY <1>1, <1>6, <1>7

LEMMA RenderStepGood ==
  ASSUME NEW p, GoodRenders(render[p]), RenderStep(p)
  PROVE  \E rs : render' = [render EXCEPT ![p] = rs] /\ GoodRenders(rs)
BY BeginRenderGood, FilteredGood, EndRenderGood, ResolveMarkGood, ReturnGood DEF RenderStep

LEMMA NoRenders == GoodRenders(<<>>)
<1>1. <<>> \in Seq({}) /\ Len(<<>>) = 0
  OBVIOUS
<1>2. IsList(<<>>) /\ DOMAIN <<>> = {}
  <2>1. DOMAIN <<>> = {}
    OBVIOUS
  <2> QED
    BY <1>1, <2>1, ListIn
<1>3. 1 .. Len(<<>>) - 1 = {}
  BY <1>1
<1> QED
  BY <1>2, <1>3 DEF GoodRenders

(* What a task or a recipe starts to render.                               *)
LEMMA GoodRendering ==
  ASSUME NEW cell, GoodCell(cell), NEW scope, GoodObject(scope)
  PROVE  GoodRenders(Rendering(cell, scope))
<1>1. \E r : Rendering(cell, scope) = <<r>> /\ GoodRender(r)
  <2>1. CASE IsTemplate(cell)
    <3>1. Rendering(cell, scope) = <<NewRender(cell, scope)>> /\ GoodTemplate(cell)
      BY <2>1 DEF Rendering, GoodCell
    <3> QED
      BY <3>1, GoodNew
  <2>2. CASE ~IsTemplate(cell)
    <3> DEFINE r == [template |-> cell, part |-> 1, out |-> Tokens(cell), scope |-> Nothing, at |-> "ended"]
    <3>1. Rendering(cell, scope) = <<r>> /\ GoodTokens(Tokens(cell))
      BY <2>2 DEF Rendering, GoodCell, Tokens
    <3>2. GoodRender(r)
      BY <3>1, GoodNothing DEF GoodRender
    <3> QED
      BY <3>1, <3>2
  <2> QED
    BY <2>1, <2>2
<1>2. PICK r : Rendering(cell, scope) = <<r>> /\ GoodRender(r)
  BY <1>1
<1>3. <<r>> \in Seq({r}) /\ Len(<<r>>) = 1 /\ 1 .. 1 - 1 = {}
  OBVIOUS
<1>4. IsList(<<r>>) /\ \A i \in DOMAIN <<r>> : <<r>>[i] \in {r}
  BY <1>3, ListIn
<1>5. \A i \in DOMAIN <<r>> : GoodRender(<<r>>[i])
  BY <1>2, <1>4
<1> QED
  BY <1>2, <1>3, <1>4, <1>5 DEF GoodRenders

(* Lists of tasks.                                                         *)
LEMMA TaskFacts ==
  /\ \A r \in Programs \cup {t.recipe : t \in Tasks} :
       r.tasks \in Seq(Tasks) /\ GoodObject(r.vars)
  /\ \A t \in Tasks :
       /\ t.task \in Seq(Tasks) /\ t.catch \in Seq(Tasks) /\ t.finally \in Seq(Tasks)
       /\ GoodCell(t.conf) /\ GoodObject(t.vars)
BY TasksAssumption, GoodWritten DEF GoodObject

LEMMA ConfsGood ==
  ASSUME NEW tasks \in Seq(Tasks)
  PROVE  /\ GoodObject(Confs(tasks))
         /\ \A k \in DOMAIN Confs(tasks) : k[1] \in DOMAIN tasks
         /\ \A i \in DOMAIN tasks : \A n \in DOMAIN tasks[i].vars \cup {""} : <<i, n>> \in DOMAIN Confs(tasks)
<1> DEFINE Keys == UNION {{i} \X (DOMAIN tasks[i].vars \cup {""}) : i \in DOMAIN tasks}
<1>1. \A i \in DOMAIN tasks : tasks[i] \in Tasks
  OBVIOUS
<1>2. DOMAIN Confs(tasks) = Keys
  BY DEF Confs
<1>3. ASSUME NEW i \in DOMAIN tasks, NEW n \in DOMAIN tasks[i].vars \cup {""} PROVE <<i, n>> \in Keys
  <2>1. <<i, n>> \in {i} \X (DOMAIN tasks[i].vars \cup {""})
    BY Zenon
  <2> QED
    BY <2>1, Zenon
<1>4. ASSUME NEW k \in Keys PROVE k[1] \in DOMAIN tasks /\ GoodCell(Confs(tasks)[k])
  <2>1. PICK i \in DOMAIN tasks : k \in {i} \X (DOMAIN tasks[i].vars \cup {""})
    OBVIOUS
  <2> DEFINE n == k[2]
  <2>3. k[1] = i /\ k[2] = n /\ n \in DOMAIN tasks[i].vars \cup {""}
    <3>1. PICK names : names = DOMAIN tasks[i].vars \cup {""}
      OBVIOUS
    <3>2. k \in {i} \X names
      BY <2>1, <3>1
    <3> HIDE DEF Keys
    <3> QED
      BY <3>1, <3>2
  <2>4. Confs(tasks)[k] = IF n = "" THEN tasks[i].conf ELSE tasks[i].vars[n]
    BY <2>3 DEF Confs
  <2>5. GoodCell(tasks[i].conf) /\ GoodObject(tasks[i].vars)
    BY <1>1, TaskFacts
  <2>6. CASE n = ""
    BY <2>3, <2>4, <2>5, <2>6
  <2>7. CASE n # ""
    <3>1. n \in DOMAIN tasks[i].vars
      BY <2>3, <2>7
    <3> QED
      BY <2>3, <2>4, <2>5, <2>7, <3>1 DEF GoodObject
  <2> QED
    BY <2>6, <2>7
<1> HIDE DEF Keys
<1> QED
  BY <1>2, <1>3, <1>4 DEF GoodObject

LEMMA NewFrameGood ==
  ASSUME NEW kind, kind # "recipe", NEW tasks \in Seq(Tasks), NEW n \in Nat, NEW object \in 1 .. n,
         NEW extra, GoodObject(extra), kind \in {"try", "loop", "catch"} => extra # Nothing
  PROVE  GoodFrame(Frame(kind, tasks, object, Confs(tasks), extra), n)
<1> DEFINE f == Frame(kind, tasks, object, Confs(tasks), extra)
<1>1. /\ DOMAIN f = {"kind", "tasks", "pos", "vars", "extra", "prepare", "done", "at", "acc", "prev", "own", "tries"}
      /\ f.tasks = tasks /\ f.pos = 1 /\ f.at = "prepares" /\ f.vars = object /\ f.own = object
      /\ f.prepare = Confs(tasks) /\ f.acc = Nothing /\ f.done = Nothing /\ f.kind = kind /\ f.extra = extra
  BY DEF Frame
<1> HIDE DEF f
<1>2. GoodObject(f.prepare) /\ GoodObject(f.acc) /\ DOMAIN f.acc = {} /\ DOMAIN f.done = {}
      /\ DOMAIN f.prepare = DOMAIN Confs(f.tasks)
  BY <1>1, ConfsGood, GoodNothing
<1>3. f.pos \in Nat \ {0}
  BY <1>1
<1>4. GoodFrame(f, n)
  BY <1>1, <1>2, <1>3 DEF GoodFrame
<1> QED
  BY <1>4 DEF f

LEMMA RecipeFrameGood ==
  ASSUME NEW recipe \in Programs \cup {t.recipe : t \in Tasks}, NEW h, GoodHeap(h),
         NEW object \in DOMAIN h
  PROVE  LET r == RecipeFrame(recipe, h, object)
         IN /\ GoodHeap(r.heap) /\ Len(r.heap) = Len(h) + 1 /\ \A o \in DOMAIN h : r.heap[o] = h[o]
            /\ GoodFrame(r.frame, Len(h) + 1) /\ r.frame.vars = Len(h) + 1 /\ DOMAIN r.frame.acc = {}
<1> DEFINE aggregated == Over(recipe.vars, h[object])
           f == Frame("recipe", recipe.tasks, Len(h) + 1, aggregated, recipe.inputs)
           g == Append(h, aggregated)
<1>1. RecipeFrame(recipe, h, object).heap = g /\ RecipeFrame(recipe, h, object).frame = f
  BY DEF RecipeFrame
<1>2. GoodObject(aggregated)
  <2>1. GoodObject(recipe.vars) /\ GoodObject(h[object])
    BY TaskFacts DEF GoodHeap
  <2> QED
    BY <2>1, GoodOver
<1>3. recipe.tasks \in Seq(Tasks)
  BY TaskFacts
<1>4. Len(h) \in Nat /\ DOMAIN h = 1 .. Len(h) /\ IsList(h) /\ \A o \in DOMAIN h : GoodObject(h[o])
  BY ListFacts DEF GoodHeap
<1>5. /\ DOMAIN f = {"kind", "tasks", "pos", "vars", "extra", "prepare", "done", "at", "acc", "prev", "own", "tries"}
      /\ f.tasks = recipe.tasks /\ f.pos = 1 /\ f.at = "prepares" /\ f.vars = Len(h) + 1 /\ f.own = Len(h) + 1
      /\ f.prepare = aggregated /\ f.acc = Nothing /\ f.done = Nothing /\ f.kind = "recipe"
  BY DEF Frame
<1> HIDE DEF f, aggregated
<1>6. GoodFrame(f, Len(h) + 1) /\ f.vars = Len(h) + 1 /\ DOMAIN f.acc = {}
  <2>1. GoodObject(f.prepare) /\ GoodObject(f.acc) /\ DOMAIN f.acc = {} /\ DOMAIN f.done = {}
    BY <1>2, <1>5, GoodNothing
  <2>2. f.pos \in Nat \ {0} /\ f.vars \in 1 .. Len(h) + 1 /\ f.own \in 1 .. Len(h) + 1 /\ f.tasks \in Seq(Tasks)
    BY <1>3, <1>4, <1>5
  <2> QED
    BY <1>5, <2>1, <2>2 DEF GoodFrame
<1>7. /\ IsList(g) /\ Len(g) = Len(h) + 1 /\ DOMAIN g = 1 .. Len(h) + 1
      /\ \A i \in 1 .. Len(h) : g[i] = h[i]
      /\ g[Len(h) + 1] = aggregated
  BY <1>4, AppendIs
<1> HIDE DEF g
<1>8. ASSUME NEW o \in DOMAIN g PROVE GoodObject(g[o])
  <2>1. o = Len(h) + 1 \/ o \in 1 .. Len(h)
    BY <1>4, <1>7
  <2> QED
    BY <1>2, <1>4, <1>7, <2>1
<1> QED
  BY <1>1, <1>4, <1>6, <1>7, <1>8 DEF GoodHeap

(* withVars adds an object or leaves the heap as it is.                    *)
Grown(g, h) ==
  GoodHeap(g) /\ Len(g) \in Nat /\ Len(g) >= Len(h) /\ \A o \in DOMAIN h : g[o] = h[o]

LEMMA WithVarsIs ==
  ASSUME NEW h, GoodHeap(h), NEW object \in DOMAIN h, NEW added, GoodObject(added),
         NEW w, w = WithVars(h, object, added)
  PROVE  /\ Grown(w.heap, h)
         /\ w.object \in 1 .. Len(w.heap)
         /\ added = Nothing => w.object = object
         /\ added # Nothing => w.object = Len(h) + 1
<1>1. Len(h) \in Nat /\ DOMAIN h = 1 .. Len(h) /\ IsList(h) /\ \A o \in DOMAIN h : GoodObject(h[o])
  BY ListFacts DEF GoodHeap
<1>2. CASE added = Nothing
  <2>1. w.heap = h /\ w.object = object
    BY <1>2 DEF WithVars
  <2> QED
    BY <1>1, <1>2, <2>1 DEF Grown
<1>3. CASE added # Nothing
  <2> DEFINE new == Over(added, h[object])
             g == Append(h, new)
  <2>1. w.heap = g /\ w.object = Len(h) + 1
    BY <1>3 DEF WithVars
  <2>2. GoodObject(new)
    BY <1>1, GoodOver
  <2> HIDE DEF new
  <2>3. /\ IsList(g) /\ Len(g) = Len(h) + 1 /\ DOMAIN g = 1 .. Len(h) + 1
        /\ \A i \in 1 .. Len(h) : g[i] = h[i]
        /\ g[Len(h) + 1] = new
    BY <1>1, AppendIs
  <2> HIDE DEF g
  <2>4. ASSUME NEW o \in DOMAIN g PROVE GoodObject(g[o])
    <3>1. o = Len(h) + 1 \/ o \in 1 .. Len(h)
      BY <1>1, <2>3
    <3> QED
      BY <1>1, <2>2, <2>3, <3>1
  <2> QED
    BY <1>1, <1>3, <2>1, <2>3, <2>4 DEF GoodHeap, Grown
<1> QED
  BY <1>2, <1>3

(* What becomes of a frame and what it has seen when others change.        *)
LEMMA FrameGrows ==
  ASSUME NEW f, NEW m \in Nat, NEW n \in Nat, m <= n, GoodFrame(f, m)
  PROVE  GoodFrame(f, n)
<1>1. f.vars \in 1 .. m /\ f.own \in 1 .. m
  BY DEF GoodFrame
<1>2. f.vars \in 1 .. n /\ f.own \in 1 .. n
  BY <1>1
<1> QED
  BY <1>2 DEF GoodFrame

LEMMA SeenKept ==
  ASSUME NEW f, NEW h, NEW l, NEW g, NEW k, Seen(f, h, l), l \subseteq k, g[f.vars] = h[f.vars]
  PROVE  Seen(f, g, k)
BY DEF Seen

LEMMA StackFacts ==
  ASSUME NEW fs, NEW h, NEW l, GoodStack(fs, h, l)
  PROVE  /\ Len(fs) \in Nat /\ Len(fs) \in 1 .. Len(fs) /\ DOMAIN fs = 1 .. Len(fs) /\ IsList(fs)
         /\ fs[1].kind = "recipe"
         /\ \A i \in 1 .. Len(fs) : GoodFrame(fs[i], Len(h)) /\ Seen(fs[i], h, l)
         /\ \A i \in 1 .. Len(fs) - 1 : fs[i].at = "nests"
         /\ \A i, j \in 1 .. Len(fs) : i < j => Apart(fs[i], fs[j])
<1>1. IsList(fs) /\ fs # <<>> /\ fs[1].kind = "recipe"
  BY DEF GoodStack
<1>2. Len(fs) \in Nat /\ DOMAIN fs = 1 .. Len(fs) /\ Len(fs) # 0
  BY <1>1, ListFacts
<1>3. Len(fs) \in 1 .. Len(fs)
  BY <1>2
<1> QED
  BY <1>1, <1>2, <1>3 DEF GoodStack

LEMMA StackSet ==
  ASSUME NEW fs, NEW h, NEW l, GoodStack(fs, h, l), NEW d \in 1 .. Len(fs), NEW f,
         NEW g, NEW k, Len(h) \in Nat, Len(g) \in Nat, Len(h) <= Len(g),
         GoodFrame(f, Len(g)), Seen(f, g, k), d = 1 => f.kind = "recipe",
         \A i \in 1 .. d - 1 : Apart(fs[i], f) /\ Seen(fs[i], g, k)
  PROVE  GoodStack(Append(SubSeq(fs, 1, d - 1), f), g, k)
<1>1. /\ Len(fs) \in Nat /\ DOMAIN fs = 1 .. Len(fs) /\ IsList(fs) /\ fs[1].kind = "recipe"
      /\ \A i \in 1 .. Len(fs) : GoodFrame(fs[i], Len(h))
      /\ \A i \in 1 .. Len(fs) - 1 : fs[i].at = "nests"
      /\ \A i, j \in 1 .. Len(fs) : i < j => Apart(fs[i], fs[j])
  BY StackFacts
<1>2. PICK u : u = Append(SubSeq(fs, 1, d - 1), f)
  OBVIOUS
<1>3. /\ IsList(u) /\ Len(u) = d /\ DOMAIN u = 1 .. d /\ u[d] = f
      /\ \A i \in 1 .. d - 1 : u[i] = fs[i] /\ i \in DOMAIN fs
  <2>1. Cut(u, fs, d, f)
    BY <1>1, <1>2, CutIs
  <2> QED
    BY <2>1 DEF Cut
<1>4. d \in Nat /\ d # 0 /\ u # <<>>
  BY <1>1, <1>3, ListFacts
<1>8. u[1].kind = "recipe"
  <2>1. d = 1 \/ 1 \in 1 .. d - 1
    BY <1>4
  <2> QED
    BY <1>1, <1>3, <2>1
<1>5. ASSUME NEW i \in DOMAIN u PROVE GoodFrame(u[i], Len(g)) /\ Seen(u[i], g, k)
  <2>1. CASE i = d
    BY <1>3, <2>1
  <2>2. CASE i \in 1 .. d - 1
    <3>1. u[i] = fs[i] /\ GoodFrame(fs[i], Len(h))
      BY <1>1, <1>3, <2>2
    <3>2. GoodFrame(fs[i], Len(g))
      BY <3>1, FrameGrows
    <3> QED
      BY <2>2, <3>1, <3>2
  <2> QED
    BY <1>3, <1>4, <2>1, <2>2
<1>6. ASSUME NEW i \in 1 .. Len(u) - 1 PROVE u[i].at = "nests"
  <2>1. i \in 1 .. d - 1 /\ i \in 1 .. Len(fs) - 1
    BY <1>1, <1>3, <1>4
  <2> QED
    BY <1>1, <1>3, <2>1
<1>7. ASSUME NEW i \in DOMAIN u, NEW j \in DOMAIN u, i < j PROVE Apart(u[i], u[j])
  <2>1. i \in 1 .. d - 1 /\ u[i] = fs[i] /\ i \in 1 .. Len(fs)
    BY <1>1, <1>3, <1>4, <1>7
  <2>2. CASE j = d
    BY <1>3, <2>1, <2>2
  <2>3. CASE j \in 1 .. d - 1
    <3>1. u[j] = fs[j] /\ j \in 1 .. Len(fs)
      BY <1>1, <1>3, <2>3
    <3> QED
      BY <1>1, <1>7, <2>1, <3>1
  <2> QED
    BY <1>3, <1>4, <2>2, <2>3
<1> QED
  BY <1>2, <1>3, <1>4, <1>5, <1>6, <1>7, <1>8 DEF GoodStack

LEMMA StackPush ==
  ASSUME NEW fs, NEW h, NEW l, GoodStack(fs, h, l), fs[Len(fs)].at = "nests", NEW f,
         NEW g, Len(h) \in Nat, Len(g) \in Nat, Len(h) <= Len(g), \A o \in 1 .. Len(h) : g[o] = h[o],
         GoodFrame(f, Len(g)), Seen(f, g, l),
         \A i \in 1 .. Len(fs) : Apart(fs[i], f)
  PROVE  GoodStack(Append(fs, f), g, l)
<1> DEFINE n == Len(fs)
<1>1. /\ n \in Nat /\ n \in 1 .. n /\ DOMAIN fs = 1 .. n /\ IsList(fs) /\ fs[1].kind = "recipe"
      /\ \A i \in 1 .. n : GoodFrame(fs[i], Len(h)) /\ Seen(fs[i], h, l)
      /\ \A i \in 1 .. n - 1 : fs[i].at = "nests"
      /\ \A i, j \in 1 .. n : i < j => Apart(fs[i], fs[j])
  BY StackFacts
<1>2. PICK u : u = Append(fs, f)
  OBVIOUS
<1>3. /\ IsList(u) /\ Len(u) = n + 1 /\ DOMAIN u = 1 .. n + 1 /\ u[n + 1] = f
      /\ \A i \in 1 .. n : u[i] = fs[i]
  BY <1>1, <1>2, AppendIs
<1>4. fs[n].at = "nests" /\ \A i \in 1 .. n : Apart(fs[i], f)
  OBVIOUS
<1> HIDE DEF n
<1>5. u # <<>> /\ u[1].kind = "recipe"
  <2>1. 1 \in 1 .. n
    BY <1>1
  <2> QED
    BY <1>1, <1>3, <2>1, ListFacts
<1>6. ASSUME NEW i \in DOMAIN u PROVE GoodFrame(u[i], Len(g)) /\ Seen(u[i], g, l)
  <2>1. CASE i = n + 1
    BY <1>3, <2>1
  <2>2. CASE i \in 1 .. n
    <3>1. u[i] = fs[i] /\ GoodFrame(fs[i], Len(h)) /\ Seen(fs[i], h, l)
      BY <1>1, <1>3, <2>2
    <3>2. GoodFrame(fs[i], Len(g))
      BY <3>1, FrameGrows
    <3>3. g[fs[i].vars] = h[fs[i].vars]
      BY <3>1 DEF GoodFrame
    <3> QED
      BY <3>1, <3>2, <3>3, SeenKept
  <2> QED
    BY <1>1, <1>3, <2>1, <2>2
<1>7. ASSUME NEW i \in 1 .. Len(u) - 1 PROVE u[i].at = "nests"
  <2>1. i \in 1 .. n /\ (i = n \/ i \in 1 .. n - 1)
    BY <1>1, <1>3
  <2> QED
    BY <1>1, <1>3, <1>4, <2>1
<1>8. ASSUME NEW i \in DOMAIN u, NEW j \in DOMAIN u, i < j PROVE Apart(u[i], u[j])
  <2>1. i \in 1 .. n /\ u[i] = fs[i]
    BY <1>1, <1>3, <1>8
  <2>2. CASE j = n + 1
    BY <1>3, <1>4, <2>1, <2>2
  <2>3. CASE j \in 1 .. n
    <3>1. u[j] = fs[j]
      BY <1>3, <2>3
    <3> QED
      BY <1>1, <1>8, <2>1, <2>3, <3>1
  <2> QED
    BY <1>1, <1>3, <2>2, <2>3
<1> QED
  BY <1>2, <1>3, <1>5, <1>6, <1>7, <1>8 DEF GoodStack

(* The steps of a renderer. Its innermost list, and the objects it has.    *)
LEMMA NowFacts ==
  ASSUME ScopesInv, NEW p \in Renderers
  PROVE  /\ Len(frames[p]) \in Nat /\ Len(frames[p]) \in 1 .. Len(frames[p])
         /\ Now(p) = frames[p][Len(frames[p])]
         /\ GoodFrame(Now(p), Len(heap[p])) /\ Seen(Now(p), heap[p], late[p])
         /\ \A i \in 1 .. Len(frames[p]) - 1 :
              /\ GoodFrame(frames[p][i], Len(heap[p])) /\ Seen(frames[p][i], heap[p], late[p])
              /\ frames[p][i].at = "nests" /\ Apart(frames[p][i], Now(p))
         /\ GoodHeap(heap[p]) /\ Len(heap[p]) \in Nat /\ DOMAIN heap[p] = 1 .. Len(heap[p])
         /\ \A o \in 1 .. Len(heap[p]) : GoodObject(heap[p][o])
         /\ GoodStack(frames[p], heap[p], late[p]) /\ GoodRenders(render[p])
<1> DEFINE fs == frames[p]
           h == heap[p]
           n == Len(fs)
<1>1. GoodStack(fs, h, late[p]) /\ GoodHeap(h) /\ GoodRenders(render[p])
  BY DEF ScopesInv, WellRun
<1> HIDE DEF fs
<1>2. /\ n \in Nat /\ n \in 1 .. n
      /\ \A i \in 1 .. n : GoodFrame(fs[i], Len(h)) /\ Seen(fs[i], h, late[p])
      /\ \A i \in 1 .. n - 1 : fs[i].at = "nests"
      /\ \A i, j \in 1 .. n : i < j => Apart(fs[i], fs[j])
  BY <1>1, StackFacts
<1>3. Len(h) \in Nat /\ DOMAIN h = 1 .. Len(h) /\ \A o \in DOMAIN h : GoodObject(h[o])
  BY <1>1, ListFacts DEF GoodHeap
<1>4. Now(p) = fs[n]
  BY DEF Now, Last, fs
<1> HIDE DEF n, h
<1>5. \A i \in 1 .. n - 1 : i \in 1 .. n /\ i < n
  BY <1>2
<1>6. \A i \in 1 .. n - 1 : GoodFrame(fs[i], Len(h)) /\ Seen(fs[i], h, late[p]) /\ fs[i].at = "nests" /\ Apart(fs[i], fs[n])
  BY <1>2, <1>5
<1> QED
  BY <1>1, <1>2, <1>3, <1>4, <1>6 DEF fs, h, n

LEMMA SetGood ==
  ASSUME ScopesInv, NEW p \in Renderers, NEW f, Set(p, f), NEW g, heap'[p] = g, late'[p] = late[p],
         GoodHeap(g), Len(g) >= Len(heap[p]), f.kind = Now(p).kind \/ Len(frames[p]) > 1,
         \A i \in 1 .. Len(frames[p]) - 1 :
           Seen(frames[p][i], g, late[p]) /\ Apart(frames[p][i], f),
         GoodFrame(f, Len(g)), Seen(f, g, late[p])
  PROVE  GoodHeap(heap'[p]) /\ GoodStack(frames'[p], heap'[p], late'[p])
<1>1. /\ Len(frames[p]) \in 1 .. Len(frames[p]) /\ GoodStack(frames[p], heap[p], late[p])
      /\ Len(heap[p]) \in Nat
  BY NowFacts
<1>2. Len(g) \in Nat
  BY ListFacts DEF GoodHeap
<1>5. Len(frames[p]) = 1 => f.kind = "recipe"
  BY <1>1, NowFacts, StackFacts
<1>3. GoodStack(Append(SubSeq(frames[p], 1, Len(frames[p]) - 1), f), g, late[p])
  BY <1>1, <1>2, <1>5, StackSet
<1>4. frames'[p] = Append(SubSeq(frames[p], 1, Len(frames[p]) - 1), f)
  BY DEF Set, Front, ScopesInv
<1> QED
  BY <1>3, <1>4

LEMMA SetGrows ==
  ASSUME ScopesInv, NEW p \in Renderers, NEW f, Set(p, f), NEW g, heap'[p] = g, late'[p] = late[p],
         GoodHeap(g), Len(g) >= Len(heap[p]), f.kind = Now(p).kind \/ Len(frames[p]) > 1,
         \A o \in 1 .. Len(heap[p]) : g[o] = heap[p][o],
         \A i \in 1 .. Len(frames[p]) - 1 : Apart(frames[p][i], f),
         GoodFrame(f, Len(g)), Seen(f, g, late[p])
  PROVE  GoodHeap(heap'[p]) /\ GoodStack(frames'[p], heap'[p], late'[p])
<1>1. ASSUME NEW i \in 1 .. Len(frames[p]) - 1 PROVE Seen(frames[p][i], g, late[p])
  <2>1. GoodFrame(frames[p][i], Len(heap[p])) /\ Seen(frames[p][i], heap[p], late[p])
    BY NowFacts
  <2>2. g[frames[p][i].vars] = heap[p][frames[p][i].vars]
    BY <2>1 DEF GoodFrame
  <2> QED
    BY <2>1, <2>2, SeenKept
<1> QED
  BY <1>1, SetGood

(* The next thing to prepare is one.                                       *)
LEMMA NextKeyIs ==
  ASSUME NEW f, NEW n, GoodFrame(f, n), Left(f) # {}
  PROVE  NextKey(f) \in DOMAIN f.prepare
<1>1. CASE f.kind = "recipe"
  <2>1. \E k \in Left(f) : f.kind = "recipe" \/ \A i \in Left(f) : k[1] <= i[1]
    BY <1>1
  <2> QED
    BY <2>1 DEF NextKey, Left
<1>2. CASE f.kind # "recipe"
  <2>1. f.tasks \in Seq(Tasks) /\ DOMAIN f.prepare = DOMAIN Confs(f.tasks)
    BY <1>2 DEF GoodFrame
  <2> DEFINE places == {k[1] : k \in Left(f)}
  <2>2. places \subseteq Nat /\ places # {}
    <3>1. \A k \in Left(f) : k[1] \in DOMAIN f.tasks
      BY <2>1, ConfsGood DEF Left
    <3> QED
      BY <2>1, <3>1
  <2>4. PICK m \in places : \A i \in places : m <= i
    <3> HIDE DEF places
    <3> QED
      BY <2>2, LeastNumber
  <2>3. PICK k \in Left(f) : \A i \in Left(f) : k[1] <= i[1]
    BY <2>4
  <2> QED
    BY <2>3 DEF NextKey, Left
<1> QED
  BY <1>1, <1>2

LEMMA PrepareGood ==
  ASSUME ScopesInv, NEW p \in Renderers, Prepare(p)
  PROVE  WellRun(p)'
<1> DEFINE f == Now(p)
<1>1. GoodFrame(f, Len(heap[p])) /\ GoodHeap(heap[p]) /\ GoodStack(frames[p], heap[p], late[p])
      /\ \A o \in 1 .. Len(heap[p]) : GoodObject(heap[p][o])
  BY NowFacts
<1>2. Left(f) # {} /\ render' = [render EXCEPT ![p] = Rendering(f.prepare[NextKey(f)], List(f, p))]
      /\ UNCHANGED <<heap, frames, late>>
  BY DEF Prepare
<1>3. GoodCell(f.prepare[NextKey(f)]) /\ GoodObject(List(f, p))
  <2>1. NextKey(f) \in DOMAIN f.prepare
    BY <1>1, <1>2, NextKeyIs
  <2> HIDE DEF f
  <2> QED
    BY <1>1, <2>1 DEF GoodFrame, GoodObject, List
<1>4. GoodRenders(Rendering(f.prepare[NextKey(f)], List(f, p)))
  BY <1>3, GoodRendering
<1>5. render'[p] = Rendering(f.prepare[NextKey(f)], List(f, p))
  BY <1>2 DEF ScopesInv
<1> HIDE DEF f
<1> QED
  BY <1>1, <1>2, <1>4, <1>5 DEF WellRun

LEMMA IdleGood ==
  ASSUME ScopesInv, NEW p \in Renderers, Idle(p)
  PROVE  GoodRenders(render'[p])
<1>1. render'[p] = <<>>
  BY DEF Idle, ScopesInv
<1> QED
  BY <1>1, NoRenders

LEMMA OutGood ==
  ASSUME ScopesInv, NEW p \in Renderers, Rendered(p)
  PROVE  GoodTokens(Top(p).out)
<1>1. GoodRenders(render[p]) /\ render[p] # <<>>
  BY NowFacts DEF Rendered, Resolved, At
<1> QED
  BY <1>1, TopIs DEF GoodRender

LEMMA PreparedGood ==
  ASSUME ScopesInv, NEW p \in Renderers, Prepared(p)
  PROVE  WellRun(p)'
<1> DEFINE f == Now(p)
           e == [f EXCEPT !.done = Over(Sole(NextKey(f), Top(p).out), @)]
           h == heap[p]
<1>1. GoodFrame(f, Len(h)) /\ GoodHeap(h) /\ Len(h) \in Nat /\ Seen(f, h, late[p])
      /\ \A i \in 1 .. Len(frames[p]) - 1 : Apart(frames[p][i], f)
  BY NowFacts
<1>2. f.at = "prepares" /\ Set(p, e) /\ Idle(p) /\ heap' = heap /\ late' = late /\ Rendered(p)
  BY DEF Prepared, Running
<1>3. GoodTokens(Top(p).out)
  BY <1>2, OutGood
<1> HIDE DEF f
<1>4. /\ DOMAIN e = DOMAIN f /\ e.done = Over(Sole(NextKey(f), Top(p).out), f.done)
      /\ e.kind = f.kind /\ e.tasks = f.tasks /\ e.pos = f.pos /\ e.vars = f.vars /\ e.extra = f.extra
      /\ e.prepare = f.prepare /\ e.at = f.at /\ e.acc = f.acc /\ e.own = f.own
  BY <1>1 DEF GoodFrame
<1> HIDE DEF e
<1>5. \A k \in DOMAIN e.done : GoodTokens(e.done[k])
  <2>1. \A k \in DOMAIN f.done : GoodTokens(f.done[k])
    BY <1>1 DEF GoodFrame
  <2> QED
    BY <1>3, <1>4, <2>1 DEF Over, Sole
<1>6. GoodFrame(e, Len(h))
  BY <1>1, <1>2, <1>4, <1>5 DEF GoodFrame
<1>7. Seen(e, h, late[p]) /\ \A i \in 1 .. Len(frames[p]) - 1 : Apart(frames[p][i], e)
  BY <1>1, <1>4 DEF Seen, Apart, Shares
<1>8. GoodHeap(heap'[p]) /\ GoodStack(frames'[p], heap'[p], late'[p])
  <2>1. e.kind = Now(p).kind
    BY <1>4 DEF f
  <2> QED
    BY <1>1, <1>2, <1>6, <1>7, <2>1, SetGrows
<1> QED
  BY <1>2, <1>8, IdleGood DEF WellRun

LEMMA BeginListGood ==
  ASSUME ScopesInv, NEW p \in Renderers, BeginList(p)
  PROVE  WellRun(p)'
<1> DEFINE f == Now(p)
           h == heap[p]
           w == WithVars(h, f.vars, f.extra)
           e == [f EXCEPT !.at = "ready", !.vars = w.object]
<1>1. /\ GoodFrame(f, Len(h)) /\ GoodHeap(h) /\ Len(h) \in Nat /\ DOMAIN h = 1 .. Len(h) /\ GoodRenders(render[p])
      /\ \A i \in 1 .. Len(frames[p]) - 1 : GoodFrame(frames[p][i], Len(h)) /\ Apart(frames[p][i], f)
  BY NowFacts
<1>2. /\ f.at = "prepares" /\ f.kind # "recipe" /\ Left(f) = {}
      /\ heap' = [heap EXCEPT ![p] = w.heap] /\ Set(p, e) /\ late' = late /\ render' = render
  BY DEF BeginList, Ready, Running
<1> HIDE DEF f
<1>3. f.vars \in DOMAIN h /\ GoodObject(f.extra)
  BY <1>1, <1>2 DEF GoodFrame
<1> HIDE DEF h
<1>W. w = WithVars(h, f.vars, f.extra)
  OBVIOUS
<1> HIDE DEF w
<1>0. /\ Grown(w.heap, h) /\ w.object \in 1 .. Len(w.heap)
      /\ f.extra = Nothing => w.object = f.vars
      /\ f.extra # Nothing => w.object = Len(h) + 1
  <2>1. GoodHeap(h)
    BY <1>1
  <2>2. Grown(w.heap, h) /\ w.object \in 1 .. Len(w.heap)
    BY <2>1, <1>3, <1>W, WithVarsIs
  <2>3. f.extra = Nothing => w.object = f.vars
    BY <2>1, <1>3, <1>W, WithVarsIs
  <2>4. f.extra # Nothing => w.object = Len(h) + 1
    BY <2>1, <1>3, <1>W, WithVarsIs
  <2> QED
    BY <2>2, <2>3, <2>4
<1>4. /\ GoodHeap(w.heap) /\ Len(w.heap) \in Nat /\ Len(w.heap) >= Len(h)
      /\ \A o \in DOMAIN h : w.heap[o] = h[o]
  BY <1>0 DEF Grown
<1>5. /\ DOMAIN e = DOMAIN f /\ e.done = f.done
      /\ e.kind = f.kind /\ e.tasks = f.tasks /\ e.pos = f.pos /\ e.vars = w.object /\ e.extra = f.extra
      /\ e.prepare = f.prepare /\ e.at = "ready" /\ e.acc = f.acc /\ e.own = f.own
  BY <1>1 DEF GoodFrame
<1> HIDE DEF e
<1>6. GoodFrame(e, Len(w.heap))
  <2>1. GoodFrame(f, Len(w.heap))
    BY <1>1, <1>0, <1>4, FrameGrows
  <2>2. DOMAIN Confs(e.tasks) \subseteq DOMAIN e.done
    BY <1>1, <1>2, <1>5 DEF GoodFrame, Left
  <2> QED
    BY <1>0, <1>4, <1>5, <2>1, <2>2 DEF GoodFrame
<1>7. Seen(e, w.heap, late[p])
  BY <1>1, <1>2, <1>5 DEF GoodFrame, Seen
<1>8. ASSUME NEW i \in 1 .. Len(frames[p]) - 1 PROVE Apart(frames[p][i], e)
  <2> SUFFICES ASSUME frames[p][i].vars = e.vars PROVE Shares(e)
    BY DEF Apart
  <2>1. frames[p][i].vars \in 1 .. Len(h)
    BY <1>1 DEF GoodFrame
  <2>2. f.extra = Nothing
    BY <1>1, <1>0, <1>4, <1>5, <2>1
  <2>3. frames[p][i].vars = f.vars
    BY <1>0, <1>4, <1>5, <2>2
  <2>4. Shares(f) \/ f.kind \in {"try", "loop", "catch", "finally"}
    BY <1>1, <2>3 DEF Apart
  <2>5. f.kind \notin {"try", "loop", "catch"}
    BY <1>1, <2>2 DEF GoodFrame
  <2> QED
    BY <1>5, <2>2, <2>4, <2>5 DEF Shares
<1>9. heap'[p] = w.heap /\ late'[p] = late[p] /\ \A o \in 1 .. Len(h) : w.heap[o] = h[o]
  BY <1>1, <1>2, <1>0, <1>4 DEF ScopesInv
<1>10. GoodHeap(heap'[p]) /\ GoodStack(frames'[p], heap'[p], late'[p])
  <2>1. e.kind = Now(p).kind
    BY <1>5 DEF f
  <2> QED
    BY <1>2, <1>0, <1>4, <1>6, <1>7, <1>8, <1>9, <2>1, SetGrows DEF h
<1> QED
  BY <1>1, <1>2, <1>10 DEF WellRun

LEMMA BeginRecipeGood ==
  ASSUME ScopesInv, NEW p \in Renderers, BeginRecipe(p)
  PROVE  WellRun(p)'
<1> DEFINE f == Now(p)
           h == heap[p]
           object == [n \in DOMAIN f.done |-> [tokens |-> f.done[n]]]
           g == Append(h, object)
           at == IF f.extra \subseteq DOMAIN object THEN "ready" ELSE "fails"
           e == [f EXCEPT !.vars = Len(h) + 1, !.at = at]
<1>1. /\ GoodFrame(f, Len(h)) /\ GoodHeap(h) /\ Len(h) \in Nat /\ DOMAIN h = 1 .. Len(h) /\ GoodRenders(render[p])
      /\ \A o \in 1 .. Len(h) : GoodObject(h[o])
      /\ \A i \in 1 .. Len(frames[p]) - 1 : GoodFrame(frames[p][i], Len(h))
  BY NowFacts
<1>2. /\ f.at = "prepares" /\ f.kind = "recipe"
      /\ heap' = [heap EXCEPT ![p] = g] /\ Set(p, e) /\ late' = late /\ render' = render
  BY DEF BeginRecipe, Ready, Running
<1> HIDE DEF f, h
<1>3. GoodObject(object)
  <2>1. ASSUME NEW n \in DOMAIN object PROVE GoodCell(object[n])
    <3>1. GoodTokens(f.done[n])
      BY <1>1 DEF GoodFrame
    <3>2. object[n] = [tokens |-> f.done[n]]
      OBVIOUS
    <3> QED
      BY <3>1, <3>2 DEF GoodCell, IsTemplate
  <2> QED
    BY <2>1 DEF GoodObject
<1> HIDE DEF object
<1>4. IsList(h)
  BY <1>1 DEF GoodHeap
<1>5. /\ IsList(g) /\ Len(g) = Len(h) + 1 /\ DOMAIN g = 1 .. Len(h) + 1
      /\ \A i \in 1 .. Len(h) : g[i] = h[i]
      /\ g[Len(h) + 1] = object
  BY <1>4, AppendIs
<1> HIDE DEF g
<1>6. GoodHeap(g)
  <2>1. ASSUME NEW o \in DOMAIN g PROVE GoodObject(g[o])
    <3>1. o = Len(h) + 1 \/ o \in 1 .. Len(h)
      BY <1>1, <1>5
    <3> QED
      BY <1>1, <1>3, <1>5, <3>1
  <2> QED
    BY <1>5, <2>1 DEF GoodHeap
<1>7. /\ DOMAIN e = DOMAIN f /\ e.done = f.done
      /\ e.kind = f.kind /\ e.tasks = f.tasks /\ e.pos = f.pos /\ e.vars = Len(h) + 1 /\ e.extra = f.extra
      /\ e.prepare = f.prepare /\ e.at \in {"ready", "fails"} /\ e.acc = f.acc /\ e.own = f.own
  BY <1>1 DEF GoodFrame
<1> HIDE DEF e
<1>8. GoodFrame(e, Len(g))
  <2>1. GoodFrame(f, Len(g)) /\ e.vars \in 1 .. Len(g)
    <3>1. Len(g) \in Nat /\ Len(h) <= Len(g) /\ Len(h) + 1 \in 1 .. Len(g)
      BY <1>1, <1>5
    <3> QED
      BY <1>1, <1>7, <3>1, FrameGrows
  <2> QED
    BY <1>2, <1>7, <2>1 DEF GoodFrame
<1>9. Seen(e, g, late[p])
  BY <1>1, <1>2, <1>7 DEF GoodFrame, Seen
<1>10. ASSUME NEW i \in 1 .. Len(frames[p]) - 1 PROVE Apart(frames[p][i], e)
  <2>1. frames[p][i].vars \in 1 .. Len(h)
    BY <1>1 DEF GoodFrame
  <2>2. frames[p][i].vars # e.vars
    BY <1>1, <1>7, <2>1
  <2> QED
    BY <2>2 DEF Apart
<1>11. heap'[p] = g /\ late'[p] = late[p] /\ Len(g) >= Len(h)
  BY <1>1, <1>2, <1>5 DEF ScopesInv
<1>12. GoodHeap(heap'[p]) /\ GoodStack(frames'[p], heap'[p], late'[p])
  <2>1. e.kind = Now(p).kind
    BY <1>7 DEF f
  <2> QED
    BY <1>2, <1>5, <1>6, <1>8, <1>9, <1>10, <1>11, <2>1, SetGrows DEF h
<1> QED
  BY <1>1, <1>2, <1>12 DEF WellRun

(* An object in which something is put.                                    *)
LEMMA PutIs ==
  ASSUME NEW h, GoodHeap(h), NEW object \in DOMAIN h, NEW put, GoodObject(put)
  PROVE  LET g == [h EXCEPT ![object] = Over(put, @)]
         IN /\ GoodHeap(g) /\ Len(g) = Len(h) /\ DOMAIN g = DOMAIN h
            /\ \A o \in DOMAIN h : g[o] = IF o = object THEN Over(put, h[o]) ELSE h[o]
<1> DEFINE g == [h EXCEPT ![object] = Over(put, h[object])]
<1>1. IsList(h) /\ \A o \in DOMAIN h : GoodObject(h[o])
  BY DEF GoodHeap
<1>2. /\ IsList(g) /\ Len(g) = Len(h) /\ DOMAIN g = DOMAIN h
      /\ \A o \in DOMAIN h : g[o] = IF o = object THEN Over(put, h[object]) ELSE h[o]
  BY <1>1, ExceptIs
<1> HIDE DEF g
<1>3. \A o \in DOMAIN g : GoodObject(g[o])
  BY <1>1, <1>2, GoodOver
<1>4. GoodHeap(g)
  BY <1>2, <1>3 DEF GoodHeap
<1> QED
  BY <1>2, <1>4 DEF g

LEMMA SeenUnput ==
  ASSUME NEW f, NEW h, NEW l, NEW k, Seen(f, h, l), l \subseteq k, NEW g, NEW put,
         g[f.vars] = h[f.vars] \/ (g[f.vars] = Over(put, h[f.vars]) /\ DOMAIN put \subseteq k \cup {"previous"})
  PROVE  Seen(f, g, k)
<1>1. CASE g[f.vars] = h[f.vars]
  BY <1>1, SeenKept
<1>2. CASE g[f.vars] = Over(put, h[f.vars]) /\ DOMAIN put \subseteq k \cup {"previous"}
  <2> SUFFICES ASSUME NEW n \in DOMAIN f.acc \ (k \cup {"previous"})
               PROVE  n \in DOMAIN g[f.vars] /\ g[f.vars][n] = f.acc[n]
    BY DEF Seen
  <2>1. n \in DOMAIN h[f.vars] /\ h[f.vars][n] = f.acc[n] /\ n \notin DOMAIN put
    BY <1>2 DEF Seen
  <2>2. n \in DOMAIN Over(put, h[f.vars]) /\ Over(put, h[f.vars])[n] = h[f.vars][n]
    <3>1. PICK o : o = h[f.vars]
      OBVIOUS
    <3>2. n \in DOMAIN o \ DOMAIN put
      BY <2>1, <3>1
    <3>3. n \in DOMAIN Over(put, o) /\ Over(put, o)[n] = o[n]
      BY <3>2, OverAt
    <3> QED
      BY <3>1, <3>3
  <2> QED
    BY <1>2, <2>1, <2>2
<1> QED
  BY <1>1, <1>2

LEMMA TaskIs ==
  ASSUME NEW f, NEW n, GoodFrame(f, n), f.pos <= Len(f.tasks)
  PROVE  f.pos \in DOMAIN f.tasks /\ TaskAt(f) \in Tasks
<1>1. f.tasks \in Seq(Tasks) /\ f.pos \in Nat \ {0}
  BY DEF GoodFrame
<1>2. f.pos \in 1 .. Len(f.tasks)
  BY <1>1
<1> QED
  BY <1>1, <1>2 DEF TaskAt

LEMMA StartTaskGood ==
  ASSUME ScopesInv, NEW p \in Renderers, StartTask(p)
  PROVE  WellRun(p)'
<1> DEFINE f == Now(p)
           h == heap[p]
           previous == Sole("previous", Plain(f.prev))
           k == [h EXCEPT ![f.vars] = Over(previous, @)]
           w == WithVars(k, f.vars, VarsOf(f))
           e == [f EXCEPT !.at = "renders", !.own = w.object]
<1>1. /\ GoodFrame(f, Len(h)) /\ GoodHeap(h) /\ Len(h) \in Nat /\ DOMAIN h = 1 .. Len(h) /\ Seen(f, h, late[p])
      /\ \A i \in 1 .. Len(frames[p]) - 1 :
           GoodFrame(frames[p][i], Len(h)) /\ Seen(frames[p][i], h, late[p]) /\ Apart(frames[p][i], f)
  BY NowFacts
<1>2. /\ f.at = "ready" /\ f.pos <= Len(f.tasks)
      /\ heap' = [heap EXCEPT ![p] = w.heap] /\ Set(p, e) /\ late' = late
      /\ render' = [render EXCEPT ![p] = Rendering(Conf(f), w.heap[w.object])]
  BY DEF StartTask, Running
<1> HIDE DEF f, h
<1>3. TaskAt(f) \in Tasks /\ f.pos \in DOMAIN f.tasks /\ f.vars \in DOMAIN h
  BY <1>1, <1>2, TaskIs DEF GoodFrame
<1>4. GoodObject(previous) /\ DOMAIN previous = {"previous"}
  BY GoodPlain, GoodSole
<1> HIDE DEF previous
<1>5. /\ GoodHeap(k) /\ Len(k) = Len(h) /\ DOMAIN k = DOMAIN h
      /\ \A o \in DOMAIN h : k[o] = IF o = f.vars THEN Over(previous, h[o]) ELSE h[o]
  BY <1>1, <1>3, <1>4, PutIs
<1> HIDE DEF k
<1>K. f.kind # "recipe" => \A n \in DOMAIN TaskAt(f).vars \cup {""} : GoodTokens(f.done[<<f.pos, n>>])
  <2> SUFFICES ASSUME f.kind # "recipe", NEW n \in DOMAIN TaskAt(f).vars \cup {""}
               PROVE  GoodTokens(f.done[<<f.pos, n>>])
    OBVIOUS
  <2>1. f.tasks \in Seq(Tasks) /\ DOMAIN Confs(f.tasks) \subseteq DOMAIN f.done
        /\ \A k1 \in DOMAIN f.done : GoodTokens(f.done[k1])
    BY <1>1, <1>2 DEF GoodFrame
  <2>2. <<f.pos, n>> \in DOMAIN Confs(f.tasks)
    BY <1>3, <2>1, ConfsGood DEF TaskAt
  <2> QED
    BY <2>1, <2>2
<1>W. w = WithVars(k, f.vars, VarsOf(f))
  OBVIOUS
<1> HIDE DEF w
<1>6. /\ GoodHeap(w.heap) /\ Len(w.heap) \in Nat /\ Len(w.heap) >= Len(k)
      /\ \A o \in DOMAIN k : w.heap[o] = k[o]
      /\ w.object \in 1 .. Len(w.heap)
  <2>1. GoodObject(VarsOf(f))
    BY <1>K, <1>3, TaskFacts, GoodExtracted DEF VarsOf, GoodObject
  <2>2. Grown(w.heap, k) /\ w.object \in 1 .. Len(w.heap)
    BY <1>3, <1>5, <2>1, <1>W, WithVarsIs
  <2> QED
    BY <2>2 DEF Grown
<1>7. GoodRenders(Rendering(Conf(f), w.heap[w.object]))
  <2>1. GoodObject(w.heap[w.object])
    BY <1>6, ListFacts DEF GoodHeap
  <2>2. GoodCell(Conf(f))
    <3>1. CASE f.kind = "recipe"
      BY <1>3, <3>1, TaskFacts DEF Conf
    <3>2. CASE f.kind # "recipe"
      <4>1. GoodTokens(f.done[<<f.pos, "">>])
        BY <1>K, <3>2
      <4> QED
        BY <3>2, <4>1, GoodExtracted DEF Conf
    <3> QED
      BY <3>1, <3>2
  <2> QED
    BY <2>1, <2>2, GoodRendering
<1>8. /\ DOMAIN e = DOMAIN f /\ e.done = f.done
      /\ e.kind = f.kind /\ e.tasks = f.tasks /\ e.pos = f.pos /\ e.vars = f.vars /\ e.extra = f.extra
      /\ e.prepare = f.prepare /\ e.at = "renders" /\ e.acc = f.acc /\ e.own = w.object
  BY <1>1 DEF GoodFrame
<1> HIDE DEF e
<1>9. GoodFrame(e, Len(w.heap))
  <2>1. GoodFrame(f, Len(w.heap))
    BY <1>1, <1>5, <1>6, FrameGrows
  <2> QED
    BY <1>2, <1>6, <1>8, <2>1 DEF GoodFrame
<1>10. ASSUME NEW a, GoodFrame(a, Len(h)), Seen(a, h, late[p]) PROVE Seen(a, w.heap, late[p])
  <2>1. a.vars \in DOMAIN h
    BY <1>1, <1>10 DEF GoodFrame
  <2>2. w.heap[a.vars] = h[a.vars] \/ w.heap[a.vars] = Over(previous, h[a.vars])
    BY <1>5, <1>6, <2>1
  <2>3. DOMAIN previous \subseteq late[p] \cup {"previous"} /\ late[p] \subseteq late[p]
    BY <1>4
  <2> QED
    BY <1>10, <2>2, <2>3, SeenUnput
<1>11. Seen(e, w.heap, late[p])
  <2>1. Seen(f, w.heap, late[p])
    BY <1>1, <1>10
  <2> QED
    BY <1>8, <2>1 DEF Seen
<1>12. ASSUME NEW i \in 1 .. Len(frames[p]) - 1
       PROVE  Seen(frames[p][i], w.heap, late[p]) /\ Apart(frames[p][i], e)
  <2>1. Seen(frames[p][i], w.heap, late[p])
    BY <1>1, <1>10
  <2>2. Apart(frames[p][i], e)
    BY <1>1, <1>2, <1>8 DEF Apart, Shares
  <2> QED
    BY <2>1, <2>2
<1>13. heap'[p] = w.heap /\ late'[p] = late[p] /\ Len(w.heap) >= Len(h)
       /\ render'[p] = Rendering(Conf(f), w.heap[w.object])
  BY <1>1, <1>2, <1>5, <1>6 DEF ScopesInv
<1>14. GoodHeap(heap'[p]) /\ GoodStack(frames'[p], heap'[p], late'[p])
  <2>1. e.kind = Now(p).kind
    BY <1>8 DEF f
  <2> QED
    BY <1>2, <1>6, <1>9, <1>11, <1>12, <1>13, <2>1, SetGood DEF h
<1> QED
  BY <1>7, <1>13, <1>14 DEF WellRun

LEMMA PutByGood ==
  ASSUME NEW t, NEW out, GoodCell(out), NEW result, GoodObject(result)
  PROVE  GoodObject(PutBy(t, out, result))
<1>1. GoodObject(IF t.global THEN result ELSE Nothing)
  BY GoodNothing
<1>2. GoodObject(IF t.out = "" THEN Nothing ELSE Sole(t.out, out))
  BY GoodNothing, GoodSole
<1> QED
  BY <1>1, <1>2, GoodOver DEF PutBy

(* What a task has put is in the object and in what its list returns, and  *)
(* in the object of a list around it only if it is put there late.         *)
LEMMA StoreGood ==
  ASSUME ScopesInv, NEW p \in Renderers, NEW d \in 1 .. Len(frames[p]),
         frames[p][d].at \in {"renders", "nests"},
         NEW out, GoodCell(out), NEW result, GoodObject(result), Store(p, d, out, result)
  PROVE  GoodHeap(heap'[p]) /\ GoodStack(frames'[p], heap'[p], late'[p])
<1> DEFINE fs == frames[p]
           h == heap[p]
           f == fs[d]
           put == PutBy(TaskAt(f), out, result)
           e == [f EXCEPT !.acc = Over(put, @), !.pos = @ + 1, !.at = "ready", !.prev = TaskAt(f).name]
           g == [h EXCEPT ![f.vars] = Over(put, @)]
           k == IF Shares(f) THEN late[p] \cup DOMAIN put ELSE late[p]
<1>1. /\ GoodStack(fs, h, late[p]) /\ GoodHeap(h) /\ Len(h) \in Nat /\ DOMAIN h = 1 .. Len(h)
  BY NowFacts
<1>2. heap'[p] = g /\ frames'[p] = Append(SubSeq(fs, 1, d - 1), e) /\ late'[p] = k
  <2>1. /\ heap' = [heap EXCEPT ![p] = g]
        /\ frames' = [frames EXCEPT ![p] = Append(SubSeq(@, 1, d - 1), e)]
        /\ late' = IF Shares(f) THEN [late EXCEPT ![p] = @ \cup DOMAIN put] ELSE late
    BY DEF Store
  <2>2. DOMAIN heap = Renderers /\ DOMAIN frames = Renderers /\ DOMAIN late = Renderers
    BY DEF ScopesInv
  <2> HIDE DEF e, put, f, g
  <2>3. heap'[p] = g
    BY <2>1, <2>2
  <2>4. frames'[p] = Append(SubSeq(fs, 1, d - 1), e)
    BY <2>1, <2>2
  <2>5. late'[p] = k
    BY <2>1, <2>2
  <2> QED
    BY <2>3, <2>4, <2>5
<1> HIDE DEF fs, h
<1>3. /\ Len(fs) \in Nat /\ \A i \in 1 .. Len(fs) : GoodFrame(fs[i], Len(h)) /\ Seen(fs[i], h, late[p])
      /\ \A i, j \in 1 .. Len(fs) : i < j => Apart(fs[i], fs[j])
      /\ fs[1].kind = "recipe"
  BY <1>1, StackFacts
<1>4. d \in 1 .. Len(fs) /\ GoodFrame(f, Len(h)) /\ Seen(f, h, late[p]) /\ f.at \in {"renders", "nests"}
  BY <1>3 DEF fs
<1>5. \A i \in 1 .. d - 1 : GoodFrame(fs[i], Len(h)) /\ Seen(fs[i], h, late[p]) /\ Apart(fs[i], f)
  <2>1. \A i \in 1 .. d - 1 : i \in 1 .. Len(fs) /\ i < d
    BY <1>3, <1>4
  <2> QED
    BY <1>3, <1>4, <2>1
<1>6. GoodObject(put)
  BY PutByGood
<1> HIDE DEF f, put
<1>7. f.vars \in DOMAIN h
  BY <1>1, <1>4 DEF GoodFrame
<1>8. /\ GoodHeap(g) /\ Len(g) = Len(h) /\ DOMAIN g = DOMAIN h
      /\ \A o \in DOMAIN h : g[o] = IF o = f.vars THEN Over(put, h[o]) ELSE h[o]
  BY <1>1, <1>6, <1>7, PutIs
<1>9. /\ DOMAIN e = DOMAIN f /\ e.done = f.done
      /\ e.kind = f.kind /\ e.tasks = f.tasks /\ e.pos = f.pos + 1 /\ e.vars = f.vars /\ e.extra = f.extra
      /\ e.prepare = f.prepare /\ e.at = "ready" /\ e.acc = Over(put, f.acc) /\ e.own = f.own
  BY <1>4 DEF GoodFrame
<1> HIDE DEF e, g
<1>10. GoodFrame(e, Len(g))
  <2>1. GoodObject(e.acc)
    <3>1. GoodObject(f.acc)
      BY <1>4 DEF GoodFrame
    <3> QED
      BY <1>6, <1>9, <3>1, GoodOver
  <2>2. e.pos \in Nat \ {0}
    <3>1. f.pos \in Nat \ {0}
      BY <1>4 DEF GoodFrame
    <3> QED
      BY <1>9, <3>1
  <2> QED
    BY <1>4, <1>8, <1>9, <2>1, <2>2 DEF GoodFrame
<1>11. late[p] \subseteq k /\ (Shares(f) => DOMAIN put \subseteq k)
  OBVIOUS
<1> HIDE DEF k
<1>12. Seen(e, g, k)
  <2> SUFFICES ASSUME NEW n \in DOMAIN e.acc \ (k \cup {"previous"})
               PROVE  n \in DOMAIN g[f.vars] /\ g[f.vars][n] = e.acc[n]
    BY <1>9 DEF Seen
  <2>1. PICK o : o = h[f.vars]
    OBVIOUS
  <2>2. g[f.vars] = Over(put, o)
    BY <1>7, <1>8, <2>1
  <2>3. CASE n \in DOMAIN put
    <3>1. n \in DOMAIN Over(put, o) /\ Over(put, o)[n] = put[n]
      BY <2>3, OverAt
    <3>2. e.acc[n] = put[n]
      BY <1>9, <2>3, OverAt
    <3> QED
      BY <2>2, <3>1, <3>2
  <2>4. CASE n \notin DOMAIN put
    <3>1. n \in DOMAIN Over(put, f.acc)
      BY <1>9
    <3>2. n \in DOMAIN f.acc
      BY <2>4, <3>1 DEF Over
    <3>3. Over(put, f.acc)[n] = f.acc[n]
      BY <2>4, <3>2, OverAt
    <3>4. n \in DOMAIN o /\ o[n] = f.acc[n]
      BY <1>4, <1>11, <2>1, <3>2 DEF Seen
    <3>5. n \in DOMAIN Over(put, o) /\ Over(put, o)[n] = o[n]
      BY <2>4, <3>4, OverAt
    <3> QED
      BY <1>9, <2>2, <3>3, <3>4, <3>5
  <2> QED
    BY <2>3, <2>4
<1>13. ASSUME NEW i \in 1 .. d - 1 PROVE Apart(fs[i], e) /\ Seen(fs[i], g, k)
  <2>1. GoodFrame(fs[i], Len(h)) /\ Seen(fs[i], h, late[p]) /\ Apart(fs[i], f)
    BY <1>5
  <2>2. Apart(fs[i], e)
    BY <1>4, <1>9, <2>1 DEF Apart, Shares
  <2>3. fs[i].vars \in DOMAIN h
    BY <1>1, <2>1 DEF GoodFrame
  <2>4. CASE fs[i].vars # f.vars
    <3>1. g[fs[i].vars] = h[fs[i].vars]
      BY <1>8, <2>3, <2>4
    <3> QED
      BY <1>11, <2>1, <2>2, <3>1, SeenKept
  <2>5. CASE fs[i].vars = f.vars
    <3>1. Shares(f)
      BY <1>4, <2>1, <2>5 DEF Apart
    <3>2. g[fs[i].vars] = Over(put, h[fs[i].vars]) /\ DOMAIN put \subseteq k \cup {"previous"}
      BY <1>8, <1>11, <2>3, <2>5, <3>1
    <3> QED
      BY <1>11, <2>1, <2>2, <3>2, SeenUnput
  <2> QED
    BY <2>4, <2>5
<1>14. GoodStack(Append(SubSeq(fs, 1, d - 1), e), g, k)
  <2>1. Len(g) \in Nat /\ Len(h) <= Len(g)
    BY <1>1, <1>8
  <2>2. d = 1 => e.kind = "recipe"
    BY <1>3, <1>9 DEF f
  <2> QED
    BY <1>1, <1>4, <1>10, <1>12, <1>13, <2>1, <2>2, StackSet
<1> QED
  BY <1>2, <1>8, <1>14

(* A list that fails, or goes on in another way, keeps its object.         *)
SeesAs(e, f) ==
  (\A h, l : Seen(f, h, l) => Seen(e, h, l)) /\ \A a : Apart(a, f) => Apart(a, e)

LEMMA AtIs ==
  ASSUME NEW f, NEW n, GoodFrame(f, n), NEW at, at \in {"fails", "nests"}, f.pos <= Len(f.tasks) \/ at = "fails",
         f.at = "renders" \/ at = "fails", NEW e, e = [f EXCEPT !.at = at]
  PROVE  GoodFrame(e, n) /\ SeesAs(e, f) /\ e.at = at /\ e.kind = f.kind
<1>1. /\ DOMAIN e = DOMAIN f /\ e.done = f.done
      /\ e.kind = f.kind /\ e.tasks = f.tasks /\ e.pos = f.pos /\ e.vars = f.vars /\ e.extra = f.extra
      /\ e.prepare = f.prepare /\ e.at = at /\ e.acc = f.acc /\ e.own = f.own
  BY DEF GoodFrame
<1>2. GoodFrame(e, n)
  <2>1. CASE at = "fails"
    BY <1>1, <2>1 DEF GoodFrame
  <2>2. CASE at = "nests"
    BY <1>1, <2>2 DEF GoodFrame
  <2> QED
    BY <2>1, <2>2
<1>3. \A h, l : Seen(f, h, l) => Seen(e, h, l)
  BY <1>1 DEF Seen
<1>4. \A a : Apart(a, f) => Apart(a, e)
  <2>1. CASE at = "fails"
    BY <1>1, <2>1 DEF Apart, Shares
  <2>2. CASE at = "nests"
    BY <1>1, <2>2 DEF Apart, Shares
  <2> QED
    BY <2>1, <2>2
<1> QED
  BY <1>1, <1>2, <1>3, <1>4 DEF SeesAs

LEMMA FailGood ==
  ASSUME ScopesInv, NEW p \in Renderers, Set(p, [Now(p) EXCEPT !.at = "fails"]),
         heap' = heap, late' = late
  PROVE  GoodHeap(heap'[p]) /\ GoodStack(frames'[p], heap'[p], late'[p])
<1>1. PICK e : e = [Now(p) EXCEPT !.at = "fails"]
  OBVIOUS
<1>2. GoodFrame(Now(p), Len(heap[p])) /\ Seen(Now(p), heap[p], late[p]) /\ GoodHeap(heap[p])
      /\ Len(heap[p]) \in Nat /\ \A i \in 1 .. Len(frames[p]) - 1 : Apart(frames[p][i], Now(p))
  BY NowFacts
<1>3. GoodFrame(e, Len(heap[p])) /\ SeesAs(e, Now(p)) /\ e.kind = Now(p).kind
  BY <1>1, <1>2, AtIs
<1>4. Seen(e, heap[p], late[p]) /\ \A i \in 1 .. Len(frames[p]) - 1 : Apart(frames[p][i], e)
  BY <1>2, <1>3 DEF SeesAs
<1>5. Set(p, e) /\ heap'[p] = heap[p] /\ late'[p] = late[p] /\ Len(heap[p]) >= Len(heap[p])
  BY <1>1, <1>2
<1> QED
  BY <1>2, <1>3, <1>4, <1>5, SetGrows

LEMMA RunModuleGood ==
  ASSUME ScopesInv, NEW p \in Renderers, RunModule(p)
  PROVE  WellRun(p)'
<1>1. Now(p).at = "renders" /\ Rendered(p) /\ Idle(p)
  BY DEF RunModule, Configured, Running
<1>2. GoodRenders(render'[p])
  BY <1>1, IdleGood
<1>3. CASE Store(p, Len(frames[p]), [tokens |-> Top(p).out],
                 Sole(TaskAt(Now(p)).name, [tokens |-> Top(p).out]))
  <2> DEFINE out == [tokens |-> Top(p).out]
  <2>1. GoodCell(out)
    BY <1>1, OutGood DEF GoodCell, IsTemplate
  <2> HIDE DEF out
  <2>2. GoodObject(Sole(TaskAt(Now(p)).name, out))
    BY <2>1, GoodSole
  <2>3. Len(frames[p]) \in 1 .. Len(frames[p]) /\ frames[p][Len(frames[p])].at \in {"renders", "nests"}
    BY <1>1, NowFacts
  <2>4. Store(p, Len(frames[p]), out, Sole(TaskAt(Now(p)).name, out))
    BY <1>3 DEF out
  <2>5. GoodHeap(heap'[p]) /\ GoodStack(frames'[p], heap'[p], late'[p])
    BY <2>1, <2>2, <2>3, <2>4, StoreGood
  <2> QED
    BY <1>2, <2>5 DEF WellRun
<1>4. CASE Set(p, [Now(p) EXCEPT !.at = "fails"]) /\ UNCHANGED <<heap, late>>
  <2>1. GoodHeap(heap'[p]) /\ GoodStack(frames'[p], heap'[p], late'[p])
    BY <1>4, FailGood
  <2> QED
    BY <1>2, <2>1 DEF WellRun
<1> QED
  BY <1>3, <1>4 DEF RunModule

LEMMA RenderFailsGood ==
  ASSUME ScopesInv, NEW p \in Renderers, RenderFails(p)
  PROVE  WellRun(p)'
<1>1. render'[p] = <<>> /\ Set(p, [Now(p) EXCEPT !.at = "fails"]) /\ heap' = heap /\ late' = late
  BY DEF RenderFails, FilterFails, ScopesInv
<1>2. GoodHeap(heap'[p]) /\ GoodStack(frames'[p], heap'[p], late'[p])
  BY <1>1, FailGood
<1>3. GoodRenders(render'[p])
  BY <1>1, NoRenders
<1> QED
  BY <1>2, <1>3 DEF WellRun

(* A list that is new, with an object no other list has or not yet running.*)
Fresh(f, h) ==
  /\ DOMAIN f.acc = {}
  /\ (f.kind \in {"try", "loop", "catch", "finally"} /\ f.at = "prepares") \/ f.vars \notin 1 .. Len(h)
Alike(e, f) ==
  /\ DOMAIN e = DOMAIN f /\ e.kind = f.kind /\ e.tasks = f.tasks /\ e.pos = f.pos /\ e.vars = f.vars
  /\ e.extra = f.extra /\ e.prepare = f.prepare /\ e.done = f.done /\ e.at = f.at /\ e.acc = f.acc
  /\ e.own = f.own

LEMMA AlikeGood ==
  ASSUME NEW f, NEW e, Alike(e, f), NEW n, GoodFrame(f, n), NEW h, Fresh(f, h)
  PROVE  GoodFrame(e, n) /\ Fresh(e, h)
<1>1. GoodFrame(e, n)
  BY DEF GoodFrame, Alike
<1>2. Fresh(e, h)
  BY DEF Fresh, Alike
<1> QED
  BY <1>1, <1>2

LEMMA PrevAlike ==
  ASSUME NEW f, NEW n, GoodFrame(f, n), NEW x
  PROVE  Alike([f EXCEPT !.prev = x], f) /\ Alike([f EXCEPT !.tries = x], f)
BY DEF GoodFrame, Alike

LEMMA FreshApart ==
  ASSUME NEW f, NEW h, Fresh(f, h), NEW a, GoodFrame(a, Len(h))
  PROVE  Apart(a, f)
BY DEF Fresh, Apart, GoodFrame

LEMMA FollowGood ==
  ASSUME ScopesInv, NEW p \in Renderers, Len(frames[p]) > 1, NEW f, Follow(p, f),
         NEW g, heap'[p] = g, late'[p] = late[p],
         Grown(g, heap[p]), GoodFrame(f, Len(g)), Fresh(f, heap[p])
  PROVE  GoodHeap(heap'[p]) /\ GoodStack(frames'[p], heap'[p], late'[p])
<1>1. PICK e : e = [f EXCEPT !.prev = Outer(p).prev]
  OBVIOUS
<1>2. Set(p, e)
  BY <1>1 DEF Follow
<1>3. GoodFrame(e, Len(g)) /\ Fresh(e, heap[p])
  <2>1. Alike(e, f)
    BY <1>1, PrevAlike
  <2> QED
    BY <2>1, AlikeGood
<1>4. \A i \in 1 .. Len(frames[p]) - 1 : Apart(frames[p][i], e)
  BY <1>3, NowFacts, FreshApart
<1>5. Seen(e, g, late[p])
  BY <1>3 DEF Fresh, Seen
<1>6. GoodHeap(g) /\ Len(g) >= Len(heap[p]) /\ \A o \in 1 .. Len(heap[p]) : g[o] = heap[p][o]
  BY NowFacts DEF Grown
<1> QED
  BY <1>2, <1>3, <1>4, <1>5, <1>6, SetGrows

LEMMA NestGood ==
  ASSUME ScopesInv, NEW p \in Renderers, NEW f, Nest(p, f), Now(p).at = "renders",
         NEW g, heap'[p] = g, late'[p] = late[p],
         Grown(g, heap[p]), GoodFrame(f, Len(g)), Fresh(f, heap[p])
  PROVE  GoodHeap(heap'[p]) /\ GoodStack(frames'[p], heap'[p], late'[p])
<1> DEFINE fs == frames[p]
           h == heap[p]
           l == late[p]
           n == Len(fs)
<1>1. /\ n \in Nat /\ n \in 1 .. n /\ GoodStack(fs, h, l) /\ Len(h) \in Nat /\ DOMAIN h = 1 .. Len(h)
      /\ GoodFrame(Now(p), Len(h)) /\ Seen(Now(p), h, l)
      /\ \A i \in 1 .. n - 1 : Apart(fs[i], Now(p)) /\ Seen(fs[i], h, l)
      /\ Now(p) = fs[n]
  BY NowFacts
<1>2. PICK a : a = [Now(p) EXCEPT !.at = "nests"]
  OBVIOUS
<1>3. PICK e : e = [f EXCEPT !.prev = Now(p).prev]
  OBVIOUS
<1>4. frames'[p] = Append(Append(SubSeq(fs, 1, n - 1), a), e)
  BY <1>2, <1>3 DEF Nest, Front, ScopesInv
<1> HIDE DEF fs, h, l
<1>5. /\ GoodFrame(a, Len(h)) /\ a.at = "nests" /\ Seen(a, h, l) /\ a.kind = Now(p).kind
      /\ \A i \in 1 .. n - 1 : Apart(fs[i], a)
  <2>1. Now(p).pos <= Len(Now(p).tasks)
    BY <1>1 DEF GoodFrame
  <2>2. PICK b, at, k : b = Now(p) /\ at = "nests" /\ k = Len(h)
    OBVIOUS
  <2>3. /\ GoodFrame(b, k) /\ b.pos <= Len(b.tasks) /\ b.at = "renders"
        /\ at \in {"fails", "nests"} /\ a = [b EXCEPT !.at = at]
    BY <1>1, <1>2, <2>1, <2>2
  <2>4. GoodFrame(a, k) /\ SeesAs(a, b) /\ a.at = at /\ a.kind = b.kind
    BY <2>3, AtIs
  <2> QED
    BY <1>1, <2>2, <2>4 DEF SeesAs
<1>6. PICK u : u = Append(SubSeq(fs, 1, n - 1), a)
  OBVIOUS
<1>7. GoodStack(u, h, l)
  <2>1. Len(h) <= Len(h)
    BY <1>1
  <2>2. n = 1 => a.kind = "recipe"
    BY <1>1, <1>5, StackFacts
  <2> QED
    BY <1>1, <1>5, <1>6, <2>1, <2>2, StackSet
<1>8. Len(u) = n /\ u[n] = a /\ \A i \in 1 .. n : GoodFrame(u[i], Len(h))
  <2>1. IsList(fs)
    BY <1>1, StackFacts
  <2>2. Len(u) = n /\ u[n] = a
    <3>1. Cut(u, fs, n, a)
      BY <1>1, <1>6, <2>1, CutIs
    <3> QED
      BY <3>1 DEF Cut
  <2> QED
    BY <1>7, <2>2, StackFacts
<1>9. GoodFrame(e, Len(g)) /\ Fresh(e, h)
  <2>1. Alike(e, f)
    BY <1>3, PrevAlike
  <2> QED
    BY <2>1, AlikeGood DEF h
<1>10. Seen(e, g, l) /\ \A i \in 1 .. n : Apart(u[i], e)
  <2>1. Seen(e, g, l)
    BY <1>9 DEF Fresh, Seen
  <2>2. \A i \in 1 .. n : Apart(u[i], e)
    BY <1>8, <1>9, FreshApart
  <2> QED
    BY <2>1, <2>2
<1>11. Len(g) \in Nat /\ Len(h) <= Len(g) /\ GoodHeap(g) /\ \A o \in 1 .. Len(h) : g[o] = h[o]
  BY <1>1 DEF Grown, h
<1>12. GoodStack(Append(u, e), g, l)
  BY <1>1, <1>5, <1>7, <1>8, <1>9, <1>10, <1>11, StackPush
<1> QED
  BY <1>4, <1>6, <1>11, <1>12 DEF l

(* What nothing is added to has grown.                                     *)
LEMMA SameGrown ==
  ASSUME NEW h, GoodHeap(h)
  PROVE  Grown(h, h)
<1>1. Len(h) \in Nat
  BY ListFacts DEF GoodHeap
<1> QED
  BY <1>1 DEF Grown

LEMMA NewFresh ==
  ASSUME NEW kind \in {"try", "loop", "catch", "finally"}, NEW tasks, NEW object, NEW prepare, NEW extra, NEW h
  PROVE  Fresh(Frame(kind, tasks, object, prepare, extra), h)
BY GoodNothing DEF Fresh, Frame

(* The task whose module runs tasks of its own.                            *)
LEMMA ConfiguredFacts ==
  ASSUME ScopesInv, NEW p \in Renderers, NEW kind, Configured(p, kind)
  PROVE  Now(p).at = "renders" /\ TaskAt(Now(p)) \in Tasks /\ Now(p).own \in 1 .. Len(heap[p])
<1>1. Now(p).at = "renders" /\ GoodFrame(Now(p), Len(heap[p]))
  BY NowFacts DEF Configured, Running
<1>2. Now(p).pos <= Len(Now(p).tasks) /\ Now(p).own \in 1 .. Len(heap[p])
  BY <1>1 DEF GoodFrame
<1> QED
  BY <1>1, <1>2, TaskIs

LEMMA RunTryGood ==
  ASSUME ScopesInv, NEW p \in Renderers, RunTry(p)
  PROVE  WellRun(p)'
<1> DEFINE t == TaskAt(Now(p))
           extra == Sole("retry", Plain("retry"))
           f == Frame("try", t.task, Now(p).own, Confs(t.task), extra)
           h == heap[p]
<1>1. Configured(p, "try") /\ Nest(p, f) /\ Idle(p) /\ heap' = heap /\ late' = late
  BY DEF RunTry
<1>2. Now(p).at = "renders" /\ t \in Tasks /\ Now(p).own \in 1 .. Len(h) /\ GoodHeap(h) /\ Len(h) \in Nat
  BY <1>1, ConfiguredFacts, NowFacts
<1>3. t.task \in Seq(Tasks) /\ GoodObject(extra) /\ extra # Nothing
  BY <1>2, TaskFacts, GoodPlain, GoodSole
<1>4. GoodFrame(f, Len(h)) /\ Fresh(f, h)
  BY <1>2, <1>3, NewFrameGood, NewFresh
<1>5. Grown(h, h) /\ heap'[p] = h /\ late'[p] = late[p]
  BY <1>1, <1>2, SameGrown
<1> HIDE DEF f
<1>6. GoodHeap(heap'[p]) /\ GoodStack(frames'[p], heap'[p], late'[p])
  BY <1>1, <1>2, <1>4, <1>5, NestGood
<1> QED
  BY <1>1, <1>6, IdleGood DEF WellRun

LEMMA RunLoopGood ==
  ASSUME ScopesInv, NEW p \in Renderers, RunLoop(p)
  PROVE  WellRun(p)'
<1> DEFINE t == TaskAt(Now(p))
           extra == Sole("loop", Plain("item"))
           f == Frame("loop", t.task, Now(p).own, Confs(t.task), extra)
           h == heap[p]
<1>1. Configured(p, "loop") /\ Nest(p, f) /\ Idle(p) /\ heap' = heap /\ late' = late
  BY DEF RunLoop
<1>2. Now(p).at = "renders" /\ t \in Tasks /\ Now(p).own \in 1 .. Len(h) /\ GoodHeap(h) /\ Len(h) \in Nat
  BY <1>1, ConfiguredFacts, NowFacts
<1>3. t.task \in Seq(Tasks) /\ GoodObject(extra) /\ extra # Nothing
  BY <1>2, TaskFacts, GoodPlain, GoodSole
<1>4. GoodFrame(f, Len(h)) /\ Fresh(f, h)
  BY <1>2, <1>3, NewFrameGood, NewFresh
<1>5. Grown(h, h) /\ heap'[p] = h /\ late'[p] = late[p]
  BY <1>1, <1>2, SameGrown
<1> HIDE DEF f
<1>6. GoodHeap(heap'[p]) /\ GoodStack(frames'[p], heap'[p], late'[p])
  BY <1>1, <1>2, <1>4, <1>5, NestGood
<1> QED
  BY <1>1, <1>6, IdleGood DEF WellRun

LEMMA RunSwitchGood ==
  ASSUME ScopesInv, NEW p \in Renderers, RunSwitch(p)
  PROVE  WellRun(p)'
<1> DEFINE t == TaskAt(Now(p))
           extra == Sole("switchValue", Plain("value"))
           h == heap[p]
           w == WithVars(h, Now(p).own, extra)
           f == Frame("switch", t.task, w.object, Confs(t.task), Nothing)
<1>1. Configured(p, "switch") /\ Nest(p, f) /\ Idle(p) /\ heap' = [heap EXCEPT ![p] = w.heap] /\ late' = late
  BY DEF RunSwitch
<1>2. /\ Now(p).at = "renders" /\ t \in Tasks /\ Now(p).own \in 1 .. Len(h) /\ GoodHeap(h)
      /\ Len(h) \in Nat /\ DOMAIN h = 1 .. Len(h)
  BY <1>1, ConfiguredFacts, NowFacts
<1>3. t.task \in Seq(Tasks) /\ GoodObject(extra) /\ extra # Nothing
  BY <1>2, TaskFacts, GoodPlain, GoodSole
<1> HIDE DEF t, extra
<1>4. w = WithVars(h, Now(p).own, extra)
  OBVIOUS
<1> HIDE DEF h, w
<1>5. Grown(w.heap, h) /\ w.object \in 1 .. Len(w.heap)
  BY <1>2, <1>3, <1>4, WithVarsIs
<1>6. w.object = Len(h) + 1
  <2>1. GoodHeap(h) /\ Now(p).own \in DOMAIN h /\ GoodObject(extra)
    BY <1>2, <1>3
  <2>2. extra # Nothing => w.object = Len(h) + 1
    BY <1>4, <2>1, WithVarsIs
  <2> QED
    BY <1>3, <2>2
<1>7. GoodFrame(f, Len(w.heap))
  <2>1. Len(w.heap) \in Nat
    BY <1>5 DEF Grown
  <2> QED
    BY <1>3, <1>5, <2>1, GoodNothing, NewFrameGood
<1>8. Fresh(f, h)
  <2>1. DOMAIN f.acc = {} /\ f.vars = w.object
    BY GoodNothing DEF Frame
  <2> QED
    BY <1>2, <1>6, <2>1 DEF Fresh
<1>9. heap'[p] = w.heap /\ late'[p] = late[p]
  BY <1>1 DEF ScopesInv
<1> HIDE DEF f
<1>10. GoodHeap(heap'[p]) /\ GoodStack(frames'[p], heap'[p], late'[p])
  BY <1>1, <1>2, <1>5, <1>7, <1>8, <1>9, NestGood DEF h
<1> QED
  BY <1>1, <1>10, IdleGood DEF WellRun

LEMMA RunRecipeGood ==
  ASSUME ScopesInv, NEW p \in Renderers, RunRecipe(p)
  PROVE  WellRun(p)'
<1> DEFINE h == heap[p]
           r == RecipeFrame(TaskAt(Now(p)).recipe, h, Now(p).own)
<1>1. Configured(p, "recipe") /\ Nest(p, r.frame) /\ Idle(p) /\ heap' = [heap EXCEPT ![p] = r.heap] /\ late' = late
  BY DEF RunRecipe
<1>2. /\ Now(p).at = "renders" /\ TaskAt(Now(p)) \in Tasks /\ Now(p).own \in 1 .. Len(h) /\ GoodHeap(h)
      /\ Len(h) \in Nat /\ DOMAIN h = 1 .. Len(h)
  BY <1>1, ConfiguredFacts, NowFacts
<1>3. TaskAt(Now(p)).recipe \in Programs \cup {t.recipe : t \in Tasks}
  BY <1>2
<1>4. /\ GoodHeap(r.heap) /\ Len(r.heap) = Len(h) + 1 /\ \A o \in DOMAIN h : r.heap[o] = h[o]
      /\ GoodFrame(r.frame, Len(h) + 1) /\ r.frame.vars = Len(h) + 1 /\ DOMAIN r.frame.acc = {}
  <2> HIDE DEF h
  <2> QED
    BY <1>2, <1>3, RecipeFrameGood
<1>5. heap'[p] = r.heap /\ late'[p] = late[p]
  BY <1>1 DEF ScopesInv
<1> HIDE DEF h, r
<1>6. Grown(r.heap, h)
  BY <1>2, <1>4 DEF Grown
<1>7. Fresh(r.frame, h) /\ GoodFrame(r.frame, Len(r.heap))
  BY <1>2, <1>4 DEF Fresh
<1>8. GoodHeap(heap'[p]) /\ GoodStack(frames'[p], heap'[p], late'[p])
  BY <1>1, <1>2, <1>5, <1>6, <1>7, NestGood DEF h
<1> QED
  BY <1>1, <1>8, IdleGood DEF WellRun

(* The list around the innermost one, and the task it is in.               *)
LEMMA OuterFacts ==
  ASSUME ScopesInv, NEW p \in Renderers, Len(frames[p]) > 1
  PROVE  /\ Len(frames[p]) - 1 \in 1 .. Len(frames[p]) - 1
         /\ GoodFrame(Outer(p), Len(heap[p])) /\ Seen(Outer(p), heap[p], late[p]) /\ Outer(p).at = "nests"
         /\ TaskAt(Outer(p)) \in Tasks /\ Outer(p).own \in 1 .. Len(heap[p])
<1> DEFINE d == Len(frames[p]) - 1
<1>1. d \in 1 .. Len(frames[p]) - 1
  BY NowFacts
<1>2. GoodFrame(Outer(p), Len(heap[p])) /\ Seen(Outer(p), heap[p], late[p]) /\ Outer(p).at = "nests"
  BY <1>1, NowFacts DEF Outer
<1>3. Outer(p).pos <= Len(Outer(p).tasks) /\ Outer(p).own \in 1 .. Len(heap[p])
  BY <1>2 DEF GoodFrame
<1> QED
  BY <1>1, <1>2, <1>3, TaskIs

LEMMA Nested ==
  ASSUME ScopesInv, NEW p \in Renderers, Now(p).kind # "recipe"
  PROVE  Len(frames[p]) > 1
<1>1. Len(frames[p]) \in Nat /\ Len(frames[p]) \in 1 .. Len(frames[p]) /\ Now(p) = frames[p][Len(frames[p])]
      /\ frames[p][1].kind = "recipe"
  BY NowFacts, StackFacts
<1>2. Len(frames[p]) # 1
  BY <1>1
<1> QED
  BY <1>1, <1>2

(* A list of the task around, new or again.                                *)
LEMMA FollowNew ==
  ASSUME ScopesInv, NEW p \in Renderers, Len(frames[p]) > 1,
         NEW kind \in {"try", "catch", "finally"}, NEW tasks \in Seq(Tasks), NEW extra, GoodObject(extra),
         kind \in {"try", "catch"} => extra # Nothing, NEW f,
         f = Frame(kind, tasks, Outer(p).own, Confs(tasks), extra), NEW e, Alike(e, f),
         Follow(p, e), heap' = heap, late' = late
  PROVE  GoodHeap(heap'[p]) /\ GoodStack(frames'[p], heap'[p], late'[p])
<1>1. Outer(p).own \in 1 .. Len(heap[p]) /\ Len(heap[p]) \in Nat /\ GoodHeap(heap[p])
  BY OuterFacts, NowFacts
<1>2. GoodFrame(f, Len(heap[p])) /\ Fresh(f, heap[p])
  BY <1>1, NewFrameGood, NewFresh
<1>3. GoodFrame(e, Len(heap[p])) /\ Fresh(e, heap[p])
  BY <1>2, AlikeGood
<1>4. Grown(heap[p], heap[p]) /\ heap'[p] = heap[p] /\ late'[p] = late[p]
  BY <1>1, SameGrown
<1> QED
  BY <1>3, <1>4, FollowGood

LEMMA AlikeSelf ==
  ASSUME NEW f
  PROVE  Alike(f, f)
BY DEF Alike

LEMMA LoopOnGood ==
  ASSUME ScopesInv, NEW p \in Renderers, LoopOn(p)
  PROVE  WellRun(p)'
<1> DEFINE f == Now(p)
           h == heap[p]
           w == WithVars(h, Outer(p).own, f.extra)
           e == [f EXCEPT !.vars = w.object, !.pos = 1, !.acc = Nothing, !.tries = @ + 1]
<1>1. /\ GoodFrame(f, Len(h)) /\ GoodHeap(h) /\ Len(h) \in Nat /\ DOMAIN h = 1 .. Len(h) /\ GoodRenders(render[p])
  BY NowFacts
<1>2. /\ f.at = "ready" /\ f.kind = "loop" /\ Follow(p, e)
      /\ heap' = [heap EXCEPT ![p] = w.heap] /\ late' = late /\ render' = render
  BY DEF LoopOn, Ended, Running
<1>3. Len(frames[p]) > 1
  BY <1>2, Nested
<1>4. Outer(p).own \in DOMAIN h /\ GoodObject(f.extra) /\ f.extra # Nothing
  BY <1>1, <1>2, <1>3, OuterFacts DEF GoodFrame
<1> HIDE DEF f
<1>5. w = WithVars(h, Outer(p).own, f.extra)
  OBVIOUS
<1> HIDE DEF h, w
<1>6. Grown(w.heap, h) /\ w.object \in 1 .. Len(w.heap)
  <2>1. GoodHeap(h) /\ Outer(p).own \in DOMAIN h /\ GoodObject(f.extra)
    BY <1>1, <1>4
  <2> QED
    BY <1>5, <2>1, WithVarsIs
<1>7. w.object = Len(h) + 1
  <2>1. GoodHeap(h) /\ Outer(p).own \in DOMAIN h /\ GoodObject(f.extra)
    BY <1>1, <1>4
  <2>2. f.extra # Nothing => w.object = Len(h) + 1
    BY <1>5, <2>1, WithVarsIs
  <2> QED
    BY <1>4, <2>2
<1>8. /\ DOMAIN e = DOMAIN f /\ e.done = f.done
      /\ e.kind = f.kind /\ e.tasks = f.tasks /\ e.pos = 1 /\ e.vars = w.object /\ e.extra = f.extra
      /\ e.prepare = f.prepare /\ e.at = f.at /\ e.acc = Nothing /\ e.own = f.own
  BY <1>1 DEF GoodFrame
<1> HIDE DEF e
<1>9. GoodFrame(e, Len(w.heap))
  <2>1. GoodFrame(f, Len(w.heap))
    <3>1. Len(w.heap) \in Nat /\ Len(h) <= Len(w.heap)
      BY <1>1, <1>6 DEF Grown
    <3> QED
      BY <1>1, <3>1, FrameGrows
  <2>2. GoodObject(e.acc) /\ e.pos \in Nat \ {0}
    BY <1>8, GoodNothing
  <2> QED
    BY <1>2, <1>6, <1>8, <2>1, <2>2 DEF GoodFrame
<1>10. Fresh(e, h)
  BY <1>1, <1>7, <1>8, GoodNothing DEF Fresh
<1>11. heap'[p] = w.heap /\ late'[p] = late[p]
  BY <1>2 DEF ScopesInv
<1>12. GoodHeap(heap'[p]) /\ GoodStack(frames'[p], heap'[p], late'[p])
  BY <1>2, <1>3, <1>6, <1>9, <1>10, <1>11, FollowGood DEF h
<1> QED
  BY <1>1, <1>2, <1>12 DEF WellRun

LEMMA GoToFinallyGood ==
  ASSUME ScopesInv, NEW p \in Renderers, GoToFinally(p)
  PROVE  WellRun(p)'
<1>1. /\ Follow(p, Finally(p, Nothing)) /\ heap' = heap /\ late' = late /\ render' = render
      /\ Now(p).kind \in {"try", "catch"}
  BY DEF GoToFinally
<1>2. Len(frames[p]) > 1
  BY <1>1, Nested
<1>3. TaskAt(Outer(p)).finally \in Seq(Tasks)
  BY <1>2, OuterFacts, TaskFacts
<1>4. PICK f : f = Finally(p, Nothing)
  OBVIOUS
<1>5. f = Frame("finally", TaskAt(Outer(p)).finally, Outer(p).own, Confs(TaskAt(Outer(p)).finally), Nothing)
  BY <1>4 DEF Finally
<1>6. GoodHeap(heap'[p]) /\ GoodStack(frames'[p], heap'[p], late'[p])
  BY <1>1, <1>2, <1>3, <1>4, <1>5, AlikeSelf, GoodNothing, FollowNew
<1>7. GoodRenders(render[p])
  BY NowFacts
<1> QED
  BY <1>1, <1>6, <1>7 DEF WellRun

(* The error of a list, in the list around it.                             *)
LEMMA FailOuterGood ==
  ASSUME ScopesInv, NEW p \in Renderers, Len(frames[p]) > 1, FailOuter(p), heap' = heap, late' = late
  PROVE  GoodHeap(heap'[p]) /\ GoodStack(frames'[p], heap'[p], late'[p])
<1> DEFINE fs == frames[p]
           h == heap[p]
           d == Len(fs) - 1
<1>1. PICK e : e = [Outer(p) EXCEPT !.at = "fails"]
  OBVIOUS
<1>2. /\ d \in 1 .. Len(fs) - 1 /\ GoodFrame(Outer(p), Len(h)) /\ Seen(Outer(p), h, late[p])
      /\ GoodStack(fs, h, late[p]) /\ Len(h) \in Nat /\ GoodHeap(h) /\ Outer(p) = fs[d]
  BY OuterFacts, NowFacts DEF Outer
<1>3. frames'[p] = Append(SubSeq(fs, 1, d - 1), e)
  <2>1. frames'[p] = Append(SubSeq(fs, 1, Len(fs) - 2), e)
    BY <1>1 DEF FailOuter, ScopesInv
  <2>2. d - 1 = Len(fs) - 2
    BY NowFacts
  <2> QED
    BY <2>1, <2>2
<1> HIDE DEF fs, h
<1>4. /\ Len(fs) \in Nat /\ fs[1].kind = "recipe"
      /\ \A i \in 1 .. Len(fs) : GoodFrame(fs[i], Len(h)) /\ Seen(fs[i], h, late[p])
      /\ \A i, j \in 1 .. Len(fs) : i < j => Apart(fs[i], fs[j])
  BY <1>2, StackFacts
<1>5. GoodFrame(e, Len(h)) /\ SeesAs(e, Outer(p)) /\ e.kind = Outer(p).kind
  BY <1>1, <1>2, AtIs
<1>6. \A i \in 1 .. d - 1 : i \in 1 .. Len(fs) /\ d \in 1 .. Len(fs) /\ i < d
  BY <1>2, <1>4
<1>7. \A i \in 1 .. d - 1 : Apart(fs[i], e) /\ Seen(fs[i], h, late[p])
  BY <1>2, <1>4, <1>5, <1>6 DEF SeesAs
<1>8. Seen(e, h, late[p]) /\ (d = 1 => e.kind = "recipe") /\ d \in 1 .. Len(fs) /\ Len(h) <= Len(h)
  BY <1>2, <1>4, <1>5 DEF SeesAs
<1>9. GoodStack(Append(SubSeq(fs, 1, d - 1), e), h, late[p])
  BY <1>2, <1>5, <1>7, <1>8, StackSet
<1> QED
  BY <1>2, <1>3, <1>9 DEF h

(* The result of a list, in the list around it.                            *)
LEMMA StoreOuterGood ==
  ASSUME ScopesInv, NEW p \in Renderers, Len(frames[p]) > 1, NEW result, GoodObject(result),
         Store(p, Len(frames[p]) - 1, Plain("object"), result)
  PROVE  GoodHeap(heap'[p]) /\ GoodStack(frames'[p], heap'[p], late'[p])
<1> DEFINE d == Len(frames[p]) - 1
<1>1. d \in 1 .. Len(frames[p]) /\ frames[p][d].at \in {"renders", "nests"}
  BY OuterFacts, NowFacts DEF Outer
<1>2. GoodCell(Plain("object"))
  BY GoodPlain
<1> HIDE DEF d
<1>3. Store(p, d, Plain("object"), result)
  BY DEF d
<1> QED
  BY <1>1, <1>2, <1>3, StoreGood

LEMMA LoopOverNothingGood ==
  ASSUME ScopesInv, NEW p \in Renderers, LoopOverNothing(p)
  PROVE  WellRun(p)'
<1>1. Now(p).kind # "recipe" /\ render' = render /\ Store(p, Len(frames[p]) - 1, Plain("object"), Nothing)
  BY DEF LoopOverNothing, OverNothing
<1>2. GoodHeap(heap'[p]) /\ GoodStack(frames'[p], heap'[p], late'[p])
  BY <1>1, Nested, GoodNothing, StoreOuterGood
<1> QED
  BY <1>1, <1>2, NowFacts DEF WellRun

LEMMA LeaveGood ==
  ASSUME ScopesInv, NEW p \in Renderers, Leave(p)
  PROVE  WellRun(p)'
<1>1. Len(frames[p]) > 1 /\ render' = render
  BY DEF Leave
<1>2. GoodRenders(render[p]) /\ GoodFrame(Now(p), Len(heap[p]))
  BY NowFacts
<1>3. CASE FailOuter(p) /\ UNCHANGED <<heap, late>>
  BY <1>1, <1>2, <1>3, FailOuterGood DEF WellRun
<1>4. CASE Store(p, Len(frames[p]) - 1, Plain("object"),
                 IF Now(p).kind \in {"switch", "recipe"} THEN Now(p).acc ELSE Nothing)
  <2> DEFINE result == IF Now(p).kind \in {"switch", "recipe"} THEN Now(p).acc ELSE Nothing
  <2>1. GoodObject(result)
    BY <1>2, GoodNothing DEF GoodFrame
  <2> HIDE DEF result
  <2>2. Store(p, Len(frames[p]) - 1, Plain("object"), result)
    BY <1>4 DEF result
  <2> QED
    BY <1>1, <1>2, <2>1, <2>2, StoreOuterGood DEF WellRun
<1> QED
  BY <1>3, <1>4 DEF Leave

LEMMA UnwindGood ==
  ASSUME ScopesInv, NEW p \in Renderers, Unwind(p)
  PROVE  WellRun(p)'
<1> DEFINE f == Now(p)
           t == TaskAt(Outer(p))
           own == Outer(p).own
<1>1. Len(frames[p]) > 1 /\ render' = render /\ heap' = heap /\ late' = late
  BY DEF Unwind
<1>2. GoodRenders(render[p]) /\ GoodFrame(f, Len(heap[p]))
  BY NowFacts
<1>3. t.task \in Seq(Tasks) /\ t.catch \in Seq(Tasks) /\ t.finally \in Seq(Tasks)
  BY <1>1, OuterFacts, TaskFacts
<1>4. GoodObject(Error) /\ Error # Nothing
  BY GoodPlain, GoodSole DEF Error
<1>5. SUFFICES GoodHeap(heap'[p]) /\ GoodStack(frames'[p], heap'[p], late'[p])
  BY <1>1, <1>2 DEF WellRun
<1>6. CASE /\ Retries(f, t)
           /\ Follow(p, [Frame("try", t.task, own, Confs(t.task), f.extra) EXCEPT !.tries = f.tries + 1])
  <2>1. GoodObject(f.extra) /\ f.extra # Nothing
    BY <1>2, <1>6 DEF GoodFrame, Retries
  <2>2. PICK g : g = Frame("try", t.task, own, Confs(t.task), f.extra)
    OBVIOUS
  <2>3. PICK e : e = [g EXCEPT !.tries = f.tries + 1]
    OBVIOUS
  <2>4. Alike(e, g)
    BY <2>2, <2>3 DEF Alike, Frame
  <2>5. Follow(p, e)
    BY <1>6, <2>2, <2>3
  <2> QED
    BY <1>1, <1>3, <2>1, <2>2, <2>4, <2>5, FollowNew
<1>7. CASE Follow(p, Frame("catch", t.catch, own, Confs(t.catch), Error))
  <2>1. PICK g : g = Frame("catch", t.catch, own, Confs(t.catch), Error)
    OBVIOUS
  <2> QED
    BY <1>1, <1>3, <1>4, <1>7, <2>1, AlikeSelf, FollowNew
<1>8. CASE Follow(p, Finally(p, Error))
  <2>1. PICK g : g = Frame("finally", t.finally, own, Confs(t.finally), Error)
    OBVIOUS
  <2>2. Follow(p, g)
    BY <1>8, <2>1 DEF Finally
  <2> QED
    BY <1>1, <1>3, <1>4, <2>1, <2>2, AlikeSelf, FollowNew
<1>9. CASE FailOuter(p)
  BY <1>1, <1>9, FailOuterGood
<1> QED
  BY <1>6, <1>7, <1>8, <1>9 DEF Unwind

LEMMA RenderGood ==
  ASSUME ScopesInv, NEW p \in Renderers, RenderStep(p), UNCHANGED <<heap, frames, late>>
  PROVE  WellRun(p)' /\ \A q \in Renderers : q # p => render'[q] = render[q]
<1>1. GoodRenders(render[p]) /\ GoodHeap(heap[p]) /\ GoodStack(frames[p], heap[p], late[p])
  BY NowFacts
<1>2. PICK rs : render' = [render EXCEPT ![p] = rs] /\ GoodRenders(rs)
  BY <1>1, RenderStepGood
<1>3. render'[p] = rs /\ \A q \in Renderers : q # p => render'[q] = render[q]
  BY <1>2 DEF ScopesInv
<1> QED
  BY <1>1, <1>2, <1>3 DEF WellRun

LEMMA InitGood ==
  ASSUME ScopesInit
  PROVE  ScopesInv
<1>1. /\ render = [p \in Renderers |-> <<>>] /\ program \in [Renderers -> Programs] /\ late = [p \in Renderers |-> {}]
      /\ heap = [p \in Renderers |-> RecipeFrame(program[p], <<Nothing>>, 1).heap]
      /\ frames = [p \in Renderers |-> <<RecipeFrame(program[p], <<Nothing>>, 1).frame>>]
  BY DEF ScopesInit
<1>2. ASSUME NEW p \in Renderers PROVE WellRun(p)
  <2>1. PICK h : h = <<Nothing>>
    OBVIOUS
  <2>2. GoodHeap(h) /\ 1 \in DOMAIN h
    <3>1. h \in Seq({Nothing}) /\ DOMAIN h = {1} /\ h[1] = Nothing
      BY <2>1
    <3>2. IsList(h)
      BY <3>1, ListIn
    <3> QED
      BY <3>1, <3>2, GoodNothing DEF GoodHeap
  <2>3. PICK r : r = RecipeFrame(program[p], h, 1)
    OBVIOUS
  <2>4. program[p] \in Programs \cup {t.recipe : t \in Tasks}
    BY <1>1
  <2>5. GoodHeap(r.heap) /\ Len(r.heap) = Len(h) + 1
        /\ GoodFrame(r.frame, Len(h) + 1) /\ DOMAIN r.frame.acc = {}
    BY <2>2, <2>3, <2>4, RecipeFrameGood
  <2>6. r.frame.kind = "recipe"
    BY <2>3 DEF RecipeFrame, Frame
  <2>7. render[p] = <<>> /\ late[p] = {} /\ heap[p] = r.heap /\ frames[p] = <<r.frame>>
    BY <1>1, <2>1, <2>3
  <2>8. GoodStack(<<r.frame>>, r.heap, {})
    <3>1. PICK fs : fs = <<r.frame>>
      OBVIOUS
    <3>2. fs \in Seq({r.frame}) /\ DOMAIN fs = {1} /\ Len(fs) = 1 /\ fs[1] = r.frame /\ fs # <<>>
      BY <3>1
    <3>3. IsList(fs)
      BY <3>2, ListIn
    <3>4. Seen(r.frame, r.heap, {})
      BY <2>5 DEF Seen
    <3>5. \A i \in 1 .. Len(fs) - 1 : fs[i].at = "nests"
      BY <3>2
    <3>6. \A i, j \in DOMAIN fs : i < j => Apart(fs[i], fs[j])
      BY <3>2
    <3> QED
      BY <2>5, <2>6, <3>1, <3>2, <3>3, <3>4, <3>5, <3>6 DEF GoodStack
  <2> QED
    BY <2>5, <2>7, <2>8, NoRenders DEF WellRun
<1> QED
  BY <1>1, <1>2 DEF ScopesInv

(* A renderer leaves the others as they are.                               *)
OnlyOf(g, f, p) == DOMAIN g = DOMAIN f /\ \A q \in DOMAIN f \ {p} : g[q] = f[q]
Elsewhere(p) ==
  /\ program' = program
  /\ OnlyOf(render', render, p) /\ OnlyOf(heap', heap, p) /\ OnlyOf(frames', frames, p) /\ OnlyOf(late', late, p)

LEMMA OnlyOfIs ==
  ASSUME NEW f, NEW p, NEW x
  PROVE  OnlyOf(f, f, p) /\ OnlyOf([f EXCEPT ![p] = x], f, p)
BY DEF OnlyOf

LEMMA StoresHere ==
  ASSUME NEW p, NEW depth, NEW out, NEW result, Store(p, depth, out, result)
  PROVE  OnlyOf(heap', heap, p) /\ OnlyOf(frames', frames, p) /\ OnlyOf(late', late, p)
BY OnlyOfIs DEF Store

LEMMA RendersHere ==
  ASSUME ScopesInv, NEW p \in Renderers, RenderStep(p)
  PROVE  OnlyOf(render', render, p)
<1>1. GoodRenders(render[p])
  BY NowFacts
<1>2. PICK rs : render' = [render EXCEPT ![p] = rs]
  BY <1>1, RenderStepGood
<1> QED
  BY <1>2, OnlyOfIs

LEMMA StepsHere ==
  ASSUME ScopesInv, NEW p \in Renderers, RunStep(p) \/ RenderFails(p)
  PROVE  Elsewhere(p)
<1>1. CASE Prepare(p)
  BY <1>1, OnlyOfIs DEF Prepare, Elsewhere
<1>2. CASE Prepared(p)
  BY <1>2, OnlyOfIs DEF Prepared, Elsewhere, Set, Idle
<1>3. CASE BeginList(p)
  BY <1>3, OnlyOfIs DEF BeginList, Elsewhere, Set
<1>4. CASE BeginRecipe(p)
  BY <1>4, OnlyOfIs DEF BeginRecipe, Elsewhere, Set
<1>5. CASE StartTask(p)
  BY <1>5, OnlyOfIs DEF StartTask, Elsewhere, Set
<1>6. CASE RunModule(p)
  BY <1>6, OnlyOfIs, StoresHere DEF RunModule, Elsewhere, Set, Idle
<1>7. CASE RunTry(p)
  BY <1>7, OnlyOfIs DEF RunTry, Elsewhere, Nest, Idle
<1>8. CASE RunLoop(p)
  BY <1>8, OnlyOfIs DEF RunLoop, Elsewhere, Nest, Idle
<1>9. CASE RunSwitch(p)
  BY <1>9, OnlyOfIs DEF RunSwitch, Elsewhere, Nest, Idle
<1>10. CASE RunRecipe(p)
  BY <1>10, OnlyOfIs DEF RunRecipe, Elsewhere, Nest, Idle
<1>11. CASE LoopOn(p)
  BY <1>11, OnlyOfIs DEF LoopOn, Elsewhere, Follow, Set
<1>12. CASE GoToFinally(p)
  BY <1>12, OnlyOfIs DEF GoToFinally, Elsewhere, Follow, Set
<1>13. CASE Leave(p)
  BY <1>13, OnlyOfIs, StoresHere DEF Leave, Elsewhere, FailOuter
<1>14. CASE Unwind(p)
  BY <1>14, OnlyOfIs DEF Unwind, Elsewhere, Follow, Set, FailOuter
<1>15. CASE RenderStep(p) /\ UNCHANGED <<program, heap, frames, late>>
  BY <1>15, OnlyOfIs, RendersHere DEF Elsewhere
<1>16. CASE RenderFails(p)
  BY <1>16, OnlyOfIs DEF RenderFails, FilterFails, Elsewhere, Set
<1>17. CASE LoopOverNothing(p)
  BY <1>17, OnlyOfIs, StoresHere DEF LoopOverNothing, Elsewhere
<1> QED
  BY <1>1, <1>2, <1>3, <1>4, <1>5, <1>6, <1>7, <1>8, <1>9, <1>10, <1>11, <1>12, <1>13, <1>14, <1>15, <1>16, <1>17
  DEF RunStep

LEMMA StepGood ==
  ASSUME ScopesInv, NEW p \in Renderers, RunStep(p) \/ RenderFails(p)
  PROVE  WellRun(p)'
<1>1. CASE RenderStep(p) /\ UNCHANGED <<program, heap, frames, late>>
  BY <1>1, RenderGood
<1> QED
  BY <1>1, PrepareGood, PreparedGood, BeginListGood, BeginRecipeGood, StartTaskGood, RunModuleGood, RunTryGood,
     RunLoopGood, RunSwitchGood, RunRecipeGood, LoopOnGood, LoopOverNothingGood, GoToFinallyGood, LeaveGood, UnwindGood, RenderFailsGood
  DEF RunStep

(* After the death of the process nothing runs, and the objects are as they*)
(* were.                                                                   *)
DiedInv == \A p \in Renderers : frames[p] = <<>> /\ render[p] = <<>> /\ GoodHeap(heap[p])

LEMMA DeathGood ==
  ASSUME ScopesInv, NEW p \in Renderers, OutOfMemory(p)
  PROVE  DiedInv'
<1>1. \A q \in Renderers : frames'[q] = <<>> /\ render'[q] = <<>> /\ heap' = heap
  BY DEF OutOfMemory
<1> QED
  BY <1>1 DEF DiedInv, ScopesInv, WellRun

LEMMA DeadStays ==
  ASSUME DiedInv, [ScopesNext]_scopes
  PROVE  DiedInv'
<1>1. ASSUME NEW p \in Renderers PROVE ~Step(p)
  <2>1. \A at : ~Running(p, at) /\ ~At(p, at)
    BY DEF DiedInv, Running, At
  <2>2. ~Rendered(p) /\ ~Ready(p) /\ ~Ended(p) /\ ~RenderStep(p) /\ ~HeapIsFull(p) /\ \A kind : ~Configured(p, kind)
    BY <2>1 DEF Rendered, Resolved, Ready, Ended, RenderStep, BeginRender, Filtered, EndRender, ResolveMark, Nests,
                Return, HeapIsFull, Configured
  <2> QED
    BY <2>1, <2>2 DEF Step, RunStep, Prepare, Prepared, BeginList, BeginRecipe, StartTask, RunModule, RunTry, RunLoop,
                      RunSwitch, RunRecipe, LoopOn, LoopOverNothing, GoToFinally, Leave, Unwind, RenderFails,
                      FilterFails, OutOfMemory
<1>2. UNCHANGED scopes
  BY <1>1 DEF ScopesNext
<1> QED
  BY <1>2 DEF scopes, DiedInv

LEMMA ScopesStep ==
  ASSUME ScopesInv, [ScopesNext]_scopes
  PROVE  ScopesInv' \/ DiedInv'
<1>1. CASE UNCHANGED scopes
  BY <1>1 DEF scopes, ScopesInv, WellRun
<1>2. ASSUME NEW p \in Renderers, RunStep(p) \/ RenderFails(p) PROVE ScopesInv'
  <2>1. WellRun(p)' /\ Elsewhere(p)
    BY <1>2, StepGood, StepsHere
  <2>2. /\ program' = program /\ program \in [Renderers -> Programs]
        /\ DOMAIN render' = Renderers /\ DOMAIN heap' = Renderers
        /\ DOMAIN frames' = Renderers /\ DOMAIN late' = Renderers
    BY <2>1 DEF Elsewhere, OnlyOf, ScopesInv
  <2>3. ASSUME NEW q \in Renderers PROVE WellRun(q)'
    <3>1. CASE q = p
      BY <2>1, <3>1
    <3>2. CASE q # p
      <4>1. render'[q] = render[q] /\ heap'[q] = heap[q] /\ frames'[q] = frames[q] /\ late'[q] = late[q]
        BY <2>1, <3>2 DEF Elsewhere, OnlyOf, ScopesInv
      <4> QED
        BY <4>1 DEF ScopesInv, WellRun
    <3> QED
      BY <3>1, <3>2
  <2> QED
    BY <2>2, <2>3 DEF ScopesInv
<1> QED
  BY <1>1, <1>2, DeathGood DEF ScopesNext, Step

(* Whatever recipes run, and however their steps interleave: the rendered  *)
(* variables, the templates left and the objects of nested lists of tasks  *)
(* stay as WellRun says, until the process dies of templates without end   *)
(* (util/tpl/tpl.ts, util/runContext.ts).                                  *)
THEOREM ScopesInvariant == ScopesSpec => [](ScopesInv \/ DiedInv)
<1>1. ScopesInit => ScopesInv
  BY InitGood
<1>2. (ScopesInv \/ DiedInv) /\ [ScopesNext]_scopes => (ScopesInv \/ DiedInv)'
  BY ScopesStep, DeadStays
<1> QED
  BY <1>1, <1>2, PTL DEF ScopesSpec

(* For any recipes, any renderers and any interleaving: no source of a     *)
(* template shows in what was rendered, but where a variable comes after a *)
(* filter that waits (Template.render, Template.toString).                 *)
THEOREM NestedAreResolved == ScopesSpec => []NestedResolved
<1>1. ScopesInv \/ DiedInv => NestedResolved
  <2> SUFFICES ASSUME ScopesInv \/ DiedInv, NEW p \in Renderers, NEW token \in Shown(p), "source" \in DOMAIN token
               PROVE  ~Tame(token.by)
    BY DEF NestedResolved
  <2>1. GoodHeap(heap[p])
    BY NowFacts DEF DiedInv
  <2>2. PICK object \in ToSet(heap[p]) :
               \E cell \in {c \in Range(object) : ~IsTemplate(c)} : token \in ToSet(cell.tokens)
    BY DEF Shown
  <2>3. PICK cell \in {c \in Range(object) : ~IsTemplate(c)} : token \in ToSet(cell.tokens)
    BY <2>2
  <2>4. GoodObject(object)
    BY <2>1, <2>2 DEF GoodHeap, ToSet
  <2>5. GoodTokens(cell.tokens)
    BY <2>3, <2>4 DEF GoodObject, GoodCell, Range
  <2>6. GoodToken(token)
    BY <2>3, <2>5 DEF GoodTokens, ToSet
  <2> QED
    BY <2>6 DEF GoodToken
<1> QED
  BY <1>1, ScopesInvariant, PTL

(* For any recipes, and whatever try, loop, switch and recipe run in them: *)
(* what a list of tasks returns is what its tasks have seen in its         *)
(* variables, the previous result and what finally lists put there late    *)
(* aside (runTasksInContext, RunContext.withVars).                         *)
THEOREM ReturnsSeen == ScopesSpec => []ReturnsWhatWasSeen
<1>1. ScopesInv \/ DiedInv => ReturnsWhatWasSeen
  <2> SUFFICES ASSUME ScopesInv \/ DiedInv, NEW p \in Renderers, NEW i \in DOMAIN frames[p]
               PROVE  Seen(frames[p][i], heap[p], late[p])
    BY DEF ReturnsWhatWasSeen, Seen, List
  <2> QED
    BY DEF ScopesInv, WellRun, GoodStack, DiedInv
<1> QED
  BY <1>1, ScopesInvariant, PTL
=============================================================================
