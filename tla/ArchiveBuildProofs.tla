-------------------------- MODULE ArchiveBuildProofs --------------------------
(***************************************************************************)
(* Proofs about ArchiveBuild, for any projects, directories and sources.   *)
(*                                                                         *)
(* The lists of sources are made by recursion over lists.  Facts about     *)
(* such definitions are proved by induction over a set of numbers          *)
(* (SetInduction), from the well-foundedness of <.                         *)
(***************************************************************************)
EXTENDS ArchiveBuild, FiniteSetTheorems, WellFoundedInduction, SequenceTheorems, TLAPS

-----------------------------------------------------------------------------
(* Induction.                                                              *)

(* A set of numbers that is not empty has a least element.                 *)
LEMMA LeastNumber ==
  ASSUME NEW T, T \subseteq Nat, T # {}
  PROVE  \E n \in T : \A m \in T : n <= m
<1>1. IsWellFoundedOn({p \in Nat \X Nat : p[1] < p[2]}, Nat)
  BY NatLessThanWellFounded DEF OpToRel
<1>2. PICK n \in T : \A m \in T : ~ (<<m, n>> \in {p \in Nat \X Nat : p[1] < p[2]})
  BY <1>1, WFMin
<1>3. ASSUME NEW m \in T PROVE n <= m
  <2>1. m \in Nat /\ n \in Nat
    OBVIOUS
  <2>2. <<m, n>> \in Nat \X Nat /\ <<m, n>>[1] = m /\ <<m, n>>[2] = n
    BY <2>1
  <2>3. ~ (m < n)
    <3> SUFFICES ASSUME m < n PROVE <<m, n>> \in {p \in Nat \X Nat : p[1] < p[2]}
      BY <1>2
    <3> QED
      BY <2>2
  <2> QED
    BY <2>1, <2>3
<1> QED
  BY <1>3

(* Induction over numbers, for a property that is given as a set.          *)
LEMMA SetInduction ==
  ASSUME NEW S, 0 \in S, \A n \in Nat : n \in S => n + 1 \in S
  PROVE  Nat \subseteq S
<1> SUFFICES ASSUME Nat \ S # {} PROVE FALSE
  OBVIOUS
<1>1. PICK n \in Nat \ S : \A m \in Nat \ S : n <= m
  BY LeastNumber
<1>2. n - 1 \in Nat /\ n - 1 \in S
  BY <1>1
<1>3. (n - 1) + 1 \in S
  BY <1>2
<1> QED
  BY <1>3

(* What Min chooses.                                                       *)
LEMMA MinFacts ==
  ASSUME NEW T, T \subseteq Nat, T # {}
  PROVE  Min(T) \in T /\ \A m \in T : Min(T) <= m
BY LeastNumber DEF Min

-----------------------------------------------------------------------------
(* Lists of sources.                                                       *)

(* Filtered is well defined.                                               *)
LEMMA FilteredDef ==
  ASSUME NEW list, NEW set, Len(list) \in Nat
  PROVE  Filtered(list, set) =
           [n \in 0 .. Len(list) |->
              IF n = 0 THEN <<>>
              ELSE IF list[n] \in set THEN Append(Filtered(list, set)[n - 1], list[n])
                                      ELSE Filtered(list, set)[n - 1]]
<1> DEFINE
  Solves(f, k) == f = [n \in 0 .. k |->
                         IF n = 0 THEN <<>>
                         ELSE IF list[n] \in set THEN Append(f[n - 1], list[n]) ELSE f[n - 1]]
  S == {k \in Nat : \E f : Solves(f, k)}
<1>1. 0 \in S
  <2>1. PICK f : f = [n \in 0 .. 0 |-> <<>>]
    OBVIOUS
  <2>2. Solves(f, 0)
    BY <2>1
  <2> QED
    BY <2>2
<1>2. ASSUME NEW k \in Nat, k \in S PROVE k + 1 \in S
  <2>1. PICK f : Solves(f, k)
    BY <1>2
  <2>2. PICK g : g = [n \in 0 .. k + 1 |->
                        IF n = 0 THEN <<>>
                        ELSE IF list[n] \in set THEN Append(f[n - 1], list[n]) ELSE f[n - 1]]
    OBVIOUS
  <2>3. \A n \in 0 .. k : f[n] = g[n]
    <3>1. ASSUME NEW n \in 0 .. k PROVE f[n] = g[n]
      <4>1. n \in 0 .. k + 1
        OBVIOUS
      <4>2. g[n] = IF n = 0 THEN <<>>
                   ELSE IF list[n] \in set THEN Append(f[n - 1], list[n]) ELSE f[n - 1]
        BY <2>2, <4>1
      <4>3. f[n] = IF n = 0 THEN <<>>
                   ELSE IF list[n] \in set THEN Append(f[n - 1], list[n]) ELSE f[n - 1]
        BY <2>1
      <4> QED
        BY <4>2, <4>3
    <3> QED
      BY <3>1
  <2>4. \A n \in 1 .. k + 1 : f[n - 1] = g[n - 1]
    BY <2>3
  <2>5. Solves(g, k + 1)
    <3>1. \A n \in 0 .. k + 1 :
            (IF n = 0 THEN <<>>
             ELSE IF list[n] \in set THEN Append(f[n - 1], list[n]) ELSE f[n - 1])
            = (IF n = 0 THEN <<>>
               ELSE IF list[n] \in set THEN Append(g[n - 1], list[n]) ELSE g[n - 1])
      BY <2>4
    <3> QED
      BY <2>2, <3>1
  <2> QED
    BY <2>5
<1>3. \E f : Solves(f, Len(list))
  <2> HIDE DEF Solves
  <2> QED
    BY <1>1, <1>2, SetInduction
<1>4. Filtered(list, set) = CHOOSE f : Solves(f, Len(list))
  BY DEF Filtered
<1> QED
  <2>1. Solves(Filtered(list, set), Len(list))
    <3> HIDE DEF Solves
    <3> QED
      BY <1>3, <1>4
  <2> QED
    BY <2>1

(* What is left of a list has members of the list and the set.             *)
LEMMA OnlyType ==
  ASSUME NEW S, NEW list \in Seq(S), NEW set
  PROVE  Only(list, set) \in Seq(S \cap set) /\ Only(list, set) \in Seq(S)
<1> DEFINE F == Filtered(list, set)
           P == {n \in Nat : n <= Len(list) => F[n] \in Seq(S \cap set)}
<1>1. Len(list) \in Nat
  OBVIOUS
<1>2. F = [n \in 0 .. Len(list) |->
              IF n = 0 THEN <<>>
              ELSE IF list[n] \in set THEN Append(F[n - 1], list[n]) ELSE F[n - 1]]
  BY <1>1, FilteredDef
<1> HIDE DEF F
<1>3. 0 \in P
  BY <1>1, <1>2
<1>4. ASSUME NEW n \in Nat, n \in P PROVE n + 1 \in P
  <2> SUFFICES ASSUME n + 1 <= Len(list) PROVE F[n + 1] \in Seq(S \cap set)
    OBVIOUS
  <2>1. F[n] \in Seq(S \cap set) /\ list[n + 1] \in S
    BY <1>1, <1>4
  <2>2. F[n + 1] = IF list[n + 1] \in set THEN Append(F[n], list[n + 1]) ELSE F[n]
    <3>1. n + 1 \in 0 .. Len(list) /\ n + 1 # 0 /\ (n + 1) - 1 = n
      BY <1>1
    <3>2. F[n + 1] = IF list[n + 1] \in set THEN Append(F[(n + 1) - 1], list[n + 1])
                                            ELSE F[(n + 1) - 1]
      BY <1>2, <3>1
    <3> QED
      BY <3>1, <3>2
  <2> QED
    BY <2>1, <2>2
<1>5. Len(list) \in P
  <2> HIDE DEF P
  <2> QED
    BY <1>1, <1>3, <1>4, SetInduction
<1>6. \A s : s \in Seq(S \cap set) => s \in Seq(S)
  OBVIOUS
<1> QED
  BY <1>5, <1>6 DEF Only, F

(* The sources that recipes may see: those that are configured, relative   *)
(* to a recipe where they can be, and the directories of the recipes.      *)
Relative(p) == {Based(s, d) : s \in Configured(p), d \in DOMAIN Held}
OwnDirectories == {Source(FALSE, d, ".") : d \in DOMAIN Held}
Usable(p) == Relative(p) \cup OwnDirectories \cup ToSet(p.cli)

Cached(p) == {s \in Configured(p) : s.git /\ s.cached}
Apart(p) == \A s, t \in Cached(p) : Url[s.base] = Url[t.base] => s = t

(* A source that leads to a directory.                                     *)
Placed(s) == <<s.base, s.path>> \in DOMAIN Place /\ s.trusted \in BOOLEAN

LEMMA ConfiguredFacts ==
  ASSUME NEW p \in Projects, NEW s \in Configured(p)
  PROVE  /\ DOMAIN s = DOMAIN NoSource
         /\ s.git \in BOOLEAN /\ s.cached \in BOOLEAN /\ s.trusted \in BOOLEAN
         /\ s.git => s.base # None
         /\ \A d \in DOMAIN Held : <<Based(s, d).base, s.path>> \in DOMAIN Place
BY ProjectsAssumption

LEMMA BasedFacts ==
  ASSUME NEW p \in Projects, NEW s \in Configured(p), NEW d \in DOMAIN Held
  PROVE  /\ DOMAIN Based(s, d) = DOMAIN NoSource
         /\ Based(s, d).git = s.git /\ Based(s, d).cached = s.cached
         /\ Based(s, d).trusted = s.trusted /\ Based(s, d).path = s.path
         /\ s.git => Based(s, d) = s
<1>1. DOMAIN s = DOMAIN NoSource
  BY ConfiguredFacts
<1>2. {"git", "base", "path", "trusted", "cached"} \subseteq DOMAIN s
  BY <1>1 DEF NoSource, Source
<1>3. s.git => s.base # None
  BY ConfiguredFacts
<1>4. CASE s.base = None
  <2>1. PICK b : b = [s EXCEPT !.base = d]
    OBVIOUS
  <2>2. b.git = s.git /\ b.cached = s.cached /\ b.trusted = s.trusted /\ b.path = s.path
    BY <1>2, <2>1
  <2>3. DOMAIN b = DOMAIN s
    BY <2>1
  <2>4. Based(s, d) = b
    BY <1>4, <2>1 DEF Based
  <2> QED
    BY <1>1, <1>3, <1>4, <2>2, <2>3, <2>4
<1>5. CASE s.base # None
  BY <1>1, <1>5 DEF Based
<1> QED
  BY <1>4, <1>5

LEMMA UsableFacts ==
  ASSUME NEW p \in Projects, NEW s \in Usable(p)
  PROVE  /\ s.git \in BOOLEAN /\ s.cached \in BOOLEAN /\ Placed(s)
         /\ s.git /\ s.cached => s \in Cached(p)
<1>1. CASE \E t \in Configured(p), d \in DOMAIN Held : s = Based(t, d)
  <2>1. PICK t \in Configured(p), d \in DOMAIN Held : s = Based(t, d)
    BY <1>1
  <2>2. /\ s.git = t.git /\ s.cached = t.cached /\ s.trusted = t.trusted /\ s.path = t.path
        /\ t.git => s = t
    BY <2>1, BasedFacts
  <2>3. /\ t.git \in BOOLEAN /\ t.cached \in BOOLEAN /\ t.trusted \in BOOLEAN
        /\ <<s.base, t.path>> \in DOMAIN Place
    BY <2>1, ConfiguredFacts
  <2> QED
    BY <2>2, <2>3 DEF Placed, Cached
<1>2. CASE \E d \in DOMAIN Held : s = Source(FALSE, d, ".")
  <2>1. PICK d \in DOMAIN Held : s = Source(FALSE, d, ".")
    BY <1>2
  <2>2. s.git = FALSE /\ s.cached = FALSE /\ s.trusted = FALSE /\ s.base = d /\ s.path = "."
    BY <2>1 DEF Source
  <2> QED
    BY <2>2, PlaceAssumption DEF Placed
<1>3. CASE s \in ToSet(p.cli)
  <2>1. s \in Configured(p)
    BY <1>3 DEF Configured
  <2>2. <<s.base, s.path>> \in DOMAIN Place
    BY <1>3, ProjectsAssumption
  <2> QED
    BY <2>1, <2>2, ConfiguredFacts DEF Placed, Cached
<1>4. \/ \E t \in Configured(p), d \in DOMAIN Held : s = Based(t, d)
      \/ \E d \in DOMAIN Held : s = Source(FALSE, d, ".")
      \/ s \in ToSet(p.cli)
  <2>1. s \in Relative(p) \/ s \in OwnDirectories \/ s \in ToSet(p.cli)
    BY DEF Usable
  <2>2. s \in Relative(p) => \E t \in Configured(p), d \in DOMAIN Held : s = Based(t, d)
    BY DEF Relative
  <2>3. s \in OwnDirectories => \E d \in DOMAIN Held : s = Source(FALSE, d, ".")
    BY DEF OwnDirectories
  <2> QED
    BY <2>1, <2>2, <2>3
<1> QED
  BY <1>1, <1>2, <1>3, <1>4

LEMMA CheckoutFacts ==
  ASSUME NEW s
  PROVE  /\ Checkout(s).git = FALSE /\ Checkout(s).cached = FALSE
         /\ Checkout(s).base = s.base /\ Checkout(s).path = s.path
         /\ Checkout(s).trusted = s.trusted
BY DEF Checkout, Source

-----------------------------------------------------------------------------
(* The cache.                                                              *)

(* The paths of sources, which are their unique ids.                       *)
Paths == {q[2] : q \in DOMAIN Place}

(* What a recipe may be read from.                                         *)
Vias(p) == Usable(p) \cup {Checkout(s) : s \in Usable(p)}

LEMMA ViaFacts ==
  ASSUME NEW p \in Projects, NEW v \in Vias(p)
  PROVE  /\ Placed(v) /\ DirectoryOf(v) \in DOMAIN Held
         /\ UniqueId(v) \in Paths
<1>1. v \in Usable(p) => Placed(v)
  BY UsableFacts
<1>2. ASSUME NEW s \in Usable(p), v = Checkout(s) PROVE Placed(v)
  BY <1>2, UsableFacts, CheckoutFacts DEF Placed
<1>3. v \in Usable(p) \/ \E s \in Usable(p) : v = Checkout(s)
  BY DEF Vias
<1>4. Placed(v)
  BY <1>1, <1>2, <1>3
<1>5. <<v.base, v.path>> \in DOMAIN Place
  BY <1>4 DEF Placed
<1>6. DirectoryOf(v) \in DOMAIN Held
  BY <1>5, PlaceAssumption DEF DirectoryOf
<1>7. UniqueId(v) \in Paths
  <2>1. UniqueId(v) = <<v.base, v.path>>[2]
    BY DEF UniqueId
  <2> QED
    BY <1>5, <2>1 DEF Paths
<1> QED
  BY <1>4, <1>6, <1>7

(* Every clone that is kept was made by a source that uses the cache.      *)
ClonesOf(p, clone) ==
  \A k \in DOMAIN clone :
    \E s \in Usable(p) \cap Cached(p) : k[1] = Url[s.base] /\ clone[k] = Checkout(s)

LEMMA StandingFacts ==
  ASSUME NEW p \in Projects, NEW s \in Usable(p), NEW id, NEW clone, ClonesOf(p, clone)
  PROVE  /\ Standing(s, id, clone) \in Vias(p)
         /\ Standing(s, id, <<>>) = IF s.git THEN Checkout(s) ELSE s
         /\ Standing(s, id, <<>>).trusted = s.trusted
         /\ ~s.git => Standing(s, id, clone) = s
         /\ Apart(p) => Standing(s, id, clone) = Standing(s, id, <<>>)
<1>1. /\ s.git \in BOOLEAN /\ s.cached \in BOOLEAN
      /\ s.git /\ s.cached => s \in Cached(p)
  BY UsableFacts
<1>2. \A t \in Usable(p) : t \in Vias(p) /\ Checkout(t) \in Vias(p)
  BY DEF Vias
<1>3. Standing(s, id, <<>>) = IF s.git THEN Checkout(s) ELSE s
  <2>1. <<Url[s.base], id>> \notin DOMAIN <<>>
    OBVIOUS
  <2> QED
    BY <1>1, <2>1 DEF Standing
<1>4. Checkout(s).trusted = s.trusted
  BY CheckoutFacts
<1>5. ~s.git => Standing(s, id, clone) = s
  BY <1>1 DEF Standing
<1>6. CASE s.git /\ s.cached /\ <<Url[s.base], id>> \in DOMAIN clone
  <2>1. Standing(s, id, clone) = clone[<<Url[s.base], id>>]
    BY <1>6 DEF Standing
  <2>2. PICK t \in Usable(p) \cap Cached(p) :
          <<Url[s.base], id>>[1] = Url[t.base] /\ clone[<<Url[s.base], id>>] = Checkout(t)
    BY <1>6 DEF ClonesOf
  <2>3. Checkout(t) \in Vias(p)
    BY <1>2
  <2>4. Apart(p) => s = t
    BY <1>1, <1>6, <2>2 DEF Apart
  <2> QED
    BY <1>3, <1>4, <1>6, <2>1, <2>2, <2>3, <2>4
<1>7. CASE ~ (s.git /\ s.cached /\ <<Url[s.base], id>> \in DOMAIN clone)
  <2>1. Standing(s, id, clone) = IF s.git THEN Checkout(s) ELSE s
    BY <1>1, <1>7 DEF Standing
  <2> QED
    BY <1>1, <1>2, <1>3, <1>4, <1>5, <2>1
<1> QED
  BY <1>6, <1>7

-----------------------------------------------------------------------------
(* The search.                                                             *)

(* The first source of a name.                                             *)
LEMMA NamedFacts ==
  ASSUME NEW S, NEW list \in Seq(S), NEW from
  PROVE  LET i == Named(list, from) IN
         /\ i \in 0 .. Len(list)
         /\ i # 0 => list[i].name = from /\ \A j \in 1 .. i - 1 : list[j].name # from
         /\ i = 0 => \A j \in 1 .. Len(list) : list[j].name # from
<1> DEFINE I == {j \in 1 .. Len(list) : list[j].name = from}
<1>1. Named(list, from) = IF I # {} THEN Min(I) ELSE 0
  BY DEF SelectInSeq, Named
<1>2. I # {} => Min(I) \in I /\ \A m \in I : Min(I) <= m
  BY MinFacts
<1>3. Len(list) \in Nat
  OBVIOUS
<1> HIDE DEF I
<1>4. CASE I = {}
  <2>1. \A j \in 1 .. Len(list) : list[j].name # from
    BY <1>4 DEF I
  <2> QED
    BY <1>1, <1>3, <1>4, <2>1
<1>5. CASE I # {}
  <2> DEFINE n == Min(I)
  <2>1. n \in 1 .. Len(list) /\ list[n].name = from
    BY <1>2, <1>5 DEF I
  <2>2. ASSUME NEW j \in 1 .. n - 1 PROVE list[j].name # from
    <3>1. j \in 1 .. Len(list)
      BY <1>3, <2>1
    <3>2. j \in I => n <= j
      BY <1>2, <1>5
    <3>3. j \notin I
      BY <2>1, <3>1, <3>2
    <3> QED
      BY <3>1, <3>3 DEF I
  <2> QED
    BY <1>1, <1>5, <2>1, <2>2
<1> QED
  BY <1>4, <1>5

LEMMA CandidatesFacts ==
  ASSUME NEW S, NEW list \in Seq(S), NEW from
  PROVE  /\ Candidates(list, from) \in Seq(S)
         /\ \A more \in Seq(S) :
              /\ from = None => Candidates(list \o more, from) = Candidates(list, from) \o more
              /\ from # None /\ Candidates(list, from) # <<>> =>
                   Candidates(list \o more, from) = Candidates(list, from)
<1> DEFINE At(l) == Named(l, from)
<1>1. ASSUME NEW l \in Seq(S)
      PROVE  /\ At(l) \in 0 .. Len(l)
             /\ At(l) # 0 => l[At(l)].name = from /\ \A j \in 1 .. At(l) - 1 : l[j].name # from
             /\ At(l) = 0 => \A j \in 1 .. Len(l) : l[j].name # from
  BY NamedFacts
<1>2. \A l : Candidates(l, from) = IF from = None THEN l
                                   ELSE IF At(l) = 0 THEN <<>> ELSE <<l[At(l)]>>
  BY DEF Candidates
<1> HIDE DEF At
<1>3. Candidates(list, from) \in Seq(S)
  <2>1. At(list) # 0 => At(list) \in 1 .. Len(list) /\ list[At(list)] \in S
    BY <1>1
  <2>2. \A s \in S : <<s>> \in Seq(S)
    OBVIOUS
  <2>3. <<>> \in Seq(S)
    OBVIOUS
  <2> QED
    BY <1>2, <2>1, <2>2, <2>3
<1>4. ASSUME NEW more \in Seq(S), from # None, Candidates(list, from) # <<>>
      PROVE  Candidates(list \o more, from) = Candidates(list, from)
  <2>1. At(list) \in 1 .. Len(list) /\ list[At(list)].name = from
        /\ \A j \in 1 .. At(list) - 1 : list[j].name # from
    BY <1>1, <1>2, <1>4
  <2>2. list \o more \in Seq(S) /\ Len(list \o more) = Len(list) + Len(more)
        /\ \A j \in 1 .. Len(list) : (list \o more)[j] = list[j]
    OBVIOUS
  <2>3. At(list \o more) = At(list)
    <3>1. /\ At(list \o more) \in 0 .. Len(list \o more)
          /\ At(list \o more) # 0 =>
               /\ (list \o more)[At(list \o more)].name = from
               /\ \A j \in 1 .. At(list \o more) - 1 : (list \o more)[j].name # from
          /\ At(list \o more) = 0 => \A j \in 1 .. Len(list \o more) : (list \o more)[j].name # from
      BY <1>1, <2>2
    <3>2. At(list) \in 1 .. Len(list \o more) /\ (list \o more)[At(list)].name = from
      BY <2>1, <2>2
    <3>3. At(list \o more) # 0 /\ ~ (At(list) < At(list \o more))
      BY <3>1, <3>2
    <3>4. ~ (At(list \o more) < At(list))
      BY <2>1, <2>2, <3>1, <3>3
    <3> QED
      BY <2>1, <3>1, <3>3, <3>4
  <2> QED
    BY <1>2, <1>4, <2>1, <2>2, <2>3
<1>5. from = None => \A l : Candidates(l, from) = l
  BY <1>2
<1> QED
  BY <1>3, <1>4, <1>5

Hit(s, id, clone) == s.git \/ Has(s, id, clone)

LEMMA StopFacts ==
  ASSUME NEW S, NEW list \in Seq(S), NEW id, NEW from, NEW clone
  PROVE  LET n == Stop(list, id, from, clone)
             C == Candidates(list, from) IN
         /\ n \in 0 .. Len(C)
         /\ n # 0 => Hit(C[n], id, clone) /\ \A j \in 1 .. n - 1 : ~Hit(C[j], id, clone)
         /\ n = 0 => \A j \in 1 .. Len(C) : ~Hit(C[j], id, clone)
<1> DEFINE C == Candidates(list, from)
           I == {j \in 1 .. Len(C) : Hit(C[j], id, clone)}
<1>0. C \in Seq(S)
  BY CandidatesFacts
<1>1. Stop(list, id, from, clone) = IF I # {} THEN Min(I) ELSE 0
  BY DEF SelectInSeq, Stop, Hit
<1> HIDE DEF C
<1>2. I # {} => Min(I) \in I /\ \A m \in I : Min(I) <= m
  BY MinFacts
<1>3. Len(C) \in Nat
  BY <1>0
<1> HIDE DEF I
<1>4. CASE I = {}
  <2>1. \A j \in 1 .. Len(C) : ~Hit(C[j], id, clone)
    BY <1>4 DEF I
  <2> QED
    BY <1>1, <1>3, <1>4, <2>1 DEF C
<1>5. CASE I # {}
  <2> DEFINE n == Min(I)
  <2>1. n \in 1 .. Len(C) /\ Hit(C[n], id, clone)
    BY <1>2, <1>5 DEF I
  <2>2. ASSUME NEW j \in 1 .. n - 1 PROVE ~Hit(C[j], id, clone)
    <3>1. j \in 1 .. Len(C)
      BY <1>3, <2>1
    <3>2. j \in I => n <= j
      BY <1>2, <1>5
    <3>3. j \notin I
      BY <2>1, <3>1, <3>2
    <3> QED
      BY <3>1, <3>3 DEF I
  <2> QED
    BY <1>1, <1>5, <2>1, <2>2 DEF C
<1> QED
  BY <1>4, <1>5

(* Where a search stops does not depend on the cache.                      *)
LEMMA StopIsSame ==
  ASSUME NEW p \in Projects, NEW list \in Seq(Usable(p)), NEW id, NEW from,
         NEW clone, ClonesOf(p, clone)
  PROVE  Stop(list, id, from, clone) = Stop(list, id, from, <<>>)
<1> DEFINE C == Candidates(list, from)
           m == Stop(list, id, from, clone)
           n == Stop(list, id, from, <<>>)
<1>1. C \in Seq(Usable(p))
  BY CandidatesFacts
<1>2. ASSUME NEW s \in Usable(p) PROVE Hit(s, id, clone) <=> Hit(s, id, <<>>)
  <2>1. s.git \in BOOLEAN
    BY UsableFacts
  <2>2. ~s.git => Standing(s, id, clone) = s /\ Standing(s, id, <<>>) = s
    BY StandingFacts
  <2> QED
    BY <2>1, <2>2 DEF Hit, Has
<1>3. \A j \in 1 .. Len(C) : Hit(C[j], id, clone) <=> Hit(C[j], id, <<>>)
  BY <1>1, <1>2
<1>4. /\ m \in 0 .. Len(C)
      /\ m # 0 => Hit(C[m], id, clone) /\ \A j \in 1 .. m - 1 : ~Hit(C[j], id, clone)
      /\ m = 0 => \A j \in 1 .. Len(C) : ~Hit(C[j], id, clone)
  BY StopFacts
<1>5. /\ n \in 0 .. Len(C)
      /\ n # 0 => Hit(C[n], id, <<>>) /\ \A j \in 1 .. n - 1 : ~Hit(C[j], id, <<>>)
      /\ n = 0 => \A j \in 1 .. Len(C) : ~Hit(C[j], id, <<>>)
  BY StopFacts
<1>6. Len(C) \in Nat
  BY <1>1
<1> HIDE DEF C, m, n
<1>7. m = 0 <=> n = 0
  BY <1>3, <1>4, <1>5, <1>6
<1>8. ~ (m < n) /\ ~ (n < m)
  BY <1>3, <1>4, <1>5, <1>6, <1>7
<1>9. m = n
  BY <1>4, <1>5, <1>6, <1>8
<1> QED
  BY <1>9 DEF m, n

LEMMA FoundFacts ==
  ASSUME NEW p \in Projects, NEW s \in Usable(p), NEW id, NEW clone, ClonesOf(p, clone)
  PROVE  LET f == Found(s, id, clone) IN
         /\ ClonesOf(p, f.clones)
         /\ f.via # NoSource => f.via \in Vias(p) /\ id \in Held[DirectoryOf(f.via)]
         /\ Apart(p) => f.via = Found(s, id, <<>>).via
         /\ Apart(p) /\ f.via # NoSource => f.via.trusted = s.trusted
<1> DEFINE f == Found(s, id, clone)
           st == Standing(s, id, clone)
<1>1. /\ st \in Vias(p)
      /\ Standing(s, id, <<>>) = IF s.git THEN Checkout(s) ELSE s
      /\ Standing(s, id, <<>>).trusted = s.trusted
      /\ Apart(p) => st = Standing(s, id, <<>>)
  BY StandingFacts
<1>2. /\ s.git \in BOOLEAN /\ s.cached \in BOOLEAN
      /\ s.git /\ s.cached => s \in Cached(p)
  BY UsableFacts
<1>3. /\ f.via = IF Has(s, id, clone) THEN st ELSE NoSource
      /\ f.clones = IF Has(s, id, clone) /\ s.git /\ s.cached
                    THEN With(clone, <<Url[s.base], id>>, st) ELSE clone
  BY DEF Found
<1>4. Has(s, id, clone) <=> id \in Held[DirectoryOf(st)]
  BY DEF Has
<1>5. Apart(p) => (Has(s, id, clone) <=> Has(s, id, <<>>))
  BY <1>1 DEF Has
<1>6. Found(s, id, <<>>).via = IF Has(s, id, <<>>) THEN Standing(s, id, <<>>) ELSE NoSource
  BY DEF Found
<1>7. ClonesOf(p, f.clones)
  <2>1. CASE f.clones = clone
    BY <2>1
  <2>2. CASE s.git /\ s.cached /\ f.clones = With(clone, <<Url[s.base], id>>, st)
    <3> DEFINE key == <<Url[s.base], id>>
    <3>1. \E t \in Usable(p) \cap Cached(p) : key[1] = Url[t.base] /\ st = Checkout(t)
      <4>1. CASE key \in DOMAIN clone
        <5>1. st = clone[key]
          BY <2>2, <4>1 DEF Standing
        <5> QED
          BY <4>1, <5>1 DEF ClonesOf
      <4>2. CASE key \notin DOMAIN clone
        <5>1. st = Checkout(s)
          BY <2>2, <4>2 DEF Standing
        <5> QED
          BY <1>2, <2>2, <5>1
      <4> QED
        BY <4>1, <4>2
    <3>2. DOMAIN f.clones = {key} \cup DOMAIN clone
      BY <2>2 DEF With
    <3>3. \A k \in DOMAIN f.clones : f.clones[k] = IF k = key THEN st ELSE clone[k]
      BY <2>2 DEF With
    <3> HIDE DEF f, st, key
    <3> QED
      BY <3>1, <3>2, <3>3 DEF ClonesOf
  <2> QED
    BY <1>2, <1>3, <2>1, <2>2
<1> QED
  BY <1>1, <1>3, <1>4, <1>5, <1>6, <1>7

LEMMA SearchFacts ==
  ASSUME NEW p \in Projects, NEW list \in Seq(Usable(p)), NEW id, NEW from,
         NEW clone, ClonesOf(p, clone)
  PROVE  LET f == Search(list, id, from, clone) IN
         /\ ClonesOf(p, f.clones)
         /\ f.via # NoSource => f.via \in Vias(p) /\ id \in Held[DirectoryOf(f.via)]
         /\ Apart(p) => f.via = Search(list, id, from, <<>>).via
         /\ f.via # NoSource =>
              LET s == Candidates(list, from)[Stop(list, id, from, clone)] IN
              s \in Usable(p) /\ (Apart(p) => f.via.trusted = s.trusted)
<1> DEFINE C == Candidates(list, from)
           n == Stop(list, id, from, clone)
<1>1. C \in Seq(Usable(p)) /\ n \in 0 .. Len(C)
  BY CandidatesFacts, StopFacts
<1>2. Stop(list, id, from, <<>>) = n
  BY StopIsSame
<1>3. \A c : Stop(list, id, from, c) = n =>
        Search(list, id, from, c) = IF n = 0 THEN [via |-> NoSource, clones |-> c]
                                    ELSE Found(C[n], id, c)
  BY DEF Search
<1>4. n # 0 => C[n] \in Usable(p)
  BY <1>1
<1> HIDE DEF n, C
<1>5. Search(list, id, from, clone) = IF n = 0 THEN [via |-> NoSource, clones |-> clone]
                                      ELSE Found(C[n], id, clone)
  BY <1>3 DEF n
<1>6. Search(list, id, from, <<>>).via = IF n = 0 THEN NoSource ELSE Found(C[n], id, <<>>).via
  BY <1>2, <1>3
<1>7. CASE n = 0
  BY <1>5, <1>6, <1>7
<1>8. CASE n # 0
  BY <1>4, <1>5, <1>6, <1>8, FoundFacts DEF C, n
<1> QED
  BY <1>7, <1>8

(* What a list finds is not hidden by sources that are appended to it.     *)
LEMMA FoundBeforeMore ==
  ASSUME NEW p \in Projects, NEW list \in Seq(Usable(p)), NEW more \in Seq(Usable(p)),
         NEW id, NEW from, Search(list, id, from, <<>>).via # NoSource
  PROVE  Search(list \o more, id, from, <<>>).via = Search(list, id, from, <<>>).via
<1> DEFINE both == list \o more
           C == Candidates(list, from)
           D == Candidates(both, from)
           m == Stop(list, id, from, <<>>)
           n == Stop(both, id, from, <<>>)
<1>0. both \in Seq(Usable(p))
  OBVIOUS
<1>1. C \in Seq(Usable(p)) /\ D \in Seq(Usable(p)) /\ Len(C) \in Nat /\ Len(D) \in Nat
  <2>1. C \in Seq(Usable(p))
    BY CandidatesFacts
  <2>2. D \in Seq(Usable(p))
    BY <1>0, CandidatesFacts
  <2> HIDE DEF C, D
  <2> QED
    BY <2>1, <2>2
<1>2. /\ m \in 0 .. Len(C)
      /\ m # 0 => Hit(C[m], id, <<>>) /\ \A j \in 1 .. m - 1 : ~Hit(C[j], id, <<>>)
  BY StopFacts
<1>3. /\ n \in 0 .. Len(D)
      /\ n # 0 => Hit(D[n], id, <<>>) /\ \A j \in 1 .. n - 1 : ~Hit(D[j], id, <<>>)
      /\ n = 0 => \A j \in 1 .. Len(D) : ~Hit(D[j], id, <<>>)
  BY <1>0, StopFacts
<1>4. m # 0
  BY DEF Search
<1>5. D = C \o more \/ D = C
  <2>1. C # <<>>
    BY <1>1, <1>2, <1>4
  <2> QED
    BY <2>1, CandidatesFacts
<1>6. Len(C) <= Len(D) /\ \A j \in 1 .. Len(C) : D[j] = C[j]
  BY <1>1, <1>5
<1>7. Search(list, id, from, <<>>) = Found(C[m], id, <<>>)
  BY <1>4 DEF Search
<1>8. n # 0 => Search(both, id, from, <<>>) = Found(D[n], id, <<>>)
  BY DEF Search
<1> HIDE DEF both, C, D, m, n
<1>9. m \in 1 .. Len(D) /\ Hit(D[m], id, <<>>) /\ \A j \in 1 .. m - 1 : ~Hit(D[j], id, <<>>)
  <2>1. m \in 1 .. Len(C) /\ m \in 1 .. Len(D) /\ 1 .. m - 1 \subseteq 1 .. Len(C)
    BY <1>1, <1>2, <1>4, <1>6
  <2>2. D[m] = C[m] /\ \A j \in 1 .. m - 1 : D[j] = C[j]
    BY <1>6, <2>1
  <2> QED
    BY <1>2, <1>4, <2>1, <2>2
<1>10. n # 0 /\ ~ (m < n)
  BY <1>1, <1>3, <1>9
<1>11. n = m
  BY <1>1, <1>3, <1>9, <1>10
<1>12. D[n] = C[m]
  BY <1>2, <1>4, <1>6, <1>11
<1> QED
  BY <1>7, <1>8, <1>10, <1>12 DEF both

-----------------------------------------------------------------------------
(* What a recipe sees, and what it is validated with.                      *)

LEMMA MergeFacts ==
  ASSUME NEW S, NEW list \in Seq(S), NEW to \in Seq(S)
  PROVE  /\ \E more \in Seq(S) : MergePrepend(list, to) = list \o more
         /\ MergePrepend(list, to) \in Seq(S)
         /\ Propagated(list) \in Seq(S)
<1>1. Only(to, ToSet(to) \ ToSet(list)) \in Seq(S) /\ Propagated(list) \in Seq(S)
  BY OnlyType DEF Propagated
<1> QED
  <2>1. PICK more \in Seq(S) : more = Only(to, ToSet(to) \ ToSet(list))
    BY <1>1
  <2>2. MergePrepend(list, to) = list \o more
    BY <2>1 DEF MergePrepend
  <2>3. list \o more \in Seq(S)
    OBVIOUS
  <2> QED
    BY <1>1, <2>2, <2>3

LEMMA MergePrefix ==
  ASSUME NEW S, NEW list \in Seq(S), NEW to \in Seq(S)
  PROVE  \E more \in Seq(S) : MergePrepend(list, to) = list \o more
BY MergeFacts

LEMMA CombinedFacts ==
  ASSUME NEW p \in Projects, NEW dir \in DOMAIN Held, NEW file \in Files, NEW ignore,
         NEW context \in Seq(Usable(p))
  PROVE  Combined(dir, p.own[file], ignore, context) \in Seq(Usable(p))
<1> DEFINE own == p.own[file]
           based == [i \in DOMAIN own |-> Based(own[i], dir)]
           local == based \o <<Source(FALSE, dir, ".")>>
<1>1. own \in Seq(ToSet(own))
  BY ProjectsAssumption DEF IsList
<1>2. \A i \in DOMAIN own : own[i] \in Configured(p)
  BY DEF Configured, ToSet
<1>3. based \in Seq(Usable(p))
  <2>1. DOMAIN own = 1 .. Len(own) /\ Len(own) \in Nat
    BY <1>1
  <2>2. \A i \in 1 .. Len(own) : Based(own[i], dir) \in Usable(p)
    BY <1>2, <2>1 DEF Usable, Relative
  <2> HIDE DEF own
  <2> QED
    BY <2>1, <2>2
<1>4. Source(FALSE, dir, ".") \in Usable(p)
  <2>1. Source(FALSE, dir, ".") \in OwnDirectories
    BY DEF OwnDirectories
  <2> QED
    BY <2>1 DEF Usable
<1> HIDE DEF based
<1>5. \A s \in Usable(p) : based \o <<s>> \in Seq(Usable(p))
  BY <1>3
<1>6. local \in Seq(Usable(p))
  BY <1>4, <1>5
<1>7. Combined(dir, own, ignore, context) = IF ignore THEN local ELSE MergePrepend(local, context)
  BY DEF Combined, based
<1> HIDE DEF local
<1>8. MergePrepend(local, context) \in Seq(Usable(p))
  BY <1>6, MergeFacts
<1> QED
  BY <1>6, <1>7, <1>8

(* Validated is well defined.                                              *)
LEMMA ValidatedDef ==
  ASSUME NEW list, NEW deps, NEW clone, Len(deps) \in Nat
  PROVE  Validated(list, deps, clone) =
           [n \in 0 .. Len(deps) |->
              IF n = 0 THEN [ok |-> TRUE, clones |-> clone]
              ELSE Sought(list, deps[n], Validated(list, deps, clone)[n - 1])]
<1> DEFINE
  Solves(f, k) == f = [n \in 0 .. k |-> IF n = 0 THEN [ok |-> TRUE, clones |-> clone]
                                        ELSE Sought(list, deps[n], f[n - 1])]
  S == {k \in Nat : \E f : Solves(f, k)}
<1>1. 0 \in S
  <2>1. PICK f : f = [n \in 0 .. 0 |-> [ok |-> TRUE, clones |-> clone]]
    OBVIOUS
  <2>2. Solves(f, 0)
    BY <2>1
  <2> QED
    BY <2>2
<1>2. ASSUME NEW k \in Nat, k \in S PROVE k + 1 \in S
  <2>1. PICK f : Solves(f, k)
    BY <1>2
  <2>2. PICK g : g = [n \in 0 .. k + 1 |-> IF n = 0 THEN [ok |-> TRUE, clones |-> clone]
                                           ELSE Sought(list, deps[n], f[n - 1])]
    OBVIOUS
  <2>3. ASSUME NEW n \in 0 .. k PROVE f[n] = g[n]
    <3>1. n \in 0 .. k + 1
      OBVIOUS
    <3>2. g[n] = IF n = 0 THEN [ok |-> TRUE, clones |-> clone] ELSE Sought(list, deps[n], f[n - 1])
      BY <2>2, <3>1
    <3>3. f[n] = IF n = 0 THEN [ok |-> TRUE, clones |-> clone] ELSE Sought(list, deps[n], f[n - 1])
      BY <2>1
    <3> QED
      BY <3>2, <3>3
  <2>4. \A n \in 1 .. k + 1 : f[n - 1] = g[n - 1]
    BY <2>3
  <2>5. \A n \in 0 .. k + 1 :
          (IF n = 0 THEN [ok |-> TRUE, clones |-> clone] ELSE Sought(list, deps[n], f[n - 1]))
          = (IF n = 0 THEN [ok |-> TRUE, clones |-> clone] ELSE Sought(list, deps[n], g[n - 1]))
    BY <2>4
  <2>6. Solves(g, k + 1)
    BY <2>2, <2>5
  <2> QED
    BY <2>6
<1>3. \E f : Solves(f, Len(deps))
  <2> HIDE DEF Solves
  <2> QED
    BY <1>1, <1>2, SetInduction
<1>4. Validated(list, deps, clone) = CHOOSE f : Solves(f, Len(deps))
  BY DEF Validated
<1>5. Solves(Validated(list, deps, clone), Len(deps))
  <2> HIDE DEF Solves
  <2> QED
    BY <1>3, <1>4
<1> QED
  BY <1>5

(* A recipe whose validation succeeds finds all it depends on, also later, *)
(* unless two sources share a clone.                                       *)
LEMMA ValidationFacts ==
  ASSUME NEW p \in Projects, NEW list \in Seq(Usable(p)), NEW deps, Len(deps) \in Nat,
         NEW clone, ClonesOf(p, clone)
  PROVE  LET v == ValidateDependencies(list, deps, clone) IN
         /\ v.ok \in BOOLEAN /\ ClonesOf(p, v.clones)
         /\ Apart(p) /\ v.ok = TRUE =>
              \A i \in 1 .. Len(deps) : Search(list, deps[i].id, deps[i].from, <<>>).via # NoSource
<1> DEFINE
  V == Validated(list, deps, clone)
  Finds(i) == Search(list, deps[i].id, deps[i].from, <<>>).via # NoSource
  Good(n) == /\ V[n].ok \in BOOLEAN /\ ClonesOf(p, V[n].clones)
             /\ Apart(p) /\ V[n].ok = TRUE => \A i \in 1 .. n : Finds(i)
  P == {n \in Nat : n <= Len(deps) => Good(n)}
<1>1. V = [n \in 0 .. Len(deps) |-> IF n = 0 THEN [ok |-> TRUE, clones |-> clone]
                                    ELSE Sought(list, deps[n], V[n - 1])]
  BY ValidatedDef
<1> HIDE DEF V
<1>2. 0 \in P
  <2>1. V[0] = [ok |-> TRUE, clones |-> clone]
    BY <1>1
  <2> HIDE DEF Finds
  <2>2. V[0].ok \in BOOLEAN /\ ClonesOf(p, V[0].clones)
    BY <2>1
  <2>3. Good(0)
    BY <2>2
  <2> HIDE DEF Good
  <2> QED
    BY <2>3
<1>3. ASSUME NEW n \in Nat, n \in P PROVE n + 1 \in P
  <2> SUFFICES ASSUME n + 1 <= Len(deps) PROVE Good(n + 1)
    <3> HIDE DEF Good
    <3> QED
      OBVIOUS
  <2>0. Good(n)
    <3> HIDE DEF Good
    <3> QED
      BY <1>3
  <2> DEFINE d == deps[n + 1]
             f == Search(list, d.id, d.from, V[n].clones)
  <2>1. /\ V[n].ok \in BOOLEAN /\ ClonesOf(p, V[n].clones)
        /\ Apart(p) /\ V[n].ok = TRUE => \A i \in 1 .. n : Finds(i)
    BY <2>0
  <2>2. V[n + 1] = Sought(list, d, V[n])
    <3>1. n + 1 \in 0 .. Len(deps) /\ n + 1 # 0 /\ (n + 1) - 1 = n
      OBVIOUS
    <3>2. V[n + 1] = Sought(list, deps[n + 1], V[(n + 1) - 1])
      BY <1>1, <3>1
    <3> QED
      BY <3>1, <3>2
  <2>3. V[n + 1].ok = (V[n].ok /\ f.via # NoSource) /\ V[n + 1].clones = f.clones
    BY <2>2 DEF Sought
  <2>4. ClonesOf(p, f.clones) /\ (Apart(p) => f.via = Search(list, d.id, d.from, <<>>).via)
    BY <2>1, SearchFacts
  <2> HIDE DEF f
  <2>5. V[n + 1].ok = TRUE => V[n].ok = TRUE /\ f.via # NoSource
    BY <2>1, <2>3
  <2>6. Apart(p) /\ f.via # NoSource => Finds(n + 1)
    BY <2>4
  <2> HIDE DEF Finds
  <2>7. V[n + 1].ok \in BOOLEAN
    BY <2>3
  <2>8. Apart(p) /\ V[n + 1].ok = TRUE => \A i \in 1 .. n + 1 : Finds(i)
    <3>1. \A i \in 1 .. n + 1 : i \in 1 .. n \/ i = n + 1
      OBVIOUS
    <3> QED
      BY <2>1, <2>5, <2>6, <3>1
  <2> QED
    BY <2>3, <2>4, <2>7, <2>8
<1>4. Good(Len(deps))
  <2>1. Len(deps) \in P
    <3> HIDE DEF P
    <3> QED
      BY <1>2, <1>3, SetInduction
  <2> HIDE DEF Good
  <2> QED
    BY <2>1
<1>5. ValidateDependencies(list, deps, clone) = V[Len(deps)]
  BY DEF ValidateDependencies, V
<1> QED
  BY <1>4, <1>5


-----------------------------------------------------------------------------
(* The invariant.                                                          *)

IsPartial(f, A, B) == DOMAIN f \subseteq A /\ f \in [DOMAIN f -> B]
Partial(A, B) == UNION {[S -> B] : S \in SUBSET A}

Recipes(p) == [file : Files, via : Vias(p) \cup {NoSource}, list : Seq(Usable(p))]
Frames(p) ==
  [recipe : Recipes(p), next : Nat \ {0}, trusted : BOOLEAN, context : Seq(Usable(p)),
   path : Seq(BOOLEAN), uids : Partial(Ids, Paths), found : Partial(Ids, Files), assets : Nat]
EntrySet ==
  [file : Files, vars : BOOLEAN, path : Seq(BOOLEAN),
   uids : Partial(Ids, Paths), found : Partial(Ids, Files), assets : Nat]
Links == [entry : EntrySet, next : Nat]

IsArchive(a) ==
  /\ a = [roots |-> a.roots, dep |-> a.dep, order |-> a.order]
  /\ IsPartial(a.roots, Files, EntrySet) /\ IsPartial(a.dep, Paths \X Ids, EntrySet)
  /\ a.order \in Seq(Paths)

TypeInv ==
  /\ project \in Projects /\ stage \in Stages /\ loaded \subseteq DOMAIN project.args
  /\ ClonesOf(project, clones)
  /\ stack \in Seq(Frames(project)) /\ assets \in Seq(DOMAIN Held)
  /\ IsArchive(archive) /\ IsFiniteSet(DOMAIN archive.roots)
  /\ IsArchive(sent) /\ chain \in Seq(Links)

(* The assets of a recipe are at their place among those written.          *)
HasOwn(file, place, written) ==
  IF file[1] \in Packed THEN place \in DOMAIN written /\ written[place] = file[1] ELSE place = 0

(* Every dependency is known by an id that was met with its directory.     *)
Meant(uids, found, known) ==
  /\ DOMAIN uids = DOMAIN found
  /\ \A id \in DOMAIN uids : found[id][2] = id /\ <<uids[id], found[id][1]>> \in known

TrustedBy(p, trusted, path) ==
  Apart(p) => (trusted = TRUE <=> \A i \in DOMAIN path : path[i] = TRUE)

(* All that a recipe depends on is there to be found.                      *)
Sees(p, list, file) ==
  Apart(p) =>
    \A i \in DOMAIN p.deps[file] :
      Search(list, p.deps[file][i].id, p.deps[file][i].from, <<>>).via # NoSource

FindsAsSeen(p, list, file, found) ==
  Apart(p) =>
    \A i \in DOMAIN p.deps[file] :
      p.deps[file][i].id \in DOMAIN found =>
        found[p.deps[file][i].id][1]
          = DirectoryOf(Search(list, p.deps[file][i].id, p.deps[file][i].from, <<>>).via)

FrameInv(frame, p, written, known) ==
  /\ frame.recipe.via # NoSource => <<UniqueId(frame.recipe.via), frame.recipe.file[1]>> \in known
  /\ HasOwn(frame.recipe.file, frame.assets, written)
  /\ Meant(frame.uids, frame.found, known)
  /\ TrustedBy(p, frame.trusted, frame.path)
  /\ Sees(p, frame.recipe.list, frame.recipe.file)
  /\ FindsAsSeen(p, frame.recipe.list, frame.recipe.file, frame.found)

StackInv == \A i \in DOMAIN stack : FrameInv(stack[i], project, assets, met)

EntryInv(e, p, written, known) ==
  HasOwn(e.file, e.assets, written) /\ Meant(e.uids, e.found, known) /\ TrustedBy(p, e.vars, e.path)

EntriesInv(a, p, written, known) ==
  /\ \A f \in DOMAIN a.roots : EntryInv(a.roots[f], p, written, known)
  /\ \A k \in DOMAIN a.dep :
       /\ EntryInv(a.dep[k], p, written, known)
       /\ a.dep[k].file[2] = k[2] /\ <<k[1], a.dep[k].file[1]>> \in known

ArchivesInv == EntriesInv(archive, project, assets, met) /\ EntriesInv(sent, project, assets, met)

(* The roots were validated before any of them is archived.                *)
RootList(p, file) == Combined(file[1], p.own[file], file \in p.ignore, p.cli)
LoadedInv ==
  /\ stage = "building" => loaded = DOMAIN project.args
  /\ stage # "failed" =>
       \A i \in loaded : Sees(project, RootList(project, project.args[i]), project.args[i])

(* What runs was made again from what was sent.                            *)
RunInv ==
  /\ ran # {} => stage = "running"
  /\ stage = "running" => \A f \in DOMAIN sent.roots : Valid(sent.roots[f])
  /\ \A r \in ran :
       /\ r.by \in Entries(sent) /\ Valid(r.by) /\ r.id \in DOMAIN r.by.uids
       /\ r.got # Absent =>
            Valid(r.got) /\ \E k \in DOMAIN sent.dep : k[2] = r.id /\ r.got = sent.dep[k]

Inv == TypeInv /\ StackInv /\ ArchivesInv /\ LoadedInv /\ RunInv

-----------------------------------------------------------------------------
(* Files, functions and the stack.                                         *)

LEMMA FilesFacts ==
  /\ \A f \in Files : /\ f = <<f[1], f[2]>> /\ f[1] \in DOMAIN Held
                      /\ f[2] \in Held[f[1]] /\ f[2] \in Ids
  /\ \A d \in DOMAIN Held : \A id \in Held[d] : <<d, id>> \in Files /\ id \in Ids
BY DEF Files, Ids

LEMMA DepsFacts ==
  ASSUME NEW p \in Projects, NEW file \in Files
  PROVE  /\ Len(p.deps[file]) \in Nat /\ DOMAIN p.deps[file] = 1 .. Len(p.deps[file])
         /\ \A i, j \in DOMAIN p.deps[file] : p.deps[file][i].id = p.deps[file][j].id => i = j
<1>1. p.deps[file] \in Seq(ToSet(p.deps[file]))
  BY ProjectsAssumption DEF IsList
<1>2. \A i, j \in DOMAIN p.deps[file] : p.deps[file][i].id = p.deps[file][j].id => i = j
  BY ProjectsAssumption
<1> QED
  BY <1>1, <1>2

LEMMA PartialFacts ==
  ASSUME NEW A, NEW B, NEW f
  PROVE  f \in Partial(A, B) <=> IsPartial(f, A, B)
<1>1. ASSUME f \in Partial(A, B) PROVE IsPartial(f, A, B)
  <2>1. PICK S \in SUBSET A : f \in [S -> B]
    BY <1>1 DEF Partial
  <2>2. DOMAIN f = S
    BY <2>1
  <2> QED
    BY <2>1, <2>2 DEF IsPartial
<1>2. ASSUME IsPartial(f, A, B) PROVE f \in Partial(A, B)
  BY <1>2 DEF IsPartial, Partial
<1> QED
  BY <1>1, <1>2

LEMMA WithFacts ==
  ASSUME NEW f, NEW x, NEW y
  PROVE  /\ DOMAIN With(f, x, y) = DOMAIN f \cup {x}
         /\ With(f, x, y)[x] = y
         /\ \A z \in DOMAIN f : z # x => With(f, x, y)[z] = f[z]
BY DEF With

LEMMA WithType ==
  ASSUME NEW A, NEW B, NEW f, IsPartial(f, A, B), NEW x \in A, NEW y \in B
  PROVE  IsPartial(With(f, x, y), A, B)
BY DEF With, IsPartial

LEMMA StackFacts ==
  ASSUME NEW S, NEW s \in Seq(S), s # <<>>
  PROVE  /\ Len(s) \in Nat \ {0} /\ Last1(s) \in S /\ Last1(s) = s[Len(s)]
         /\ Front(s) \in Seq(S) /\ DOMAIN Front(s) = 1 .. Len(s) - 1
         /\ \A i \in 1 .. Len(s) - 1 : Front(s)[i] = s[i]
<1>1. Len(s) \in Nat \ {0}
  OBVIOUS
<1>2. Last1(s) \in S /\ Last1(s) = s[Len(s)]
  BY <1>1 DEF Last1
<1>3. /\ Front(s) \in Seq(S) /\ Len(Front(s)) = Len(s) - 1
      /\ \A i \in 1 .. Len(s) - 1 : Front(s)[i] = s[i]
  <2>1. PICK n \in Nat : n = Len(s) - 1
    BY <1>1
  <2>2. \A i \in 1 .. n : s[i] \in S
    BY <1>1, <2>1
  <2>3. /\ SubSeq(s, 1, n) \in Seq(S)
        /\ Len(SubSeq(s, 1, n)) = IF 1 <= n THEN n - 1 + 1 ELSE 0
        /\ \A i \in 1 .. n - 1 + 1 : SubSeq(s, 1, n)[i] = s[1 + i - 1]
    BY <2>2, SubSeqProperties
  <2>4. SubSeq(s, 1, n) = Front(s)
    BY <2>1 DEF Front
  <2>5. Front(s) \in Seq(S) /\ Len(Front(s)) = n /\ \A i \in 1 .. n : Front(s)[i] = s[i]
    <3>1. Len(Front(s)) = n
      BY <2>3, <2>4
    <3>2. ASSUME NEW i \in 1 .. n PROVE Front(s)[i] = s[i]
      <4>1. i \in 1 .. n - 1 + 1 /\ 1 + i - 1 = i
        OBVIOUS
      <4> QED
        BY <2>3, <2>4, <4>1
    <3> QED
      BY <2>3, <2>4, <3>1, <3>2
  <2> QED
    BY <2>1, <2>5
<1> QED
  BY <1>1, <1>2, <1>3

(* The frames that are as they should be.                                  *)
Framed(p, written, known) == {frame \in Frames(p) : FrameInv(frame, p, written, known)}

LEMMA SeqOfMore ==
  ASSUME NEW S, NEW T, S \subseteq T, NEW s \in Seq(S)
  PROVE  s \in Seq(T)
OBVIOUS

LEMMA StackFramed ==
  ASSUME stack \in Seq(Frames(project)), StackInv
  PROVE  stack \in Seq(Framed(project, assets, met))
<1>1. \A i \in 1 .. Len(stack) : stack[i] \in Framed(project, assets, met)
  BY DEF StackInv, Framed
<1> QED
  BY <1>1

LEMMA FramedSeq ==
  ASSUME NEW p, NEW written, NEW known, NEW s \in Seq(Framed(p, written, known))
  PROVE  /\ s \in Seq(Frames(p))
         /\ \A i \in DOMAIN s : FrameInv(s[i], p, written, known)
<1>1. Framed(p, written, known) \subseteq Frames(p)
  BY DEF Framed
<1>2. \A i \in DOMAIN s : s[i] \in Framed(p, written, known)
  OBVIOUS
<1> QED
  BY <1>1, <1>2, SeqOfMore DEF Framed

LEMMA PushFacts ==
  ASSUME NEW S, NEW s \in Seq(S), s # <<>>, NEW x \in S, NEW y \in S
  PROVE  /\ Append(Front(s) \o <<x>>, y) \in Seq(S)
         /\ DOMAIN Append(Front(s) \o <<x>>, y) = 1 .. Len(s) + 1
         /\ \A i \in 1 .. Len(s) + 1 :
              Append(Front(s) \o <<x>>, y)[i]
                = IF i < Len(s) THEN s[i] ELSE IF i = Len(s) THEN x ELSE y
<1>1. /\ Len(s) \in Nat \ {0} /\ Front(s) \in Seq(S)
      /\ Len(Front(s)) = Len(s) - 1 /\ \A i \in 1 .. Len(s) - 1 : Front(s)[i] = s[i]
  <2>1. /\ Len(s) \in Nat \ {0} /\ Front(s) \in Seq(S) /\ DOMAIN Front(s) = 1 .. Len(s) - 1
        /\ \A i \in 1 .. Len(s) - 1 : Front(s)[i] = s[i]
    BY StackFacts
  <2> QED
    BY <2>1
<1>2. \A t \in Seq(S) : t \o <<x>> \in Seq(S)
  OBVIOUS
<1>3. PICK u \in Seq(S) : u = Front(s) \o <<x>>
  BY <1>1, <1>2
<1>4. Len(u) = Len(s) /\ \A i \in 1 .. Len(s) : u[i] = IF i < Len(s) THEN s[i] ELSE x
  BY <1>1, <1>3
<1>5. /\ Append(u, y) \in Seq(S) /\ Len(Append(u, y)) = Len(s) + 1
      /\ \A i \in 1 .. Len(s) : Append(u, y)[i] = u[i]
      /\ Append(u, y)[Len(s) + 1] = y
  BY <1>4
<1>6. DOMAIN Append(u, y) = 1 .. Len(s) + 1
  BY <1>5
<1> QED
  BY <1>1, <1>3, <1>4, <1>5, <1>6

LEMMA ValidatedSees ==
  ASSUME NEW p \in Projects, NEW file \in Files, NEW list \in Seq(Usable(p)),
         NEW clone, ClonesOf(p, clone),
         NEW v, v = ValidateDependencies(list, p.deps[file], clone)
  PROVE  v.ok \in BOOLEAN /\ ClonesOf(p, v.clones) /\ (v.ok = TRUE => Sees(p, list, file))
<1> DEFINE deps == p.deps[file]
<1>1. Len(deps) \in Nat /\ DOMAIN deps = 1 .. Len(deps)
  BY DepsFacts
<1> HIDE DEF deps
<1>2. /\ v.ok \in BOOLEAN /\ ClonesOf(p, v.clones)
      /\ Apart(p) /\ v.ok = TRUE =>
           \A i \in 1 .. Len(deps) : Search(list, deps[i].id, deps[i].from, <<>>).via # NoSource
  <2>1. v = ValidateDependencies(list, deps, clone)
    BY DEF deps
  <2> QED
    BY <1>1, <2>1, ValidationFacts
<1> QED
  BY <1>1, <1>2 DEF Sees, deps

-----------------------------------------------------------------------------
(* What a step leaves as it was.                                           *)

Grown(w1, w2) == \A i \in DOMAIN w1 : i \in DOMAIN w2 /\ w2[i] = w1[i]

LEMMA FrameStays ==
  ASSUME NEW p, NEW w1, NEW w2, NEW m1, NEW m2, Grown(w1, w2), m1 \subseteq m2,
         NEW frame, FrameInv(frame, p, w1, m1)
  PROVE  FrameInv(frame, p, w2, m2)
BY DEF FrameInv, HasOwn, Meant, Grown

LEMMA EntriesStay ==
  ASSUME NEW p, NEW w1, NEW w2, NEW m1, NEW m2, Grown(w1, w2), m1 \subseteq m2,
         NEW a, EntriesInv(a, p, w1, m1)
  PROVE  EntriesInv(a, p, w2, m2)
<1>1. ASSUME NEW e, EntryInv(e, p, w1, m1) PROVE EntryInv(e, p, w2, m2)
  BY <1>1 DEF EntryInv, HasOwn, Meant, Grown
<1> QED
  BY <1>1 DEF EntriesInv

LEMMA GrownFacts == \A w : Grown(w, w)
BY DEF Grown

(* Nothing runs before the agent has instantiated the roots.               *)
LEMMA NotRunning ==
  ASSUME RunInv, stage # "running", stage' # "running", UNCHANGED ran
  PROVE  RunInv'
<1>1. ran = {} /\ ran' = {}
  BY DEF RunInv
<1> QED
  BY <1>1 DEF RunInv

(* What is on the stack after a step is as it should be.                   *)
LEMMA FramedStack ==
  ASSUME UNCHANGED project, stack' \in Seq(Framed(project, assets', met'))
  PROVE  stack' \in Seq(Frames(project')) /\ StackInv'
<1>1. PICK s \in Seq(Framed(project, assets', met')) : s = stack'
  OBVIOUS
<1>2. s \in Seq(Frames(project)) /\ \A i \in DOMAIN s : FrameInv(s[i], project, assets', met')
  BY <1>1, FramedSeq
<1> QED
  BY <1>1, <1>2 DEF StackInv

LEMMA StagesFacts ==
  /\ Stages = {"failed", "exhausted", "running", "refused", "loading", "building", "created",
               "collecting", "sent"}
BY DEF Stages, Final

LEMMA InitInv == Init => Inv
<1> SUFFICES ASSUME Init PROVE Inv
  OBVIOUS
<1> USE DEF Init
<1>1. IsArchive(NoArchive)
  <2>1. IsPartial(<<>>, Files, EntrySet) /\ IsPartial(<<>>, Paths \X Ids, EntrySet)
    BY DEF IsPartial
  <2> QED
    BY <2>1 DEF IsArchive, NoArchive
<1>2. ClonesOf(project, clones)
  BY DEF ClonesOf
<1>3. TypeInv
  <2>1. IsFiniteSet(DOMAIN NoArchive.roots)
    <3>1. DOMAIN NoArchive.roots = {}
      BY DEF NoArchive
    <3> QED
      BY <3>1, FS_EmptySet
  <2> QED
    BY <1>1, <1>2, <2>1, StagesFacts DEF TypeInv
<1>4. EntriesInv(NoArchive, project, assets, met)
  BY DEF EntriesInv, NoArchive
<1>5. StackInv /\ LoadedInv /\ RunInv
  BY DEF StackInv, LoadedInv, RunInv
<1> QED
  BY <1>3, <1>4, <1>5 DEF Inv, ArchivesInv

LEMMA ArgsFacts ==
  ASSUME NEW p \in Projects
  PROVE  /\ p.args \in Seq(Files) /\ Len(p.args) \in Nat /\ DOMAIN p.args = 1 .. Len(p.args)
         /\ \A i \in DOMAIN p.args : p.args[i] \in Files
         /\ p.cli \in Seq(Usable(p))
<1>1. p.args \in Seq(Files)
  BY ProjectsAssumption
<1>2. p.cli \in Seq(ToSet(p.cli))
  BY ProjectsAssumption DEF IsList
<1>3. p.cli \in Seq(Usable(p))
  <2>1. ToSet(p.cli) \subseteq Usable(p)
    BY DEF Usable
  <2>2. \A S, T, s : S \subseteq T /\ s \in Seq(S) => s \in Seq(T)
    OBVIOUS
  <2> QED
    BY <1>2, <2>1, <2>2
<1> QED
  BY <1>1, <1>3

LEMMA RecipeFacts ==
  ASSUME project \in Projects, NEW file \in Files, NEW via \in Vias(project) \cup {NoSource},
         NEW context \in Seq(Usable(project))
  PROVE  /\ Recipe(file, via, context) \in Recipes(project)
         /\ Recipe(file, via, context).file = file /\ Recipe(file, via, context).via = via
<1>1. Combined(file[1], project.own[file], file \in project.ignore, context)
        \in Seq(Usable(project))
  <2>1. file[1] \in DOMAIN Held
    BY FilesFacts
  <2> QED
    BY <2>1, CombinedFacts
<1> QED
  BY <1>1 DEF Recipe, Recipes

-----------------------------------------------------------------------------
(* Roots are loaded.                                                       *)

LEMMA LoadRootInv ==
  ASSUME Inv, NEW i \in DOMAIN project.args, LoadRoot(i)
  PROVE  Inv'
<1> DEFINE file == project.args[i]
           list == RootList(project, file)
<1>0. TypeInv /\ StackInv /\ ArchivesInv /\ LoadedInv /\ RunInv
  BY DEF Inv
<1>1. PICK v : /\ v = ValidateDependencies(list, project.deps[file], clones)
               /\ clones' = v.clones /\ stage' = IF v.ok THEN "loading" ELSE "failed"
  <2>1. Recipe(file, NoSource, project.cli).list = list /\ Recipe(file, NoSource, project.cli).file = file
    BY DEF Recipe, RootList
  <2> QED
    BY <2>1 DEF LoadRoot, Deps
<1>2. /\ stage = "loading" /\ loaded' = loaded \cup {i}
      /\ UNCHANGED <<project, stack, assets, archive, met, sent, chain, ran>>
  BY DEF LoadRoot
<1>3. project \in Projects /\ file \in Files /\ project.cli \in Seq(Usable(project))
  BY <1>0, ArgsFacts DEF TypeInv
<1>4. list \in Seq(Usable(project))
  <2>1. file[1] \in DOMAIN Held
    BY <1>3, FilesFacts
  <2> QED
    BY <1>3, <2>1, CombinedFacts DEF RootList
<1>5. ClonesOf(project, clones)
  BY <1>0 DEF TypeInv
<1>6. /\ v.ok \in BOOLEAN /\ ClonesOf(project, clones')
      /\ stage' = "loading" => Sees(project, list, file)
  BY <1>1, <1>3, <1>4, <1>5, ValidatedSees
<1> HIDE DEF list, file
<1>7. TypeInv'
  <2>1. stage' \in Stages
    BY <1>1, StagesFacts
  <2>2. loaded' \subseteq DOMAIN project'.args
    BY <1>0, <1>2 DEF TypeInv
  <2>3. ClonesOf(project', clones')
    BY <1>2, <1>6
  <2> QED
    BY <1>0, <1>2, <2>1, <2>2, <2>3 DEF TypeInv
<1>8. StackInv' /\ ArchivesInv'
  BY <1>0, <1>2 DEF StackInv, ArchivesInv
<1>9. LoadedInv'
  <2>1. stage' # "building" /\ (stage' # "failed" => stage' = "loading")
    BY <1>1
  <2>2. ASSUME stage' # "failed", NEW j \in loaded'
        PROVE  Sees(project', RootList(project', project'.args[j]), project'.args[j])
    <3>1. CASE j \in loaded
      BY <1>0, <1>2, <3>1 DEF LoadedInv
    <3>2. CASE j = i
      BY <1>2, <1>6, <2>1, <2>2, <3>2 DEF list, file
    <3> QED
      BY <1>2, <3>1, <3>2
  <2> QED
    BY <2>1, <2>2 DEF LoadedInv
<1>10. RunInv'
  <2>1. stage # "running" /\ stage' # "running"
    BY <1>1, <1>2
  <2> QED
    BY <1>0, <1>2, <2>1, NotRunning
<1> QED
  BY <1>7, <1>8, <1>9, <1>10 DEF Inv

LEMMA BeginBuildInv ==
  ASSUME Inv, BeginBuild
  PROVE  Inv'
<1> USE DEF BeginBuild
<1>1. TypeInv'
  BY StagesFacts DEF Inv, TypeInv
<1>2. StackInv' /\ ArchivesInv'
  BY DEF Inv, StackInv, ArchivesInv
<1>3. LoadedInv'
  BY DEF Inv, LoadedInv
<1>4. RunInv'
  BY NotRunning DEF Inv
<1> QED
  BY <1>1, <1>2, <1>3, <1>4 DEF Inv

-----------------------------------------------------------------------------
(* Roots and dependencies are archived.                                    *)

LEMMA PackFacts ==
  ASSUME assets \in Seq(DOMAIN Held), NEW dir \in DOMAIN Held, Pack(dir)
  PROVE  /\ assets' \in Seq(DOMAIN Held) /\ Grown(assets, assets')
         /\ dir \in Packed =>
              IndexOf(assets', dir) \in DOMAIN assets' /\ assets'[IndexOf(assets', dir)] = dir
         /\ UNCHANGED <<project, loaded, sent, chain, ran>>
<1>1. /\ assets' = IF dir \in Packed \ ToSet(assets) THEN Append(assets, dir) ELSE assets
      /\ UNCHANGED <<project, loaded, sent, chain, ran>>
  BY DEF Pack
<1>2. CASE dir \in Packed \ ToSet(assets)
  <2>1. /\ assets' \in Seq(DOMAIN Held) /\ Len(assets') = Len(assets) + 1
        /\ \A i \in 1 .. Len(assets) : assets'[i] = assets[i]
        /\ assets'[Len(assets) + 1] = dir
    BY <1>1, <1>2
  <2>2. DOMAIN assets = 1 .. Len(assets) /\ DOMAIN assets' = 1 .. Len(assets')
    BY <2>1
  <2>3. Grown(assets, assets')
    BY <2>1, <2>2 DEF Grown
  <2>4. \E i \in DOMAIN assets' : assets'[i] = dir
    BY <2>1, <2>2
  <2>5. dir \in ToSet(assets')
    BY <2>4 DEF ToSet
  <2> QED
    BY <1>1, <2>1, <2>3, <2>4, <2>5 DEF IndexOf
<1>3. CASE dir \notin Packed \ ToSet(assets)
  <2>1. assets' = assets
    BY <1>1, <1>3
  <2>2. dir \in Packed => dir \in ToSet(assets') /\ \E i \in DOMAIN assets' : assets'[i] = dir
    BY <1>3, <2>1 DEF ToSet
  <2> QED
    BY <1>1, <2>1, <2>2, GrownFacts DEF IndexOf
<1> QED
  BY <1>2, <1>3

(* A recipe that begins to be archived.                                    *)
LEMMA FrameFacts ==
  ASSUME project \in Projects, assets \in Seq(DOMAIN Held), NEW recipe \in Recipes(project),
         NEW trusted \in BOOLEAN, NEW context \in Seq(Usable(project)), NEW path \in Seq(BOOLEAN),
         NEW known, Pack(recipe.file[1]),
         recipe.via # NoSource => <<UniqueId(recipe.via), recipe.file[1]>> \in known,
         TrustedBy(project, trusted, path), Sees(project, recipe.list, recipe.file)
  PROVE  /\ Frame(recipe, trusted, context, path) \in Frames(project)
         /\ FrameInv(Frame(recipe, trusted, context, path), project, assets', known)
<1> DEFINE place == IF recipe.file[1] \in Packed THEN IndexOf(assets', recipe.file[1]) ELSE 0
           frame == Frame(recipe, trusted, context, path)
<1>1. recipe.file \in Files /\ recipe.file[1] \in DOMAIN Held
  BY FilesFacts DEF Recipes
<1>2. /\ assets' \in Seq(DOMAIN Held)
      /\ recipe.file[1] \in Packed =>
           /\ IndexOf(assets', recipe.file[1]) \in DOMAIN assets'
           /\ assets'[IndexOf(assets', recipe.file[1])] = recipe.file[1]
  BY <1>1, PackFacts
<1>3. DOMAIN assets' \subseteq Nat
  BY <1>2
<1>4. place \in Nat
  BY <1>2, <1>3
<1>5. frame = [recipe |-> recipe, next |-> 1, trusted |-> trusted, context |-> context,
               path |-> path, uids |-> <<>>, found |-> <<>>, assets |-> place]
  BY DEF Frame
<1>6. HasOwn(recipe.file, place, assets')
  BY <1>2 DEF HasOwn
<1> HIDE DEF place, frame
<1>7. <<>> \in Partial(Ids, Paths) /\ <<>> \in Partial(Ids, Files)
  <2>1. IsPartial(<<>>, Ids, Paths) /\ IsPartial(<<>>, Ids, Files)
    BY DEF IsPartial
  <2> QED
    BY <2>1, PartialFacts
<1>8. frame \in Frames(project)
  BY <1>4, <1>5, <1>7 DEF Frames
<1>9. Meant(<<>>, <<>>, known) /\ FindsAsSeen(project, recipe.list, recipe.file, <<>>)
  BY DEF Meant, FindsAsSeen
<1>10. FrameInv(frame, project, assets', known)
  <2>1. /\ frame.recipe = recipe /\ frame.trusted = trusted /\ frame.path = path
        /\ frame.uids = <<>> /\ frame.found = <<>> /\ frame.assets = place
    BY <1>5
  <2> QED
    BY <1>6, <1>9, <2>1 DEF FrameInv
<1> QED
  BY <1>8, <1>10 DEF frame

LEMMA BeginRootInv ==
  ASSUME Inv, BeginRoot
  PROVE  Inv'
<1>0. TypeInv /\ StackInv /\ ArchivesInv /\ LoadedInv /\ RunInv
  BY DEF Inv
<1>1. PICK file : /\ file = project.args[Cardinality(DOMAIN archive.roots) + 1]
                  /\ Pack(file[1])
                  /\ stack' = <<Frame(Recipe(file, NoSource, project.cli), TRUE, project.cli, <<>>)>>
  BY DEF BeginRoot
<1>2. /\ stage = "building" /\ stack = <<>>
      /\ Cardinality(DOMAIN archive.roots) < Len(project.args)
      /\ UNCHANGED <<stage, clones, archive, met>>
  BY DEF BeginRoot
<1>3. project \in Projects /\ assets \in Seq(DOMAIN Held)
  BY <1>0 DEF TypeInv
<1>4. Cardinality(DOMAIN archive.roots) \in Nat
  BY <1>0, FS_CardinalityType DEF TypeInv
<1>5. PICK i \in DOMAIN project.args : file = project.args[i]
  BY <1>1, <1>2, <1>3, <1>4, ArgsFacts
<1>6. file \in Files /\ file[1] \in DOMAIN Held /\ project.cli \in Seq(Usable(project))
  BY <1>3, <1>5, ArgsFacts, FilesFacts
<1>7. Sees(project, RootList(project, file), file)
  <2>1. i \in loaded
    BY <1>0, <1>2 DEF LoadedInv
  <2> QED
    BY <1>0, <1>2, <1>5, <2>1 DEF LoadedInv
<1> DEFINE recipe == Recipe(file, NoSource, project.cli)
           frame == Frame(recipe, TRUE, project.cli, <<>>)
<1>8. /\ recipe \in Recipes(project) /\ recipe.file = file /\ recipe.via = NoSource
      /\ recipe.list = RootList(project, file)
  <2>1. recipe \in Recipes(project) /\ recipe.file = file /\ recipe.via = NoSource
    BY <1>3, <1>6, RecipeFacts
  <2>2. recipe.list = RootList(project, file)
    BY DEF Recipe, RootList
  <2> QED
    BY <2>1, <2>2
<1>9. /\ assets' \in Seq(DOMAIN Held) /\ Grown(assets, assets')
      /\ UNCHANGED <<project, loaded, sent, chain, ran>>
  BY <1>1, <1>3, <1>6, PackFacts
<1>10. frame \in Frames(project) /\ FrameInv(frame, project, assets', met)
  <2>1. TrustedBy(project, TRUE, <<>>)
    BY DEF TrustedBy
  <2>2. <<>> \in Seq(BOOLEAN) /\ TRUE \in BOOLEAN
    OBVIOUS
  <2> HIDE DEF recipe
  <2> QED
    BY <1>1, <1>3, <1>6, <1>7, <1>8, <2>1, <2>2, FrameFacts
<1>11. stack' = <<frame>>
  BY <1>1
<1> HIDE DEF frame, recipe
<1>12. TypeInv'
  <2>1. stack' \in Seq(Frames(project'))
    BY <1>9, <1>10, <1>11
  <2> QED
    BY <1>0, <1>2, <1>9, <2>1 DEF TypeInv
<1>13. StackInv'
  <2>1. DOMAIN stack' = {1} /\ stack'[1] = frame
    BY <1>11
  <2> QED
    BY <1>2, <1>9, <1>10, <2>1 DEF StackInv
<1>14. ArchivesInv'
  BY <1>0, <1>2, <1>9, EntriesStay DEF ArchivesInv
<1>15. LoadedInv'
  BY <1>0, <1>2, <1>9 DEF LoadedInv
<1>16. RunInv'
  BY <1>0, <1>2, <1>9, NotRunning
<1> QED
  BY <1>12, <1>13, <1>14, <1>15, <1>16 DEF Inv

LEMMA FailInv ==
  ASSUME Inv, NEW how \in {"failed", "exhausted"}, stage = "building", Fail(how)
  PROVE  Inv'
<1> USE DEF Fail
<1>1. TypeInv'
  BY StagesFacts DEF Inv, TypeInv
<1>2. StackInv' /\ ArchivesInv'
  BY DEF Inv, StackInv, ArchivesInv
<1>3. LoadedInv'
  BY DEF Inv, LoadedInv
<1>4. RunInv'
  BY NotRunning DEF Inv
<1> QED
  BY <1>1, <1>2, <1>3, <1>4 DEF Inv

(* The recipe for which a dependency was found.                            *)
Caller(frame, id, uid, file) ==
  [frame EXCEPT !.next = @ + 1, !.uids = With(@, id, uid), !.found = With(@, id, file)]

LEMMA CallerFacts ==
  ASSUME NEW p \in Projects, NEW frame \in Frames(p), NEW written, NEW known,
         FrameInv(frame, p, written, known),
         NEW i \in DOMAIN p.deps[frame.recipe.file], NEW id, id = p.deps[frame.recipe.file][i].id,
         NEW uid \in Paths, NEW file \in Files, id \in Ids, file[2] = id,
         <<uid, file[1]>> \in known,
         Apart(p) =>
           file[1] = DirectoryOf(Search(frame.recipe.list, id, p.deps[frame.recipe.file][i].from,
                                        <<>>).via)
  PROVE  /\ Caller(frame, id, uid, file) \in Frames(p)
         /\ FrameInv(Caller(frame, id, uid, file), p, written, known)
<1> DEFINE caller == Caller(frame, id, uid, file)
           uids == With(frame.uids, id, uid)
           found == With(frame.found, id, file)
           own == frame.recipe.file
<1>1. /\ frame.recipe \in Recipes(p) /\ frame.next \in Nat \ {0}
      /\ frame.uids \in Partial(Ids, Paths) /\ frame.found \in Partial(Ids, Files)
      /\ own \in Files
  BY DEF Frames, Recipes
<1>2. uids \in Partial(Ids, Paths) /\ found \in Partial(Ids, Files)
  <2>1. IsPartial(frame.uids, Ids, Paths) /\ IsPartial(frame.found, Ids, Files)
    BY <1>1, PartialFacts
  <2>2. IsPartial(uids, Ids, Paths) /\ IsPartial(found, Ids, Files)
    BY <2>1, WithType
  <2> QED
    BY <2>2, PartialFacts
<1>3. /\ DOMAIN uids = DOMAIN frame.uids \cup {id} /\ DOMAIN found = DOMAIN frame.found \cup {id}
      /\ uids[id] = uid /\ found[id] = file
      /\ \A x \in DOMAIN frame.uids : x # id => uids[x] = frame.uids[x]
      /\ \A x \in DOMAIN frame.found : x # id => found[x] = frame.found[x]
  BY DEF With
<1> HIDE DEF uids, found
<1>4. caller = [frame EXCEPT !.next = frame.next + 1, !.uids = uids, !.found = found]
  BY DEF Caller, uids, found
<1> HIDE DEF caller
<1>5. caller \in Frames(p)
  <2>1. frame.next + 1 \in Nat \ {0}
    BY <1>1
  <2> QED
    BY <1>2, <1>4, <2>1 DEF Frames
<1>6. /\ caller.recipe = frame.recipe /\ caller.assets = frame.assets
      /\ caller.trusted = frame.trusted /\ caller.path = frame.path
      /\ caller.uids = uids /\ caller.found = found
  BY <1>4 DEF Frames
<1>7. Meant(uids, found, known)
  BY <1>3 DEF FrameInv, Meant
<1>8. FindsAsSeen(p, frame.recipe.list, own, found)
  <2> SUFFICES ASSUME Apart(p), NEW j \in DOMAIN p.deps[own], p.deps[own][j].id \in DOMAIN found
               PROVE  found[p.deps[own][j].id][1]
                        = DirectoryOf(Search(frame.recipe.list, p.deps[own][j].id,
                                             p.deps[own][j].from, <<>>).via)
    BY DEF FindsAsSeen
  <2>1. CASE p.deps[own][j].id = id
    <3>1. j = i
      BY <1>1, <2>1, DepsFacts
    <3> QED
      BY <1>3, <2>1, <3>1
  <2>2. CASE p.deps[own][j].id # id
    BY <1>3, <2>2 DEF FrameInv, FindsAsSeen
  <2> QED
    BY <2>1, <2>2
<1>9. FrameInv(caller, p, written, known)
  BY <1>6, <1>7, <1>8 DEF FrameInv
<1> QED
  BY <1>5, <1>9 DEF caller

(* A dependency is archived after it was found and validated.              *)
LEMMA DescendInv ==
  ASSUME Inv, Pending, NEW f, NEW child, NEW v,
         f = Search(Visible, Wanted.id, Wanted.from, clones), f.via # NoSource,
         child = Recipe(<<DirectoryOf(f.via), Wanted.id>>, f.via, Propagated(Visible)),
         v = ValidateDependencies(child.list, Deps(child.file), f.clones), v.ok = TRUE,
         clones' = v.clones, Descend(child, Visible, Declared(Visible, Wanted))
  PROVE  Inv'
<1>0. TypeInv /\ StackInv /\ ArchivesInv /\ LoadedInv /\ RunInv
  BY DEF Inv
<1>1. /\ project \in Projects /\ assets \in Seq(DOMAIN Held) /\ stack \in Seq(Frames(project))
      /\ ClonesOf(project, clones)
  BY <1>0 DEF TypeInv
<1>2. stage = "building" /\ stack # <<>>
  BY DEF Pending
<1>3. PICK top \in Frames(project) :
        top = Top /\ top = stack[Len(stack)] /\ FrameInv(top, project, assets, met)
  <2>1. Len(stack) \in DOMAIN stack /\ Top \in Frames(project) /\ Top = stack[Len(stack)]
    BY <1>1, <1>2, StackFacts DEF Top
  <2> QED
    BY <1>0, <2>1 DEF StackInv
<1> DEFINE own == top.recipe.file
<1>4. /\ top.recipe \in Recipes(project) /\ top.next \in Nat \ {0} /\ top.trusted \in BOOLEAN
      /\ top.context \in Seq(Usable(project)) /\ top.path \in Seq(BOOLEAN)
      /\ own \in Files /\ top.recipe.list \in Seq(Usable(project))
  BY DEF Frames, Recipes
<1>5. PICK i \in DOMAIN project.deps[own] : i = top.next
  <2>1. top.next <= Len(project.deps[own])
    BY <1>3 DEF Pending, Deps
  <2> QED
    BY <1>1, <1>4, <2>1, DepsFacts
<1>6. PICK d : d = project.deps[own][i] /\ d = Wanted
  BY <1>3, <1>5 DEF Wanted, Deps
<1>7. PICK visible \in Seq(Usable(project)) :
        /\ visible = Visible
        /\ \E more \in Seq(Usable(project)) : visible = top.recipe.list \o more
  <2>1. Visible = MergePrepend(top.recipe.list, top.context)
    BY <1>3 DEF Visible
  <2>2. Visible \in Seq(Usable(project))
    BY <1>4, <2>1, MergeFacts
  <2>3. PICK more \in Seq(Usable(project)) :
          MergePrepend(top.recipe.list, top.context) = top.recipe.list \o more
    BY <1>4, MergePrefix
  <2> QED
    BY <2>1, <2>2, <2>3
<1>8. f = Search(visible, d.id, d.from, clones)
  BY <1>6, <1>7
<1>9. PICK s \in Usable(project) :
        /\ s = Candidates(visible, d.from)[Stop(visible, d.id, d.from, clones)]
        /\ Apart(project) => f.via.trusted = s.trusted
  BY <1>1, <1>8, SearchFacts
<1>10. /\ ClonesOf(project, f.clones) /\ f.via \in Vias(project)
       /\ d.id \in Held[DirectoryOf(f.via)]
       /\ Apart(project) => f.via = Search(visible, d.id, d.from, <<>>).via
  BY <1>1, <1>8, SearchFacts
<1>11. /\ DirectoryOf(f.via) \in DOMAIN Held /\ UniqueId(f.via) \in Paths
       /\ f.via.trusted \in BOOLEAN /\ s.trusted \in BOOLEAN
  BY <1>1, <1>9, <1>10, ViaFacts, UsableFacts DEF Placed
<1>12. PICK file \in Files : file = <<DirectoryOf(f.via), d.id>> /\ d.id \in Ids
  BY <1>10, <1>11, FilesFacts
<1>13. file[1] = DirectoryOf(f.via) /\ file[2] = d.id
  BY <1>12
<1>14. Apart(project) => f.via = Search(top.recipe.list, d.id, d.from, <<>>).via
  <2> SUFFICES ASSUME Apart(project)
               PROVE  f.via = Search(top.recipe.list, d.id, d.from, <<>>).via
    OBVIOUS
  <2>1. Search(top.recipe.list, d.id, d.from, <<>>).via # NoSource
    BY <1>3, <1>6 DEF FrameInv, Sees
  <2>2. PICK more \in Seq(Usable(project)) : visible = top.recipe.list \o more
    BY <1>7
  <2>3. Search(visible, d.id, d.from, <<>>).via = Search(top.recipe.list, d.id, d.from, <<>>).via
    BY <1>1, <1>4, <2>1, <2>2, FoundBeforeMore
  <2> QED
    BY <1>10, <2>3
<1>15. /\ child \in Recipes(project) /\ child.file = file /\ child.via = f.via
  <2>1. Propagated(visible) \in Seq(Usable(project))
    BY MergeFacts
  <2>2. child = Recipe(file, f.via, Propagated(visible))
    BY <1>6, <1>7, <1>12
  <2> QED
    BY <1>1, <1>10, <2>1, <2>2, RecipeFacts
<1>16. ClonesOf(project, clones') /\ Sees(project, child.list, file)
  <2>1. child.list \in Seq(Usable(project))
    BY <1>15 DEF Recipes
  <2>2. v = ValidateDependencies(child.list, project.deps[file], f.clones)
    BY <1>15 DEF Deps
  <2> QED
    BY <1>1, <1>10, <2>1, <2>2, ValidatedSees
<1> DEFINE caller == Caller(top, d.id, UniqueId(f.via), file)
           path == Append(top.path, s.trusted)
           trusted == top.trusted /\ f.via.trusted
           frame == Frame(child, trusted, visible, path)
<1>17. /\ Pack(file[1]) /\ stack' = Append(Front(stack) \o <<caller>>, frame)
       /\ met' = met \cup {<<UniqueId(f.via), file[1]>>} /\ UNCHANGED <<stage, archive>>
  <2>1. Declared(Visible, Wanted) = s.trusted
    BY <1>6, <1>7, <1>9 DEF Declared
  <2>2. Trusts(Top, child.via) = trusted
    BY <1>3, <1>15 DEF Trusts
  <2> QED
    BY <1>3, <1>6, <1>7, <1>13, <1>15, <2>1, <2>2 DEF Descend, Caller, Recorded
<1>18. /\ assets' \in Seq(DOMAIN Held) /\ Grown(assets, assets')
       /\ met \subseteq met' /\ UNCHANGED <<project, loaded, sent, chain, ran>>
  BY <1>1, <1>11, <1>13, <1>17, PackFacts
<1>19. caller \in Frames(project) /\ FrameInv(caller, project, assets', met')
  <2>1. FrameInv(top, project, assets', met')
    BY <1>3, <1>18, FrameStays
  <2>2. <<UniqueId(f.via), file[1]>> \in met'
    BY <1>17
  <2>3. Apart(project) => file[1] = DirectoryOf(Search(top.recipe.list, d.id, d.from, <<>>).via)
    BY <1>13, <1>14
  <2>4. /\ i \in DOMAIN project.deps[top.recipe.file] /\ d.id = project.deps[top.recipe.file][i].id
        /\ d.from = project.deps[top.recipe.file][i].from
    BY <1>5, <1>6
  <2>5. Apart(project) =>
          file[1] = DirectoryOf(Search(top.recipe.list, d.id, project.deps[top.recipe.file][i].from,
                                       <<>>).via)
    BY <2>3, <2>4
  <2>6. PICK uid : uid = UniqueId(f.via)
    OBVIOUS
  <2>7. /\ project \in Projects /\ uid \in Paths /\ d.id \in Ids /\ file[2] = d.id
        /\ <<uid, file[1]>> \in met'
    BY <1>1, <1>11, <1>12, <1>13, <2>2, <2>6
  <2>8. caller = Caller(top, d.id, uid, file)
    BY <2>6
  <2> HIDE DEF own, caller, frame, path, trusted
  <2>9. /\ Caller(top, d.id, uid, file) \in Frames(project)
        /\ FrameInv(Caller(top, d.id, uid, file), project, assets', met')
    BY <1>3, <2>1, <2>4, <2>5, <2>7, CallerFacts
  <2> QED
    BY <2>8, <2>9
<1>20. frame \in Frames(project) /\ FrameInv(frame, project, assets', met')
  <2>1. path \in Seq(BOOLEAN) /\ trusted \in BOOLEAN
    BY <1>4, <1>11
  <2>2. TrustedBy(project, trusted, path)
    <3>1. Apart(project) =>
            (top.trusted = TRUE <=> \A j \in DOMAIN top.path : top.path[j] = TRUE)
      BY <1>3 DEF FrameInv, TrustedBy
    <3>2. /\ DOMAIN path = 1 .. Len(top.path) + 1 /\ DOMAIN top.path = 1 .. Len(top.path)
          /\ Len(top.path) \in Nat
          /\ \A j \in 1 .. Len(top.path) : path[j] = top.path[j]
          /\ path[Len(top.path) + 1] = s.trusted
      BY <1>4, <1>11
    <3> HIDE DEF path
    <3>3. (\A j \in DOMAIN path : path[j] = TRUE)
            <=> (\A j \in DOMAIN top.path : top.path[j] = TRUE) /\ s.trusted = TRUE
      BY <3>2
    <3> QED
      BY <1>4, <1>9, <1>11, <3>1, <3>3 DEF TrustedBy
  <2>3. <<UniqueId(child.via), child.file[1]>> \in met'
    BY <1>15, <1>17
  <2> HIDE DEF caller, path, trusted
  <2> QED
    BY <1>1, <1>15, <1>16, <1>17, <2>1, <2>2, <2>3, FrameFacts
<1> HIDE DEF caller, path, trusted, frame
<1>21. stack' \in Seq(Framed(project, assets', met'))
  <2>1. stack \in Seq(Framed(project, assets, met))
    BY <1>0, <1>1, StackFramed
  <2>2. Framed(project, assets, met) \subseteq Framed(project, assets', met')
    BY <1>18, FrameStays DEF Framed
  <2>3. stack \in Seq(Framed(project, assets', met'))
    BY <2>1, <2>2, SeqOfMore
  <2>4. caller \in Framed(project, assets', met') /\ frame \in Framed(project, assets', met')
    BY <1>19, <1>20 DEF Framed
  <2> QED
    BY <1>2, <1>17, <2>3, <2>4, PushFacts
<1>22. stack' \in Seq(Frames(project')) /\ StackInv'
  BY <1>18, <1>21, FramedStack
<1>23. TypeInv'
  BY <1>0, <1>16, <1>17, <1>18, <1>22 DEF TypeInv
<1>24. ArchivesInv'
  BY <1>0, <1>17, <1>18, EntriesStay DEF ArchivesInv
<1>25. LoadedInv'
  BY <1>0, <1>17, <1>18 DEF LoadedInv
<1>26. RunInv'
  BY <1>0, <1>2, <1>17, <1>18, NotRunning
<1> QED
  BY <1>22, <1>23, <1>24, <1>25, <1>26 DEF Inv

LEMMA DependInv ==
  ASSUME Inv, Depend
  PROVE  Inv'
<1>0. Pending /\ stage = "building"
  BY DEF Depend, Pending
<1>1. PICK f : f = Search(Visible, Wanted.id, Wanted.from, clones)
  OBVIOUS
<1>2. PICK child : child = Recipe(<<DirectoryOf(f.via), Wanted.id>>, f.via, Propagated(Visible))
  OBVIOUS
<1>3. PICK v : v = ValidateDependencies(child.list, Deps(child.file), f.clones)
  OBVIOUS
<1>4. \/ Fail("failed")
      \/ /\ f.via # NoSource /\ v.ok = TRUE /\ clones' = v.clones
         /\ Descend(child, Visible, Declared(Visible, Wanted))
  BY <1>1, <1>2, <1>3 DEF Depend
<1> QED
  BY <1>0, <1>1, <1>2, <1>3, <1>4, FailInv, DescendInv

LEMMA ExhaustInv ==
  ASSUME Inv, Exhaust
  PROVE  Inv'
BY FailInv DEF Exhaust, Pending

-----------------------------------------------------------------------------
(* Recipes enter an archive.                                               *)

(* An archive with another dependency.                                     *)
Added(a, key, e) ==
  [a EXCEPT !.dep = With(@, key, e),
            !.order = IF key[1] \in ToSet(@) THEN @ ELSE Append(@, key[1])]

LEMMA DependencyAdded ==
  ASSUME NEW a, IsArchive(a), NEW p, NEW written, NEW known, EntriesInv(a, p, written, known),
         NEW key \in Paths \X Ids, NEW e \in EntrySet, EntryInv(e, p, written, known),
         e.file[2] = key[2], <<key[1], e.file[1]>> \in known
  PROVE  /\ IsArchive(Added(a, key, e)) /\ EntriesInv(Added(a, key, e), p, written, known)
         /\ Added(a, key, e).roots = a.roots
<1>1. /\ a = [roots |-> a.roots, dep |-> a.dep, order |-> a.order]
      /\ IsPartial(a.roots, Files, EntrySet) /\ IsPartial(a.dep, Paths \X Ids, EntrySet)
      /\ a.order \in Seq(Paths)
  BY DEF IsArchive
<1> DEFINE b == Added(a, key, e)
           dep == With(a.dep, key, e)
           order == IF key[1] \in ToSet(a.order) THEN a.order ELSE Append(a.order, key[1])
<1>2. b = [roots |-> a.roots, dep |-> dep, order |-> order]
  <2>1. b = [a EXCEPT !.dep = dep, !.order = order]
    BY DEF Added
  <2> HIDE DEF b, dep, order
  <2> QED
    BY <1>1, <2>1
<1>3. IsPartial(dep, Paths \X Ids, EntrySet)
  BY <1>1, WithType
<1>4. order \in Seq(Paths)
  <2>1. key[1] \in Paths
    OBVIOUS
  <2>2. \A x \in Paths : Append(a.order, x) \in Seq(Paths)
    BY <1>1
  <2> QED
    BY <1>1, <2>1, <2>2
<1>5. /\ DOMAIN dep = DOMAIN a.dep \cup {key} /\ dep[key] = e
      /\ \A k \in DOMAIN a.dep : k # key => dep[k] = a.dep[k]
  BY DEF With
<1> HIDE DEF b, dep, order
<1>6. b.roots = a.roots /\ b.dep = dep /\ b.order = order
  BY <1>2
<1>7. IsArchive(b)
  BY <1>1, <1>2, <1>3, <1>4, <1>6 DEF IsArchive
<1>8. ASSUME NEW k \in DOMAIN b.dep
      PROVE  /\ EntryInv(b.dep[k], p, written, known)
             /\ b.dep[k].file[2] = k[2] /\ <<k[1], b.dep[k].file[1]>> \in known
  <2>1. CASE k = key
    BY <1>5, <1>6, <2>1
  <2>2. CASE k # key
    BY <1>5, <1>6, <2>2 DEF EntriesInv
  <2> QED
    BY <2>1, <2>2
<1>9. EntriesInv(b, p, written, known)
  BY <1>6, <1>8 DEF EntriesInv
<1> QED
  BY <1>6, <1>7, <1>9 DEF b

LEMMA RootAdded ==
  ASSUME NEW a, IsArchive(a), IsFiniteSet(DOMAIN a.roots),
         NEW p, NEW written, NEW known, EntriesInv(a, p, written, known),
         NEW file \in Files, NEW e \in EntrySet, EntryInv(e, p, written, known),
         NEW b, b = [a EXCEPT !.roots = With(@, file, e)]
  PROVE  IsArchive(b) /\ IsFiniteSet(DOMAIN b.roots) /\ EntriesInv(b, p, written, known)
<1>1. /\ a = [roots |-> a.roots, dep |-> a.dep, order |-> a.order]
      /\ IsPartial(a.roots, Files, EntrySet) /\ IsPartial(a.dep, Paths \X Ids, EntrySet)
      /\ a.order \in Seq(Paths)
  BY DEF IsArchive
<1> DEFINE roots == With(a.roots, file, e)
<1>2. b = [roots |-> roots, dep |-> a.dep, order |-> a.order]
  BY <1>1
<1>3. IsPartial(roots, Files, EntrySet)
  BY <1>1, WithType
<1>4. /\ DOMAIN roots = DOMAIN a.roots \cup {file} /\ roots[file] = e
      /\ \A f \in DOMAIN a.roots : f # file => roots[f] = a.roots[f]
  BY DEF With
<1> HIDE DEF roots
<1>5. b.roots = roots /\ b.dep = a.dep /\ b.order = a.order
  BY <1>2
<1>6. IsArchive(b)
  BY <1>1, <1>2, <1>3, <1>5 DEF IsArchive
<1>7. IsFiniteSet(DOMAIN b.roots)
  BY <1>4, <1>5, FS_AddElement
<1>8. ASSUME NEW f \in DOMAIN b.roots PROVE EntryInv(b.roots[f], p, written, known)
  <2>1. CASE f = file
    BY <1>4, <1>5, <2>1
  <2>2. CASE f # file
    BY <1>4, <1>5, <2>2 DEF EntriesInv
  <2> QED
    BY <2>1, <2>2
<1>9. EntriesInv(b, p, written, known)
  BY <1>5, <1>8 DEF EntriesInv
<1> QED
  BY <1>6, <1>7, <1>9

LEMMA LoadedStays ==
  ASSUME LoadedInv, UNCHANGED <<project, loaded>>, stage # "failed",
         stage' = "building" => stage = "building"
  PROVE  LoadedInv'
BY DEF LoadedInv

LEMMA StoreInv ==
  ASSUME Inv, Store
  PROVE  Inv'
<1>0. TypeInv /\ StackInv /\ ArchivesInv /\ LoadedInv /\ RunInv
  BY DEF Inv
<1>1. /\ stage = "building" /\ stack # <<>> /\ stack' = Front(stack)
      /\ UNCHANGED <<project, loaded, clones, assets, met, sent, chain, ran>>
  BY DEF Store
<1>2. /\ stack \in Seq(Frames(project)) /\ IsArchive(archive) /\ IsFiniteSet(DOMAIN archive.roots)
      /\ EntriesInv(archive, project, assets, met)
  BY <1>0 DEF TypeInv, ArchivesInv
<1>3. PICK top \in Frames(project) : top = Top /\ FrameInv(top, project, assets, met)
  <2>1. Len(stack) \in DOMAIN stack /\ Top \in Frames(project) /\ Top = stack[Len(stack)]
    BY <1>1, <1>2, StackFacts DEF Top
  <2> QED
    BY <1>0, <2>1 DEF StackInv
<1>4. /\ top.recipe \in Recipes(project) /\ top.recipe.file \in Files
      /\ top.recipe.via \in Vias(project) \cup {NoSource}
  BY DEF Frames, Recipes
<1> DEFINE e == Entry(top)
<1>5. e \in EntrySet /\ e.file = top.recipe.file /\ EntryInv(e, project, assets, met)
  <2>1. e = [file |-> top.recipe.file, vars |-> top.trusted, path |-> top.path,
             uids |-> top.uids, found |-> top.found, assets |-> top.assets]
    BY DEF Entry
  <2>2. /\ top.trusted \in BOOLEAN /\ top.path \in Seq(BOOLEAN) /\ top.assets \in Nat
        /\ top.uids \in Partial(Ids, Paths) /\ top.found \in Partial(Ids, Files)
    BY DEF Frames
  <2> HIDE DEF e
  <2>3. e \in EntrySet
    BY <1>4, <2>1, <2>2 DEF EntrySet
  <2>4. /\ e.file = top.recipe.file /\ e.vars = top.trusted /\ e.path = top.path
        /\ e.uids = top.uids /\ e.found = top.found /\ e.assets = top.assets
    BY <2>1
  <2> QED
    BY <1>3, <2>3, <2>4 DEF EntryInv, FrameInv
<1> HIDE DEF e
<1>6. /\ IsArchive(archive') /\ IsFiniteSet(DOMAIN archive'.roots)
      /\ EntriesInv(archive', project, assets, met) /\ stage' \in {"building", "failed"}
  <2>1. CASE top.recipe.via # NoSource
    <3> DEFINE key == <<UniqueId(top.recipe.via), top.recipe.file[2]>>
    <3>1. StoreDependency(top) /\ UNCHANGED stage
      BY <1>3, <2>1 DEF Store
    <3>2. archive' = Added(archive, key, e)
      BY <3>1 DEF StoreDependency, Added, e
    <3>3. key \in Paths \X Ids /\ key[1] = UniqueId(top.recipe.via) /\ key[2] = e.file[2]
      <4>1. UniqueId(top.recipe.via) \in Paths
        BY <1>0, <1>4, <2>1, ViaFacts DEF TypeInv
      <4>2. top.recipe.file[2] \in Ids
        BY <1>4, FilesFacts
      <4> QED
        BY <1>5, <4>1, <4>2
    <3>4. <<key[1], e.file[1]>> \in met
      BY <1>3, <1>5, <2>1, <3>3 DEF FrameInv
    <3> HIDE DEF key
    <3>5. /\ IsArchive(Added(archive, key, e))
          /\ EntriesInv(Added(archive, key, e), project, assets, met)
          /\ Added(archive, key, e).roots = archive.roots
      BY <1>2, <1>5, <3>3, <3>4, DependencyAdded
    <3> QED
      BY <1>1, <1>2, <3>1, <3>2, <3>5
  <2>2. CASE top.recipe.via = NoSource /\ top.recipe.file \in DOMAIN archive.roots
    BY <1>2, <1>3, <2>2 DEF Store
  <2>3. CASE top.recipe.via = NoSource /\ top.recipe.file \notin DOMAIN archive.roots
    <3>1. PICK b : /\ b = archive' /\ b = [archive EXCEPT !.roots = With(@, top.recipe.file, e)]
                   /\ UNCHANGED stage
      BY <1>3, <2>3 DEF Store, e
    <3>2. IsArchive(b) /\ IsFiniteSet(DOMAIN b.roots) /\ EntriesInv(b, project, assets, met)
      BY <1>2, <1>4, <1>5, <3>1, RootAdded
    <3> QED
      BY <1>1, <3>1, <3>2
  <2> QED
    BY <2>1, <2>2, <2>3
<1>7. /\ stack' \in Seq(Frames(project)) /\ DOMAIN stack' = 1 .. Len(stack) - 1
      /\ \A i \in 1 .. Len(stack) - 1 : i \in DOMAIN stack /\ stack'[i] = stack[i]
  BY <1>1, <1>2, StackFacts
<1>8. TypeInv'
  BY <1>0, <1>1, <1>6, <1>7, StagesFacts DEF TypeInv
<1>9. StackInv'
  BY <1>0, <1>1, <1>7 DEF StackInv
<1>10. ArchivesInv'
  BY <1>0, <1>1, <1>6 DEF ArchivesInv
<1>11. LoadedInv'
  BY <1>0, <1>1, LoadedStays
<1>12. RunInv'
  BY <1>0, <1>1, <1>6, NotRunning
<1> QED
  BY <1>8, <1>9, <1>10, <1>11, <1>12 DEF Inv

LEMMA WriteInv ==
  ASSUME Inv, Write
  PROVE  Inv'
<1> USE DEF Write
<1>1. TypeInv'
  BY StagesFacts DEF Inv, TypeInv
<1>2. StackInv' /\ ArchivesInv'
  BY DEF Inv, StackInv, ArchivesInv
<1>3. LoadedInv'
  BY LoadedStays DEF Inv
<1>4. RunInv'
  BY NotRunning DEF Inv
<1> QED
  BY <1>1, <1>2, <1>3, <1>4 DEF Inv

-----------------------------------------------------------------------------
(* A host gets its share of the archive.                                   *)

LEMMA TargetInv ==
  ASSUME Inv, NEW files \in SUBSET DOMAIN archive.roots, Target(files)
  PROVE  Inv'
<1>0. TypeInv /\ StackInv /\ ArchivesInv /\ LoadedInv /\ RunInv
  BY DEF Inv
<1> DEFINE roots == [f \in files |-> archive.roots[f]]
           own == Only(Reverse(project.args), files)
<1>1. /\ stage = "created" /\ stage' = "collecting"
      /\ sent' = [NoArchive EXCEPT !.roots = roots]
      /\ chain' = [i \in DOMAIN own |-> [entry |-> archive.roots[own[i]], next |-> 1]]
      /\ UNCHANGED <<project, loaded, clones, stack, assets, archive, met, ran>>
  BY DEF Target
<1>2. /\ IsPartial(archive.roots, Files, EntrySet) /\ EntriesInv(archive, project, assets, met)
      /\ project \in Projects
  BY <1>0 DEF TypeInv, IsArchive, ArchivesInv
<1>3. IsPartial(roots, Files, EntrySet)
  BY <1>2 DEF IsPartial
<1>4. \A f \in DOMAIN roots : EntryInv(roots[f], project, assets, met)
  BY <1>2 DEF EntriesInv
<1>5. own \in Seq(files)
  <2>1. Reverse(project.args) \in Seq(Files)
    <3>1. /\ project.args \in Seq(Files) /\ Len(project.args) \in Nat
          /\ \A i \in 1 .. Len(project.args) : project.args[i] \in Files
      BY <1>2, ArgsFacts
    <3>2. \A i \in 1 .. Len(project.args) : (Len(project.args) - i) + 1 \in 1 .. Len(project.args)
      BY <3>1
    <3>3. Reverse(project.args)
            = [i \in 1 .. Len(project.args) |-> project.args[(Len(project.args) - i) + 1]]
      BY DEF Reverse
    <3> QED
      BY <3>1, <3>2, <3>3
  <2>2. own \in Seq(Files \cap files)
    BY <2>1, OnlyType
  <2>3. Files \cap files \subseteq files
    OBVIOUS
  <2> QED
    BY <2>2, <2>3, SeqOfMore
<1>6. chain' \in Seq(Links)
  <2>1. DOMAIN own = 1 .. Len(own) /\ Len(own) \in Nat
    BY <1>5
  <2>2. ASSUME NEW i \in 1 .. Len(own)
        PROVE  [entry |-> archive.roots[own[i]], next |-> 1] \in Links
    <3>1. own[i] \in files
      BY <1>5
    <3>2. archive.roots[own[i]] \in EntrySet
      BY <1>2, <3>1 DEF IsPartial
    <3> QED
      BY <3>2 DEF Links
  <2> HIDE DEF own
  <2> QED
    BY <1>1, <2>1, <2>2
<1> HIDE DEF roots, own
<1>7. IsArchive(sent') /\ EntriesInv(sent', project, assets, met)
  <2>1. sent' = [roots |-> roots, dep |-> <<>>, order |-> <<>>]
    BY <1>1 DEF NoArchive
  <2>2. PICK b : b = sent' /\ b.roots = roots /\ b.dep = <<>> /\ b.order = <<>>
    BY <2>1
  <2>3. IsPartial(<<>>, Paths \X Ids, EntrySet)
    BY DEF IsPartial
  <2>4. IsArchive(b)
    BY <1>3, <2>1, <2>2, <2>3 DEF IsArchive
  <2>5. EntriesInv(b, project, assets, met)
    BY <1>4, <2>2 DEF EntriesInv
  <2> QED
    BY <2>2, <2>4, <2>5
<1>8. TypeInv'
  BY <1>0, <1>1, <1>6, <1>7, StagesFacts DEF TypeInv
<1>9. StackInv' /\ ArchivesInv'
  BY <1>0, <1>1, <1>7 DEF StackInv, ArchivesInv
<1>10. LoadedInv'
  BY <1>0, <1>1, LoadedStays
<1>11. RunInv'
  BY <1>0, <1>1, NotRunning
<1> QED
  BY <1>8, <1>9, <1>10, <1>11 DEF Inv

LEMMA CollectInv ==
  ASSUME Inv, Collect
  PROVE  Inv'
<1>0. TypeInv /\ StackInv /\ ArchivesInv /\ LoadedInv /\ RunInv
  BY DEF Inv
<1>1. PICK key :
        /\ stage = "collecting" /\ chain # <<>>
        /\ UNCHANGED <<project, loaded, clones, stack, assets, archive, met, ran>>
        /\ \/ stage' = "refused" /\ UNCHANGED <<sent, chain>>
           \/ /\ key \in DOMAIN archive.dep /\ UNCHANGED stage
              /\ chain' = Append(Front(chain) \o <<[Last1(chain) EXCEPT !.next = @ + 1]>>,
                                 Collected(key))
              /\ sent' = Added(sent, key, archive.dep[key])
  BY DEF Collect, Added
<1>2. /\ IsArchive(sent) /\ EntriesInv(sent, project, assets, met) /\ chain \in Seq(Links)
      /\ IsPartial(archive.dep, Paths \X Ids, EntrySet)
      /\ EntriesInv(archive, project, assets, met)
  BY <1>0 DEF TypeInv, IsArchive, ArchivesInv
<1>3. /\ stage' \in {"refused", "collecting"}
      /\ IsArchive(sent') /\ EntriesInv(sent', project, assets, met) /\ chain' \in Seq(Links)
  <2>1. CASE stage' = "refused" /\ UNCHANGED <<sent, chain>>
    BY <1>2, <2>1
  <2>2. CASE /\ key \in DOMAIN archive.dep /\ UNCHANGED stage
             /\ chain' = Append(Front(chain) \o <<[Last1(chain) EXCEPT !.next = @ + 1]>>,
                                Collected(key))
             /\ sent' = Added(sent, key, archive.dep[key])
    <3>1. key \in Paths \X Ids /\ archive.dep[key] \in EntrySet
      BY <1>2, <2>2 DEF IsPartial
    <3>2. /\ EntryInv(archive.dep[key], project, assets, met)
          /\ archive.dep[key].file[2] = key[2] /\ <<key[1], archive.dep[key].file[1]>> \in met
      BY <1>2, <2>2 DEF EntriesInv
    <3>3. /\ IsArchive(Added(sent, key, archive.dep[key]))
          /\ EntriesInv(Added(sent, key, archive.dep[key]), project, assets, met)
      BY <1>2, <3>1, <3>2, DependencyAdded
    <3>4. Collected(key) \in Links
      BY <3>1 DEF Collected, Links
    <3>5. [Last1(chain) EXCEPT !.next = @ + 1] \in Links
      <4>1. Last1(chain) \in Links
        BY <1>1, <1>2, StackFacts
      <4>2. Last1(chain).next + 1 \in Nat
        BY <4>1 DEF Links
      <4> QED
        BY <4>1, <4>2 DEF Links
    <3>6. chain' \in Seq(Links)
      BY <1>1, <1>2, <2>2, <3>4, <3>5, PushFacts
    <3> QED
      BY <1>1, <2>2, <3>3, <3>6
  <2> QED
    BY <1>1, <2>1, <2>2
<1>4. TypeInv'
  BY <1>0, <1>1, <1>3, StagesFacts DEF TypeInv
<1>5. StackInv' /\ ArchivesInv'
  BY <1>0, <1>1, <1>3 DEF StackInv, ArchivesInv
<1>6. LoadedInv'
  BY <1>0, <1>1, <1>3, LoadedStays
<1>7. RunInv'
  BY <1>0, <1>1, <1>3, NotRunning
<1> QED
  BY <1>4, <1>5, <1>6, <1>7 DEF Inv

LEMMA SentInv ==
  ASSUME Inv, Collapse \/ Send
  PROVE  Inv'
<1>0. TypeInv /\ StackInv /\ ArchivesInv /\ LoadedInv /\ RunInv
  BY DEF Inv
<1>1. /\ stage = "collecting" /\ stage' \in {"collecting", "sent"}
      /\ UNCHANGED <<project, loaded, clones, stack, assets, archive, met, sent, ran>>
  BY DEF Collapse, Send
<1>2. chain' \in Seq(Links)
  <2>1. chain \in Seq(Links)
    BY <1>0 DEF TypeInv
  <2>2. CASE chain # <<>> /\ chain' = Front(chain)
    BY <2>1, <2>2, StackFacts
  <2> QED
    BY <2>1, <2>2 DEF Collapse, Send
<1>3. TypeInv'
  BY <1>0, <1>1, <1>2, StagesFacts DEF TypeInv
<1>4. StackInv' /\ ArchivesInv'
  BY <1>0, <1>1 DEF StackInv, ArchivesInv
<1>5. LoadedInv'
  BY <1>0, <1>1, LoadedStays
<1>6. RunInv'
  BY <1>0, <1>1, NotRunning
<1> QED
  BY <1>3, <1>4, <1>5, <1>6 DEF Inv

-----------------------------------------------------------------------------
(* The agent runs it.                                                      *)

LEMMA InstantiateInv ==
  ASSUME Inv, Instantiate
  PROVE  Inv'
<1>0. TypeInv /\ StackInv /\ ArchivesInv /\ LoadedInv /\ RunInv
  BY DEF Inv
<1>1. /\ stage = "sent" /\ stage' \in {"running", "refused"}
      /\ stage' = "running" => \A f \in DOMAIN sent.roots : Valid(sent.roots[f])
      /\ UNCHANGED <<project, loaded, clones, stack, assets, archive, met, sent, chain, ran>>
  BY DEF Instantiate
<1>2. TypeInv'
  BY <1>0, <1>1, StagesFacts DEF TypeInv
<1>3. StackInv' /\ ArchivesInv'
  BY <1>0, <1>1 DEF StackInv, ArchivesInv
<1>4. LoadedInv'
  BY <1>0, <1>1, LoadedStays
<1>5. RunInv'
  <2>1. ran = {}
    BY <1>0, <1>1 DEF RunInv
  <2> QED
    BY <1>1, <2>1 DEF RunInv, Valid
<1> QED
  BY <1>2, <1>3, <1>4, <1>5 DEF Inv

LEMMA RunDependencyInv ==
  ASSUME Inv, NEW entry \in Running, NEW id \in DOMAIN entry.uids, RunDependency(entry, id)
  PROVE  Inv'
<1>0. TypeInv /\ StackInv /\ ArchivesInv /\ LoadedInv /\ RunInv
  BY DEF Inv
<1>1. PICK got : /\ got = IF AtRuntime(id) = Absent THEN Absent
                          ELSE IF Valid(AtRuntime(id)) THEN AtRuntime(id) ELSE Absent
                 /\ ran' = ran \cup {[by |-> entry, id |-> id, got |-> got]}
  BY DEF RunDependency
<1>2. /\ stage = "running"
      /\ UNCHANGED <<project, stage, loaded, clones, stack, assets, archive, met, sent, chain>>
  BY DEF RunDependency
<1>3. entry \in Entries(sent) /\ Valid(entry)
  <2>1. CASE \E f \in DOMAIN sent.roots : entry = sent.roots[f]
    BY <1>0, <1>2, <2>1 DEF RunInv, Entries
  <2>2. CASE \E r \in ran : entry = r.got /\ r.got # Absent
    BY <1>0, <2>2 DEF RunInv, Entries
  <2> QED
    BY <2>1, <2>2 DEF Running
<1>4. got # Absent => Valid(got) /\ \E k \in DOMAIN sent.dep : k[2] = id /\ got = sent.dep[k]
  <2> SUFFICES ASSUME got # Absent
               PROVE  Valid(got) /\ \E k \in DOMAIN sent.dep : k[2] = id /\ got = sent.dep[k]
    OBVIOUS
  <2>1. got = AtRuntime(id) /\ Valid(got)
    BY <1>1
  <2> DEFINE I == {j \in 1 .. Len(sent.order) : <<sent.order[j], id>> \in DOMAIN sent.dep}
  <2>2. PICK n : n = IF I # {} THEN Min(I) ELSE 0
    OBVIOUS
  <2>3. AtRuntime(id) = IF n = 0 THEN Absent ELSE sent.dep[<<sent.order[n], id>>]
    BY <2>2 DEF AtRuntime, SelectInSeq
  <2>4. n # 0 /\ got = sent.dep[<<sent.order[n], id>>]
    BY <2>1, <2>3
  <2>5. n \in I
    <3>1. I # {} /\ n = Min(I) /\ I \subseteq Nat
      BY <2>2, <2>4
    <3> HIDE DEF I
    <3> QED
      BY <3>1, MinFacts
  <2>6. <<sent.order[n], id>> \in DOMAIN sent.dep /\ <<sent.order[n], id>>[2] = id
    BY <2>5
  <2> QED
    BY <2>1, <2>4, <2>6
<1>5. TypeInv'
  BY <1>0, <1>2 DEF TypeInv
<1>6. StackInv' /\ ArchivesInv'
  BY <1>0, <1>2 DEF StackInv, ArchivesInv
<1>7. LoadedInv'
  BY <1>0, <1>2 DEF LoadedInv
<1>8. RunInv'
  <2>1. ASSUME NEW r \in ran'
        PROVE  /\ r.by \in Entries(sent) /\ Valid(r.by) /\ r.id \in DOMAIN r.by.uids
               /\ r.got # Absent =>
                    Valid(r.got) /\ \E k \in DOMAIN sent.dep : k[2] = r.id /\ r.got = sent.dep[k]
    <3>1. CASE r \in ran
      BY <1>0, <3>1 DEF RunInv
    <3>2. CASE r = [by |-> entry, id |-> id, got |-> got]
      BY <1>3, <1>4, <3>2
    <3> QED
      BY <1>1, <2>1, <3>1, <3>2
  <2>2. \A f \in DOMAIN sent.roots : Valid(sent.roots[f])
    BY <1>0, <1>2 DEF RunInv
  <2> QED
    BY <1>2, <2>1, <2>2 DEF RunInv, Valid, Entries
<1> QED
  BY <1>5, <1>6, <1>7, <1>8 DEF Inv

-----------------------------------------------------------------------------
(* Theorems.                                                               *)

LEMMA StutterInv ==
  ASSUME Inv, UNCHANGED vars
  PROVE  Inv'
<1> USE DEF vars
<1>1. TypeInv' /\ StackInv' /\ ArchivesInv' /\ LoadedInv'
  BY DEF Inv, TypeInv, StackInv, ArchivesInv, LoadedInv
<1>2. RunInv'
  BY DEF Inv, RunInv, Valid, Entries
<1> QED
  BY <1>1, <1>2 DEF Inv

(* Whatever projects there are, the state of an archive, of what a host    *)
(* gets of it and of what runs is what the invariant says.                 *)
THEOREM Invariance == Spec => []Inv
<1>1. Inv /\ [Next]_vars => Inv'
  <2> SUFFICES ASSUME Inv, [Next]_vars PROVE Inv'
    OBVIOUS
  <2>1. CASE Create
    BY <2>1, LoadRootInv, BeginBuildInv, BeginRootInv, DependInv, ExhaustInv, StoreInv, WriteInv
       DEF Create
  <2>2. CASE Provide
    BY <2>2, TargetInv, CollectInv, SentInv DEF Provide
  <2>3. CASE Agent
    BY <2>3, InstantiateInv, RunDependencyInv DEF Agent
  <2>4. CASE UNCHANGED vars
    BY <2>4, StutterInv
  <2> QED
    BY <2>1, <2>2, <2>3, <2>4 DEF Next
<1> QED
  BY <1>1, InitInv, PTL DEF Spec

(* Everything has its type: what is archived and sent are entries of recipe*)
(* files, under the ids of configured sources (archive.ts).                *)
THEOREM ArchiveTypeCorrect == Spec => []TypeInv
BY Invariance, PTL DEF Inv

(* The assets of an entry are those of the recipe's own directory.         *)
THEOREM AssetsBelong == Spec => []AssetsAreOwn
<1>1. Inv => AssetsAreOwn
  <2> SUFFICES ASSUME Inv, NEW e \in Entries(archive) PROVE HasOwn(e.file, e.assets, assets)
    BY DEF AssetsAreOwn, HasOwn
  <2>1. EntriesInv(archive, project, assets, met)
    BY DEF Inv, ArchivesInv
  <2> QED
    BY <2>1 DEF Entries, EntriesInv, EntryInv
<1> QED
  BY <1>1, Invariance, PTL

LEMMA ApartFacts == ClonesApart <=> Apart(project)
BY DEF ClonesApart, Apart, GitSources, Cached

(* The variables of groups and hosts are kept for the recipes to which only*)
(* trusted sources led, as long as no two git sources share a clone.       *)
THEOREM VarsKeptByTrust == Spec => []VarsByTrust
<1>1. Inv => VarsByTrust
  <2> SUFFICES ASSUME Inv, ClonesApart, NEW e \in Entries(archive)
               PROVE  e.vars <=> \A i \in DOMAIN e.path : e.path[i]
    BY DEF VarsByTrust
  <2>1. /\ EntriesInv(archive, project, assets, met)
        /\ IsPartial(archive.roots, Files, EntrySet)
        /\ IsPartial(archive.dep, Paths \X Ids, EntrySet)
    BY DEF Inv, ArchivesInv, TypeInv, IsArchive
  <2>2. e \in EntrySet /\ EntryInv(e, project, assets, met)
    BY <2>1 DEF Entries, EntriesInv, IsPartial
  <2>3. e.vars \in BOOLEAN /\ e.path \in Seq(BOOLEAN)
    BY <2>2 DEF EntrySet
  <2>4. e.vars = TRUE <=> \A i \in DOMAIN e.path : e.path[i] = TRUE
    BY <2>2, ApartFacts DEF EntryInv, TrustedBy
  <2> QED
    BY <2>3, <2>4
<1> QED
  BY <1>1, Invariance, PTL

(* A dependency is archived from the directory it was validated with: the  *)
(* sources of the callers, which are appended once more, hide nothing.     *)
THEOREM FoundIsValidated == Spec => []FoundAsValidated
<1>1. Inv => FoundAsValidated
  <2> SUFFICES ASSUME Inv, ClonesApart, NEW i \in DOMAIN stack,
                      NEW d \in ToSet(Deps(stack[i].recipe.file)), d.id \in DOMAIN stack[i].found
               PROVE  DirectoryOf(Search(stack[i].recipe.list, d.id, d.from, clones).via)
                        = stack[i].found[d.id][1]
    BY DEF FoundAsValidated
  <2>1. /\ project \in Projects /\ stack \in Seq(Frames(project)) /\ ClonesOf(project, clones)
        /\ FrameInv(stack[i], project, assets, met)
    BY DEF Inv, TypeInv, StackInv
  <2>2. PICK frame \in Frames(project) : frame = stack[i]
    BY <2>1
  <2>3. frame.recipe.list \in Seq(Usable(project))
    BY DEF Frames, Recipes
  <2>4. PICK j \in DOMAIN project.deps[frame.recipe.file] : d = project.deps[frame.recipe.file][j]
    BY <2>2 DEF ToSet, Deps
  <2>5. frame.found[d.id][1] = DirectoryOf(Search(frame.recipe.list, d.id, d.from, <<>>).via)
    BY <2>1, <2>2, <2>4, ApartFacts DEF FrameInv, FindsAsSeen
  <2>6. Search(frame.recipe.list, d.id, d.from, clones).via
          = Search(frame.recipe.list, d.id, d.from, <<>>).via
    BY <2>1, <2>3, ApartFacts, SearchFacts
  <2> QED
    BY <2>2, <2>5, <2>6
<1> QED
  BY <1>1, Invariance, PTL

(* What runs for a dependency is what was found for it when the archive was*)
(* made, where ids tell sources and recipes apart.                         *)
THEOREM RunIsFound == Spec => []RunsAsFound
<1>1. Inv => RunsAsFound
  <2> SUFFICES ASSUME Inv, SourcesApart, OneSourceEach, NEW r \in ran, r.got # Absent
               PROVE  r.got.file = r.by.found[r.id]
    BY DEF RunsAsFound
  <2>1. /\ r.by \in Entries(sent) /\ Valid(r.by) /\ r.id \in DOMAIN r.by.uids
        /\ EntriesInv(sent, project, assets, met)
        /\ IsPartial(sent.roots, Files, EntrySet) /\ IsPartial(sent.dep, Paths \X Ids, EntrySet)
    BY DEF Inv, RunInv, ArchivesInv, TypeInv, IsArchive
  <2>2. PICK k \in DOMAIN sent.dep : k[2] = r.id /\ r.got = sent.dep[k]
    BY DEF Inv, RunInv
  <2>3. <<r.by.uids[r.id], r.id>> \in DOMAIN sent.dep
    BY <2>1 DEF Valid
  <2>4. k[1] = r.by.uids[r.id]
    BY <2>2, <2>3 DEF OneSourceEach
  <2>5. r.got \in EntrySet /\ r.got.file[2] = r.id /\ <<k[1], r.got.file[1]>> \in met
    BY <2>1, <2>2 DEF EntriesInv, IsPartial
  <2>6. /\ r.by \in EntrySet /\ DOMAIN r.by.uids = DOMAIN r.by.found
        /\ r.by.found[r.id][2] = r.id /\ <<k[1], r.by.found[r.id][1]>> \in met
    <3>1. r.by \in EntrySet /\ EntryInv(r.by, project, assets, met)
      BY <2>1 DEF Entries, EntriesInv, IsPartial
    <3> QED
      BY <2>1, <2>4, <3>1 DEF EntryInv, Meant
  <2>7. r.got.file[1] = r.by.found[r.id][1]
    BY <2>5, <2>6 DEF SourcesApart
  <2>8. r.got.file \in Files /\ r.by.found[r.id] \in Files
    <3>1. r.by.found \in Partial(Ids, Files) /\ r.got.file \in Files
      BY <2>5, <2>6 DEF EntrySet
    <3>2. IsPartial(r.by.found, Ids, Files)
      BY <3>1, PartialFacts
    <3> QED
      BY <2>1, <2>6, <3>1, <3>2 DEF IsPartial
  <2> QED
    BY <2>5, <2>6, <2>7, <2>8, FilesFacts
<1> QED
  BY <1>1, Invariance, PTL
=============================================================================
