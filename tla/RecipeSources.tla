---------------------------- MODULE RecipeSources ----------------------------
(***************************************************************************)
(* Where recipes come from: directories and git repositories, the lists of *)
(* them that recipes see, and the search for a recipe by its id            *)
(* (recipeSources/, and the source lists of components/recipe.ts).         *)
(*                                                                         *)
(* A recipe file is a pair of a directory and an id.  A source is a record:*)
(* a directory source reads `path' from the directory `base', a git source *)
(* reads `path' in the checkout `base' of a repository at a revision.      *)
(***************************************************************************)
EXTENDS Naturals, Sequences, SequencesExt

CONSTANTS
  Place,  \* the directory that a path denotes from a directory or checkout
  Held,   \* the ids of the recipes of a directory
  Url     \* the repository of a checkout

None == "none"

Source(git, base, path) ==
  [git |-> git, base |-> base, path |-> path, name |-> None,
   trusted |-> FALSE, propagate |-> TRUE, cached |-> FALSE]
NoSource == Source(FALSE, None, None)

(* The unique id of a directory source is made of its configuration, which *)
(* the directory it is relative to is no part of.                          *)
UniqueId(s) == s.path

DirectoryOf(s) == Place[<<s.base, s.path>>]

(* The directory source that a git source makes of a checkout.             *)
Checkout(s) == [Source(FALSE, s.base, s.path) EXCEPT !.trusted = s.trusted]

(* What stands for source s when id is looked up: a clone that was made    *)
(* before, of the same repository for the same id, if s uses the cache.    *)
Standing(s, id, clones) ==
  IF ~s.git THEN s
  ELSE IF s.cached /\ <<Url[s.base], id>> \in DOMAIN clones THEN clones[<<Url[s.base], id>>]
  ELSE Checkout(s)

Has(s, id, clones) == id \in Held[DirectoryOf(Standing(s, id, clones))]

-----------------------------------------------------------------------------
(* Lists.                                                                  *)

(* The members of a list that are in a set, in their order.                *)
Filtered(list, set) ==
  LET upTo[n \in 0 .. Len(list)] ==
        IF n = 0 THEN <<>>
        ELSE IF list[n] \in set THEN Append(upTo[n - 1], list[n]) ELSE upTo[n - 1]
  IN upTo
Only(list, set) == Filtered(list, set)[Len(list)]

(* Mutant of MergePrepend: the sources of others come first.               *)
MergeAppend(list, to) == to \o Only(list, ToSet(list) \ ToSet(to))

MergePrepend(list, to) == list \o Only(to, ToSet(to) \ ToSet(list))
Propagated(list) == Only(list, {s \in ToSet(list) : s.propagate})

(* The place of the first source of a name.                                *)
Named(list, from) == SelectInSeq(list, LAMBDA s : s.name = from)

(* A list finds by the name of a source, or looks through all of them.     *)
Candidates(list, from) ==
  IF from = None THEN list
  ELSE IF Named(list, from) = 0 THEN <<>> ELSE <<list[Named(list, from)]>>

(* A function that also maps x to y, whatever it did before.               *)
With(f, x, y) == [z \in DOMAIN f \cup {x} |-> IF z = x THEN y ELSE f[z]]

(* A git source without the recipe throws; a directory lets the next one   *)
(* be tried.                                                               *)
Stop(list, id, from, clones) ==
  SelectInSeq(Candidates(list, from), LAMBDA s : s.git \/ Has(s, id, clones))

(* The source found for a recipe, and the clones kept.                     *)
Found(s, id, clones) ==
  IF ~Has(s, id, clones) THEN [via |-> NoSource, clones |-> clones]
  ELSE [via |-> Standing(s, id, clones),
        clones |-> IF s.git /\ s.cached
                   THEN With(clones, <<Url[s.base], id>>, Standing(s, id, clones)) ELSE clones]

Search(list, id, from, clones) ==
  LET i == Stop(list, id, from, clones) IN
  IF i = 0 THEN [via |-> NoSource, clones |-> clones]
  ELSE Found(Candidates(list, from)[i], id, clones)

-----------------------------------------------------------------------------
(* Recipes.                                                                *)

Based(s, dir) == IF s.base = None THEN [s EXCEPT !.base = dir] ELSE s

(* The sources a recipe sees: its own, then its own directory, then those  *)
(* of whoever loads it.                                                    *)
Combined(dir, own, ignore, context) ==
  LET local == [i \in DOMAIN own |-> Based(own[i], dir)] \o <<Source(FALSE, dir, ".")>>
  IN IF ignore THEN local ELSE MergePrepend(local, context)

(* Every dependency must be found when a recipe is loaded.                 *)
Sought(list, d, s) ==
  LET f == Search(list, d.id, d.from, s.clones)
  IN [ok |-> s.ok /\ f.via # NoSource, clones |-> f.clones]
Validated(list, deps, clones) ==
  LET upTo[n \in 0 .. Len(deps)] ==
        IF n = 0 THEN [ok |-> TRUE, clones |-> clones] ELSE Sought(list, deps[n], upTo[n - 1])
  IN upTo
ValidateDependencies(list, deps, clones) == Validated(list, deps, clones)[Len(deps)]
=============================================================================
