----------------------------- MODULE MCKiwiAgent -----------------------------
(***************************************************************************)
(* Instances of KiwiAgent for TLC: two releases, the first with two        *)
(* runtime recipes and a bootstrap recipe, the second with one runtime     *)
(* recipe the two releases share.                                          *)
(***************************************************************************)
EXTENDS KiwiAgent, TLC

CONSTANTS x1, x2, k1, k2, b1

MCReleases == {x1, x2}
MCRecipes == {k1, k2, b1}
MCRecipesOf ==
  [x \in MCReleases |->
    IF x = x1 THEN [bootstrap |-> <<b1>>, runtime |-> <<k1, k2>>]
              ELSE [bootstrap |-> << >>, runtime |-> <<k2>>]]
MCSymmetry == Permutations(Reloads)
=============================================================================
